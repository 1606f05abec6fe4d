-------------------------- MODULE DownloadPoolProofs --------------------------
(***************************************************************************)
(* Proofs about DownloadPool, for any acts, workers, capacities and limits.*)
(***************************************************************************)
EXTENDS DownloadPool, FiniteSetTheorems, SequenceTheorems, TLAPS

\* A batch of acts is a set of acts, and an empty one means an empty table.
LEMMA BatchLemma ==
  ASSUME NEW r \in Run, NEW T \in Selected(r)
  PROVE  /\ T \in SUBSET Act
         /\ T = {} /\ ~Explicit => \A a \in Act : ~Eligible(a)
<1>1. CASE Explicit
  BY <1>1 DEF Selected
<1>2. CASE ~Explicit
  <2> DEFINE S == {a \in Act : Eligible(a)}
  <2>1. IsFiniteSet(S) /\ Cardinality(S) \in Nat
    BY PoolAssumption, FS_Subset, FS_CardinalityType
  <2>2. /\ T \subseteq S
        /\ Cardinality(T) = IF Cardinality(S) < Batch THEN Cardinality(S) ELSE Batch
    BY <1>2 DEF Selected, BatchOf
  <2>3. ASSUME T = {} PROVE S = {}
    <3>1. Cardinality(T) = 0
      BY <2>3, FS_EmptySet
    <3>2. Cardinality(S) = 0
      BY <2>1, <2>2, <3>1, PoolAssumption
    <3>3. QED
      BY <2>1, <3>2, FS_EmptySet
  <2>4. QED
    BY <2>2, <2>3
<1>3. QED
  BY <1>1, <1>2

\* The type of what NewRun assigns.
LEMMA NewRunType ==
  ASSUME NewRun
  PROVE  /\ queue' \in Seq(Act) /\ closed' \in BOOLEAN
         /\ xpc' \in [Extractor -> ExtractorPlace]
         /\ item' \in [Extractor -> Act \cup {NoAct}]
         /\ todo' \in SUBSET Act /\ faults' \in Nat
         /\ ExtractorsReady'
<1>1. <<>> \in Seq(Act) /\ 0 \in Nat
  BY EmptySeq, PoolAssumption
<1>2. xpc' \in [Extractor -> ExtractorPlace] /\ item' \in [Extractor -> Act \cup {NoAct}]
  BY DEF NewRun, ExtractorPlace
<1>3. QED
  BY <1>1, <1>2 DEF NewRun, ExtractorsReady

\* The type of what Blank assigns.
LEMMA BlankType ==
  ASSUME TypeOK, Blank, stage' \in Stage, UNCHANGED <<acts, file>>
  PROVE  TypeOK' /\ HandsFull'
<1>1. 0 \in 0..FailLimit /\ 0 < FailLimit /\ 1 \in Run
  BY PoolAssumption DEF Run
<1>2. /\ buf' \in [Run -> [Act -> Nat]] /\ deferred' \in [Run -> [Act -> Nat]]
      /\ fetched' \in [Run -> SUBSET Act]
  BY DEF Blank, Each, NoCopies
<1>3. /\ loading' \in [Run -> BOOLEAN] /\ exhausted' \in [Run -> BOOLEAN]
      /\ consumed' \in [Run -> BOOLEAN]
  BY DEF Blank, Each
<1>4. wpc' \in [Worker -> WorkerPlace] /\ hand' \in [Worker -> Act \cup {NoAct}]
  BY DEF Blank, WorkerPlace
<1>5. bad' \in [Worker -> 0..FailLimit]
  BY <1>1 DEF Blank
<1>6. /\ unlinks' \in SUBSET Act /\ cur' \in Run /\ halt' \in BOOLEAN /\ alone' \in BOOLEAN
      /\ stop' \in [Run -> BOOLEAN] /\ seen' \in [Run -> Nat]
  BY <1>1 DEF Blank, Each
<1>7. WorkersReady'
  BY <1>1 DEF Blank, WorkersReady
<1>8. NewRun
  BY DEF Blank
<1>9. QED
  BY <1>2, <1>3, <1>4, <1>5, <1>6, <1>7, <1>8, NewRunType DEF TypeOK, HandsFull, acts

\* One more copy, one more attempt.
LEMMA AddType ==
  ASSUME NEW b \in [Act -> Nat], NEW a \in Act
  PROVE  Add(b, a) \in [Act -> Nat]
  BY DEF Add

\* A source is changed at one run, and there at one act.
LEMMA NestType ==
  ASSUME NEW f \in [Run -> [Act -> Nat]], NEW r \in Run, NEW g \in [Act -> Nat]
  PROVE  [f EXCEPT ![r] = g] \in [Run -> [Act -> Nat]]
  OBVIOUS

LEMMA OneTaken ==
  ASSUME NEW g \in [Act -> Nat], NEW a \in Act, g[a] > 0
  PROVE  /\ [g EXCEPT ![a] = @ - 1] \in [Act -> Nat]
         /\ \A c \in Act : [g EXCEPT ![a] = @ - 1][c] + (IF c = a THEN 1 ELSE 0) = g[c]
  OBVIOUS

\* A fault counts within its bound.
LEMMA FaultType ==
  ASSUME faults \in Nat, Fault \/ NoFault
  PROVE  faults' \in Nat
  BY PoolAssumption DEF Fault, NoFault

\* A worker that catches an exception pauses or gives up, with empty hands.
LEMMA UnexpectedType ==
  ASSUME TypeOK, WorkersReady, NEW w \in Worker, wpc[w] # "crashed", Unexpected(w)
  PROVE  /\ wpc' \in [Worker -> WorkerPlace]
         /\ hand' \in [Worker -> Act \cup {NoAct}]
         /\ bad' \in [Worker -> 0..FailLimit]
         /\ WorkersReady'
<1>1. bad[w] \in 0..FailLimit /\ bad[w] < FailLimit /\ FailLimit \in Nat
  BY PoolAssumption DEF TypeOK, WorkersReady
<1>2. bad' \in [Worker -> 0..FailLimit]
  BY <1>1 DEF Unexpected, TypeOK
<1>3. wpc' \in [Worker -> WorkerPlace]
  BY DEF Unexpected, Go, TypeOK, WorkerPlace
<1>4. hand' \in [Worker -> Act \cup {NoAct}]
  BY DEF Unexpected, Empty, TypeOK
<1>5. ASSUME NEW v \in Worker
      PROVE  /\ wpc'[v] \in {"get", "write", "mark", "markfail", "push"} => hand'[v] \in Act
             /\ wpc'[v] # "crashed" => bad'[v] < FailLimit
  <2>1. CASE v = w
    BY <2>1, <1>1 DEF Unexpected, Go, Empty, TypeOK
  <2>2. CASE v # w
    BY <2>2 DEF Unexpected, Go, Empty, TypeOK, WorkersReady
  <2>3. QED
    BY <2>1, <2>2
<1>6. QED
  BY <1>2, <1>3, <1>4, <1>5 DEF WorkersReady

\* A claim counts the act and puts it into the worker's hands.
LEMMA GotType ==
  ASSUME TypeOK, WorkersReady, NEW w \in Worker, wpc[w] # "crashed",
         NEW a \in Act, Got(w, a), bad' = bad
  PROVE  /\ wpc' \in [Worker -> WorkerPlace]
         /\ hand' \in [Worker -> Act \cup {NoAct}]
         /\ seen' \in [Run -> Nat]
         /\ WorkersReady'
<1> DEFINE r == RunOf[w]
<1>0. r \in Run /\ seen[r] \in Nat /\ seen[r] + 1 \in Nat
  <2>1. r \in Run
    BY PoolAssumption DEF Run
  <2>2. seen[r] \in Nat
    BY <2>1 DEF TypeOK
  <2> HIDE DEF r
  <2> QED
    BY <2>1, <2>2
<1> HIDE DEF r
<1>1. seen' \in [Run -> Nat]
  <2>1. seen' = [seen EXCEPT ![r] = IF MaxRun = 0 THEN 0 ELSE seen[r] + 1]
    BY DEF Got, r
  <2> QED
    BY <1>0, <2>1 DEF TypeOK
<1>2. CASE MaxRun > 0 /\ seen[r] + 1 > MaxRun
  BY <1>1, <1>2 DEF Got, Go, TypeOK, WorkersReady, WorkerPlace, r
<1>3. CASE ~(MaxRun > 0 /\ seen[r] + 1 > MaxRun)
  <2>1. wpc' = [wpc EXCEPT ![w] = "get"] /\ hand' = [hand EXCEPT ![w] = a]
    BY <1>3 DEF Got, Go, r
  <2>2. wpc' \in [Worker -> WorkerPlace] /\ hand' \in [Worker -> Act \cup {NoAct}]
    BY <2>1 DEF TypeOK, WorkerPlace
  <2>3. WorkersReady'
    BY <2>1 DEF TypeOK, WorkersReady
  <2> QED
    BY <1>1, <2>2, <2>3
<1>4. QED
  BY <1>2, <1>3

\* The workers of a run begin at their loop, with no exceptions counted.
LEMMA DrainSelectType ==
  ASSUME TypeOK, HandsFull, DrainSelect PROVE TypeOK' /\ HandsFull'
<1>1. todo' \in SUBSET Act
  BY DEF DrainSelect, Pending
<1>2. stage' \in Stage
  BY DEF DrainSelect, Stage, TypeOK
<1>3. 0 \in 0..FailLimit /\ 0 < FailLimit
  BY PoolAssumption
<1>4. CASE Pending = {}
  <2>1. /\ wpc' = [w \in Worker |-> IF InPool(w) THEN "loop" ELSE wpc[w]]
        /\ bad' = [w \in Worker |-> IF InPool(w) THEN 0 ELSE bad[w]]
        /\ hand' = hand
    BY <1>4 DEF DrainSelect
  <2>2. wpc' \in [Worker -> WorkerPlace] /\ bad' \in [Worker -> 0..FailLimit]
    BY <1>3, <2>1 DEF TypeOK, WorkerPlace
  <2>3. WorkersReady'
    BY <1>3, <2>1 DEF WorkersReady, HandsFull
  <2>4. QED
    BY <1>1, <1>2, <2>2, <2>3
       DEF DrainSelect, TypeOK, HandsFull, ExtractorsReady, acts, source, extract
<1>5. CASE Pending # {}
  BY <1>1, <1>2, <1>5 DEF DrainSelect, TypeOK, HandsFull, WorkersReady, ExtractorsReady,
     acts, source, extract
<1>6. QED
  BY <1>4, <1>5

\* An extract worker has looked at its file.
LEMMA ExtractType ==
  ASSUME TypeOK, HandsFull, NEW x \in Extractor, Extract(x)
  PROVE  TypeOK' /\ HandsFull'
<1>1. PICK place \in {"good", "bad"} : xpc' = [xpc EXCEPT ![x] = place]
  BY DEF Extract
<1>2. faults' \in Nat
  BY FaultType DEF Extract, TypeOK
<1>3. xpc' \in [Extractor -> ExtractorPlace]
  BY <1>1 DEF TypeOK, ExtractorPlace
<1>4. ExtractorsReady'
  BY <1>1 DEF Extract, ExtractorsReady, HandsFull, TypeOK
<1>5. WorkersReady'
  BY DEF Extract, WorkersReady, HandsFull, workers
<1> QED
  BY <1>2, <1>3, <1>4, <1>5 DEF Extract, TypeOK, HandsFull, acts, source, workers, run

\* An extract worker has written its column and goes back to the queue.
LEMMA MarkedTextType ==
  ASSUME TypeOK, HandsFull, NEW x \in Extractor, MarkExtracted(x) \/ MarkExtractFailed(x)
  PROVE  TypeOK' /\ HandsFull'
<1>1. item[x] \in Act
  BY DEF MarkExtracted, MarkExtractFailed, HandsFull, ExtractorsReady
<1>2. text' \in [Act -> {"none", "text", "failed"}]
  BY DEF MarkExtracted, MarkExtractFailed, TypeOK
<1>3. faults' \in Nat
  BY FaultType DEF MarkExtracted, MarkExtractFailed, TypeOK
<1>4. unlinks' \in SUBSET Act
  BY <1>1 DEF MarkExtracted, MarkExtractFailed, TypeOK
<1>5. /\ xpc' = [xpc EXCEPT ![x] = "shift"] /\ item' = [item EXCEPT ![x] = NoAct]
      /\ UNCHANGED <<downloaded, attempts, file, source, workers, queue, closed, run>>
  BY DEF MarkExtracted, MarkExtractFailed, Next1
<1>6. xpc' \in [Extractor -> ExtractorPlace] /\ item' \in [Extractor -> Act \cup {NoAct}]
  BY <1>5 DEF TypeOK, ExtractorPlace
<1>7. ExtractorsReady'
  BY <1>5 DEF ExtractorsReady, HandsFull, TypeOK
<1>8. WorkersReady'
  BY <1>5 DEF WorkersReady, HandsFull, workers
<1> QED
  BY <1>2, <1>3, <1>4, <1>5, <1>6, <1>7, <1>8 DEF TypeOK, HandsFull, source, workers, run

\* A download worker has marked its act and goes on to the queue.
LEMMA MarkDownloadedType ==
  ASSUME TypeOK, HandsFull, NEW w \in Worker, MarkDownloaded(w)
  PROVE  TypeOK' /\ HandsFull'
<1>1. hand[w] \in Act
  BY DEF MarkDownloaded, At, HandsFull, WorkersReady
<1>2. Add(attempts, hand[w]) \in [Act -> Nat]
  BY <1>1, AddType DEF TypeOK
<1>3. faults' \in Nat
  BY FaultType DEF MarkDownloaded, TypeOK
<1>4. /\ attempts' = attempts \/ attempts' = Add(attempts, hand[w])
      /\ \/ downloaded' = downloaded
         \/ downloaded' = [downloaded EXCEPT ![hand[w]] = TRUE]
      /\ bad' = [bad EXCEPT ![w] = 0] /\ wpc' = [wpc EXCEPT ![w] = "push"]
      /\ hand' = hand
      /\ UNCHANGED <<text, file, source, hand, extract, closed, unlinks, run>>
  BY DEF MarkDownloaded, Go
<1>5. attempts' \in [Act -> Nat] /\ downloaded' \in [Act -> BOOLEAN]
  BY <1>2, <1>4 DEF TypeOK
<1>6. 0 \in 0..FailLimit /\ 0 < FailLimit
  BY PoolAssumption
<1>7. bad' \in [Worker -> 0..FailLimit] /\ wpc' \in [Worker -> WorkerPlace]
  BY <1>4, <1>6 DEF TypeOK, WorkerPlace
<1>8. WorkersReady'
  BY <1>1, <1>4, <1>6 DEF WorkersReady, HandsFull, TypeOK
<1>9. ExtractorsReady'
  BY <1>4 DEF ExtractorsReady, HandsFull, extract
<1> QED
  BY <1>3, <1>4, <1>5, <1>7, <1>8, <1>9 DEF TypeOK, HandsFull, source, extract, run

\* A worker with an empty buffer returns or begins to load.
LEMMA LoadingType ==
  ASSUME TypeOK, HandsFull, NEW w \in Worker, NothingLeft(w) \/ Fetch(w)
  PROVE  TypeOK' /\ HandsFull'
<1>1. RunOf[w] \in Run
  BY PoolAssumption DEF Run
<1>2. PICK place \in {"done", "fetch"} : wpc' = [wpc EXCEPT ![w] = place]
  BY DEF NothingLeft, Fetch, Go
<1>3. /\ loading' = loading \/ loading' = [loading EXCEPT ![RunOf[w]] = TRUE]
      /\ UNCHANGED <<acts, file, buf, deferred, exhausted, consumed, fetched, hand, bad,
                     extract, closed, unlinks, run, faults>>
      /\ wpc[w] = "claim"
  BY DEF NothingLeft, Fetch, At, source
<1>4. wpc' \in [Worker -> WorkerPlace] /\ loading' \in [Run -> BOOLEAN]
  BY <1>1, <1>2, <1>3 DEF TypeOK, WorkerPlace
<1>5. WorkersReady'
  BY <1>2, <1>3 DEF WorkersReady, HandsFull, TypeOK
<1>6. ExtractorsReady'
  BY <1>3 DEF ExtractorsReady, HandsFull, extract
<1> QED
  BY <1>3, <1>4, <1>5, <1>6 DEF TypeOK, HandsFull, acts, extract, run

\* The rows arrive: the buffer is full again, or the source is dry.
LEMMA FetchedType ==
  ASSUME TypeOK, HandsFull, NEW w \in Worker, Fetched(w)
  PROVE  TypeOK' /\ HandsFull'
<1> DEFINE r == RunOf[w]
<1>0. r \in Run /\ bad' = bad /\ wpc[w] # "crashed"
  BY PoolAssumption DEF Run, Fetched, At
<1>1. Refill(r) \in [Act -> Nat]
  BY <1>0 DEF Refill, TypeOK
<1>2. /\ deferred' \in [Run -> [Act -> Nat]] /\ fetched' \in [Run -> SUBSET Act]
      /\ loading' \in [Run -> BOOLEAN]
  BY <1>0 DEF Fetched, TypeOK, NoCopies
<1>3. /\ UNCHANGED <<acts, file, consumed, bad, extract, closed, unlinks, faults>>
      /\ UNCHANGED <<cur, stage, todo, stop, halt, alone>>
  BY DEF Fetched
<1>4. ExtractorsReady'
  BY <1>3 DEF ExtractorsReady, HandsFull, extract
<1>5. CASE Refill(r) = NoCopies
  <2>1. /\ wpc' = [wpc EXCEPT ![w] = "done"] /\ UNCHANGED <<buf, hand, seen>>
        /\ exhausted' = [exhausted EXCEPT ![r] = TRUE]
    BY <1>5 DEF Fetched, Go
  <2>2. wpc' \in [Worker -> WorkerPlace] /\ exhausted' \in [Run -> BOOLEAN]
    BY <2>1 DEF TypeOK, WorkerPlace
  <2>3. WorkersReady'
    BY <1>0, <2>1 DEF WorkersReady, HandsFull, TypeOK
  <2> QED
    BY <1>2, <1>3, <1>4, <2>1, <2>2, <2>3 DEF TypeOK, HandsFull, acts, extract
<1>6. CASE Refill(r) # NoCopies
  <2>1. PICK a \in Act : /\ Refill(r)[a] > 0
                         /\ buf' = [buf EXCEPT ![r] = [Refill(r) EXCEPT ![a] = @ - 1]]
                         /\ Got(w, a)
    BY <1>6 DEF Fetched
  <2>2. exhausted' = exhausted
    BY <1>6 DEF Fetched
  <2>3. [Refill(r) EXCEPT ![a] = @ - 1] \in [Act -> Nat]
    BY <1>1, <2>1, OneTaken
  <2>4. buf' \in [Run -> [Act -> Nat]]
    BY <1>0, <2>1, <2>3, NestType DEF TypeOK
  <2>5. /\ wpc' \in [Worker -> WorkerPlace] /\ hand' \in [Worker -> Act \cup {NoAct}]
        /\ seen' \in [Run -> Nat] /\ WorkersReady'
    BY <1>0, <2>1, GotType DEF HandsFull
  <2> QED
    BY <1>2, <1>3, <1>4, <2>2, <2>4, <2>5 DEF TypeOK, HandsFull, acts, extract
<1> QED
  BY <1>5, <1>6

\* Every step keeps types, hands and limits.
LEMMA TypeStep ==
  ASSUME TypeOK, HandsFull, [Next]_vars
  PROVE  TypeOK' /\ HandsFull'
<1>0. 1 \in Run /\ \A w \in Worker : RunOf[w] \in Run
  BY PoolAssumption DEF Run
<1> USE PoolAssumption, <1>0 DEF TypeOK, HandsFull, WorkersReady, ExtractorsReady,
      WorkerPlace, ExtractorPlace, Stage, NoCopies, acts, source, workers, extract, run
<1>1. CASE RunStarts
  BY <1>1, BlankType DEF RunStarts
<1>1a. CASE Restart
  <2>1. cur' \in Run
    BY <1>1a DEF Restart, Run
  <2>2. NewRun
    BY <1>1a DEF Restart
  <2>3. QED
    BY <1>1a, <2>1, <2>2, NewRunType DEF Restart
<1>2. CASE Crash
  BY <1>2, BlankType DEF Crash
<1>3. CASE DrainSelect
  BY <1>3, DrainSelectType DEF HandsFull
<1>4. CASE PoolFails
  <2>1. faults' \in Nat
    BY <1>4 DEF PoolFails, Fault
  <2>2. QED
    BY <1>4, <2>1 DEF PoolFails
<1>5. CASE StopSignal
  BY <1>5 DEF StopSignal, Listening
<1>6. CASE PoolSettles
  BY <1>6 DEF PoolSettles
<1>6a. CASE Watchdog
  BY <1>6a DEF Watchdog
<1>7. CASE RunEnds
  BY <1>7 DEF RunEnds
<1>8. ASSUME NEW a \in Act, DrainOne(a) PROVE TypeOK' /\ HandsFull'
  BY <1>8 DEF DrainOne
<1>9. ASSUME NEW a \in Act, DrainFails(a) PROVE TypeOK' /\ HandsFull'
  <2>1. faults' \in Nat
    BY <1>9, FaultType DEF DrainFails
  <2>2. todo' \in SUBSET Act /\ stage' \in Stage
    BY <1>9 DEF DrainFails
  <2>3. QED
    BY <1>9, <2>1, <2>2 DEF DrainFails
<1>10. ASSUME NEW a \in Act, Unlink(a) PROVE TypeOK' /\ HandsFull'
  BY <1>10 DEF Unlink
<1>11. ASSUME NEW w \in Worker, Loop(w) PROVE TypeOK' /\ HandsFull'
  BY <1>11 DEF Loop, At, Go
<1>12. ASSUME NEW w \in Worker, Claim(w) PROVE TypeOK' /\ HandsFull'
  <2>1. PICK a \in Act : /\ buf[RunOf[w]][a] > 0
                         /\ buf' = [buf EXCEPT ![RunOf[w]][a] = @ - 1]
                         /\ Got(w, a)
    BY <1>12 DEF Claim
  <2>2. buf' \in [Run -> [Act -> Nat]]
    <3>1. buf[RunOf[w]] \in [Act -> Nat]
      OBVIOUS
    <3>2. buf' = [buf EXCEPT ![RunOf[w]] = [buf[RunOf[w]] EXCEPT ![a] = @ - 1]]
      BY <2>1
    <3>3. [buf[RunOf[w]] EXCEPT ![a] = @ - 1] \in [Act -> Nat]
      BY <2>1, <3>1, OneTaken
    <3>4. QED
      BY <3>2, <3>3, NestType
  <2>3. wpc[w] # "crashed" /\ bad' = bad
    BY <1>12 DEF Claim, At
  <2>4. QED
    BY <1>12, <2>1, <2>2, <2>3, GotType DEF Claim
<1>13. ASSUME NEW w \in Worker, NothingLeft(w) PROVE TypeOK' /\ HandsFull'
  BY <1>13, LoadingType
<1>14. ASSUME NEW w \in Worker, Fetch(w) PROVE TypeOK' /\ HandsFull'
  BY <1>14, LoadingType
<1>15. ASSUME NEW w \in Worker, Select(w) PROVE TypeOK' /\ HandsFull'
  <2>1. PICK T \in Selected(RunOf[w]) : fetched' = [fetched EXCEPT ![RunOf[w]] = T]
    BY <1>15 DEF Select
  <2>1a. T \in SUBSET Act
    BY <2>1, BatchLemma
  <2>1b. fetched' \in [Run -> SUBSET Act]
    BY <2>1, <2>1a
  <2>2. QED
    BY <1>15, <2>1b DEF Select, At, Go
<1>16. ASSUME NEW w \in Worker, Fetched(w) PROVE TypeOK' /\ HandsFull'
  BY <1>16, FetchedType
<1>17. ASSUME NEW w \in Worker, FetchFails(w) PROVE TypeOK' /\ HandsFull'
  <2>1. wpc[w] # "crashed" /\ Unexpected(w) /\ faults' \in Nat
    BY <1>17 DEF FetchFails, At, Fault
  <2>2. QED
    BY <1>17, <2>1, UnexpectedType DEF FetchFails
<1>18. ASSUME NEW w \in Worker, GetDeferred(w) PROVE TypeOK' /\ HandsFull'
  <2>1. hand[w] \in Act /\ deferred[RunOf[w]] \in [Act -> Nat]
    BY <1>18 DEF GetDeferred, At
  <2>2. deferred' = [deferred EXCEPT ![RunOf[w]] = Add(deferred[RunOf[w]], hand[w])]
    BY <1>18 DEF GetDeferred
  <2>3. deferred' \in [Run -> [Act -> Nat]]
    BY <2>1, <2>2, AddType, NestType
  <2>4. QED
    BY <1>18, <2>3 DEF GetDeferred, At, Go, Empty
<1>19. ASSUME NEW w \in Worker, GetSkipped(w) PROVE TypeOK' /\ HandsFull'
  BY <1>19 DEF GetSkipped, At, Go, Empty
<1>20. ASSUME NEW w \in Worker, GetThrows(w) PROVE TypeOK' /\ HandsFull'
  <2>1. wpc[w] # "crashed" /\ Unexpected(w) /\ faults' \in Nat
    BY <1>20 DEF GetThrows, At, Fault
  <2>2. QED
    BY <1>20, <2>1, UnexpectedType DEF GetThrows
<1>21. ASSUME NEW w \in Worker, GetFails(w) PROVE TypeOK' /\ HandsFull'
  BY <1>21 DEF GetFails, At, Go
<1>22. ASSUME NEW w \in Worker, MarkFailed(w) PROVE TypeOK' /\ HandsFull'
  <2>1. hand[w] \in Act /\ Add(attempts, hand[w]) \in [Act -> Nat]
    BY <1>22, AddType DEF MarkFailed, At
  <2>2. faults' \in Nat
    BY <1>22, FaultType DEF MarkFailed
  <2>3. attempts' \in [Act -> Nat]
    BY <1>22, <2>1 DEF MarkFailed
  <2>4. QED
    BY <1>22, <2>2, <2>3 DEF MarkFailed, At, Go, Empty
<1>23. ASSUME NEW w \in Worker, WriteStarts(w) PROVE TypeOK' /\ HandsFull'
  BY <1>23 DEF WriteStarts, At, Go
<1>24. ASSUME NEW w \in Worker, Written(w) PROVE TypeOK' /\ HandsFull'
  BY <1>24 DEF Written, At, Go
<1>25. ASSUME NEW w \in Worker, WriteThrows(w) PROVE TypeOK' /\ HandsFull'
  <2>1. wpc[w] # "crashed" /\ Unexpected(w) /\ faults' \in Nat
    BY <1>25 DEF WriteThrows, At, Fault
  <2>2. QED
    BY <1>25, <2>1, UnexpectedType DEF WriteThrows
<1>26. ASSUME NEW w \in Worker, MarkDownloaded(w) PROVE TypeOK' /\ HandsFull'
  BY <1>26, MarkDownloadedType
<1>27. ASSUME NEW w \in Worker, Push(w) PROVE TypeOK' /\ HandsFull'
  <2>1. hand[w] \in Act
    BY <1>27 DEF Push, At
  <2>2. queue' \in Seq(Act)
    BY <1>27, <2>1 DEF Push
  <2>3. wpc' \in [Worker -> WorkerPlace] /\ hand' \in [Worker -> Act \cup {NoAct}]
    BY <1>27 DEF Push, Go, Empty
  <2>4. WorkersReady'
    BY <1>27 DEF Push, At, Go, Empty
  <2>5. QED
    BY <1>27, <2>2, <2>3, <2>4 DEF Push
<1>28. ASSUME NEW w \in Worker, PushThrows(w) PROVE TypeOK' /\ HandsFull'
  BY <1>28 DEF PushThrows, At, Go, Empty
<1>29. ASSUME NEW x \in Extractor, Shift(x) PROVE TypeOK' /\ HandsFull'
  <2>1. Head(queue) \in Act /\ Tail(queue) \in Seq(Act)
    BY <1>29, HeadTailProperties DEF Shift
  <2>2. QED
    BY <1>29, <2>1 DEF Shift
<1>30. ASSUME NEW x \in Extractor, ShiftDone(x) PROVE TypeOK' /\ HandsFull'
  BY <1>30 DEF ShiftDone
<1>31. ASSUME NEW x \in Extractor, Extract(x) PROVE TypeOK' /\ HandsFull'
  BY <1>31, ExtractType
<1>32. ASSUME NEW x \in Extractor, MarkExtracted(x) PROVE TypeOK' /\ HandsFull'
  BY <1>32, MarkedTextType
<1>33. ASSUME NEW x \in Extractor, MarkExtractFailed(x) PROVE TypeOK' /\ HandsFull'
  BY <1>33, MarkedTextType
<1>34. CASE UNCHANGED vars
  BY <1>34 DEF vars
<1>35. QED
  BY <1>1, <1>1a, <1>2, <1>3, <1>4, <1>5, <1>6, <1>6a, <1>7, <1>8, <1>9, <1>10, <1>11,
     <1>12, <1>13, <1>14, <1>15, <1>16, <1>17, <1>18, <1>19, <1>20, <1>21,
     <1>22, <1>23, <1>24, <1>25, <1>26, <1>27, <1>28, <1>29, <1>30, <1>31,
     <1>32, <1>33, <1>34
  DEF Next, Download, Extraction
-----------------------------------------------------------------------------
\* Counting up never makes a count smaller.
LEMMA AddGrows ==
  ASSUME NEW b \in [Act -> Nat], NEW a \in Act
  PROVE  \A c \in Act : Add(b, a)[c] >= b[c]
  BY DEF Add

\* The columns only move forward.
LEMMA ColumnsGrow ==
  ASSUME TypeOK, HandsFull, [Next]_vars
  PROVE  \A a \in Act : (downloaded[a] => downloaded'[a]) /\ attempts'[a] >= attempts[a]
<1> DEFINE Grow == \A a \in Act : (downloaded[a] => downloaded'[a]) /\ attempts'[a] >= attempts[a]
<1>0. downloaded \in [Act -> BOOLEAN] /\ attempts \in [Act -> Nat]
  BY DEF TypeOK
<1>a. (UNCHANGED <<downloaded, attempts>>) => Grow
  BY <1>0
<1>1. CASE RunStarts
  BY <1>1, <1>a DEF RunStarts, acts
<1>1a. CASE Restart
  BY <1>1a, <1>a DEF Restart, acts
<1>2. CASE Crash
  BY <1>2, <1>a DEF Crash, acts
<1>3. CASE DrainSelect
  BY <1>3, <1>a DEF DrainSelect, acts
<1>4. CASE PoolFails
  BY <1>4, <1>a DEF PoolFails, acts
<1>5. CASE StopSignal
  BY <1>5, <1>a DEF StopSignal, acts
<1>6. CASE PoolSettles
  BY <1>6, <1>a DEF PoolSettles, acts
<1>6a. CASE Watchdog
  BY <1>6a, <1>a DEF Watchdog, acts
<1>7. CASE RunEnds
  BY <1>7, <1>a DEF RunEnds, acts
<1>8. ASSUME NEW a \in Act, DrainOne(a) PROVE Grow
  BY <1>8, <1>a DEF DrainOne, acts
<1>9. ASSUME NEW a \in Act, DrainFails(a) PROVE Grow
  BY <1>9, <1>a DEF DrainFails, acts
<1>10. ASSUME NEW a \in Act, Unlink(a) PROVE Grow
  BY <1>10, <1>a DEF Unlink, acts
<1>11. ASSUME NEW w \in Worker, Loop(w) PROVE Grow
  BY <1>11, <1>a DEF Loop, acts
<1>12. ASSUME NEW w \in Worker, Claim(w) PROVE Grow
  BY <1>12, <1>a DEF Claim, acts
<1>13. ASSUME NEW w \in Worker, NothingLeft(w) PROVE Grow
  BY <1>13, <1>a DEF NothingLeft, acts
<1>14. ASSUME NEW w \in Worker, Fetch(w) PROVE Grow
  BY <1>14, <1>a DEF Fetch, acts
<1>15. ASSUME NEW w \in Worker, Select(w) PROVE Grow
  BY <1>15, <1>a DEF Select, acts
<1>16. ASSUME NEW w \in Worker, Fetched(w) PROVE Grow
  BY <1>16, <1>a DEF Fetched, acts
<1>17. ASSUME NEW w \in Worker, FetchFails(w) PROVE Grow
  BY <1>17, <1>a DEF FetchFails, acts
<1>18. ASSUME NEW w \in Worker, GetDeferred(w) PROVE Grow
  BY <1>18, <1>a DEF GetDeferred, acts
<1>19. ASSUME NEW w \in Worker, GetSkipped(w) PROVE Grow
  BY <1>19, <1>a DEF GetSkipped, acts
<1>20. ASSUME NEW w \in Worker, GetThrows(w) PROVE Grow
  BY <1>20, <1>a DEF GetThrows, acts
<1>21. ASSUME NEW w \in Worker, GetFails(w) PROVE Grow
  BY <1>21, <1>a DEF GetFails, acts
<1>22. ASSUME NEW w \in Worker, MarkFailed(w) PROVE Grow
  <2>1. hand[w] \in Act
    BY <1>22 DEF MarkFailed, At, HandsFull, WorkersReady
  <2>2. \A a \in Act : attempts'[a] >= attempts[a]
    BY <1>22, <1>0, <2>1, AddGrows DEF MarkFailed
  <2>3. QED
    BY <1>22, <2>2 DEF MarkFailed
<1>23. ASSUME NEW w \in Worker, WriteStarts(w) PROVE Grow
  BY <1>23, <1>a DEF WriteStarts, acts
<1>24. ASSUME NEW w \in Worker, Written(w) PROVE Grow
  BY <1>24, <1>a DEF Written, acts
<1>25. ASSUME NEW w \in Worker, WriteThrows(w) PROVE Grow
  BY <1>25, <1>a DEF WriteThrows, acts
<1>26. ASSUME NEW w \in Worker, MarkDownloaded(w) PROVE Grow
  <2>1. hand[w] \in Act
    BY <1>26 DEF MarkDownloaded, At, HandsFull, WorkersReady
  <2>2. \A a \in Act : attempts'[a] >= attempts[a]
    BY <1>26, <1>0, <2>1, AddGrows DEF MarkDownloaded
  <2>3. \A a \in Act : downloaded[a] => downloaded'[a]
    BY <1>26, <1>0 DEF MarkDownloaded
  <2>4. QED
    BY <2>2, <2>3
<1>27. ASSUME NEW w \in Worker, Push(w) PROVE Grow
  BY <1>27, <1>a DEF Push, acts
<1>28. ASSUME NEW w \in Worker, PushThrows(w) PROVE Grow
  BY <1>28, <1>a DEF PushThrows, acts
<1>29. ASSUME NEW x \in Extractor, Shift(x) PROVE Grow
  BY <1>29, <1>a DEF Shift, acts
<1>30. ASSUME NEW x \in Extractor, ShiftDone(x) PROVE Grow
  BY <1>30, <1>a DEF ShiftDone, acts
<1>31. ASSUME NEW x \in Extractor, Extract(x) PROVE Grow
  BY <1>31, <1>a DEF Extract, acts
<1>32. ASSUME NEW x \in Extractor, MarkExtracted(x) PROVE Grow
  BY <1>32, <1>a DEF MarkExtracted, acts
<1>33. ASSUME NEW x \in Extractor, MarkExtractFailed(x) PROVE Grow
  BY <1>33, <1>a DEF MarkExtractFailed, acts
<1>34. CASE UNCHANGED vars
  BY <1>34, <1>a DEF vars, acts
<1>35. QED
  BY <1>1, <1>1a, <1>2, <1>3, <1>4, <1>5, <1>6, <1>6a, <1>7, <1>8, <1>9, <1>10, <1>11,
     <1>12, <1>13, <1>14, <1>15, <1>16, <1>17, <1>18, <1>19, <1>20, <1>21,
     <1>22, <1>23, <1>24, <1>25, <1>26, <1>27, <1>28, <1>29, <1>30, <1>31,
     <1>32, <1>33, <1>34
  DEF Next, Download, Extraction

\* No step makes an act eligible again: the columns only move forward.
LEMMA EligibleStep ==
  ASSUME TypeOK, HandsFull, [Next]_vars, NEW a \in Act, Eligible(a)'
  PROVE  Eligible(a)
<1>1. (downloaded[a] => downloaded'[a]) /\ attempts'[a] >= attempts[a]
  BY ColumnsGrow
<1>2. attempts[a] \in Nat /\ attempts'[a] \in Nat
  BY TypeStep DEF TypeOK
<1>3. QED
  BY <1>1, <1>2, PoolAssumption DEF Eligible

\* A step at which no worker begins or ends to load.
LEMMA QuietStep ==
  ASSUME TypeOK, HandsFull, OneLoader, EmptyBatch, SourceComplete, [Next]_vars,
         UNCHANGED <<loading, fetched, exhausted>>,
         \A v \in Worker : /\ wpc'[v] = "fetch" => wpc[v] = "fetch"
                           /\ wpc'[v] = "fetched" => wpc[v] = "fetched"
  PROVE  OneLoader' /\ EmptyBatch' /\ SourceComplete'
<1>1. \A v \in Worker : Loads(v)' => Loads(v)
  BY DEF Loads
<1>2. OneLoader'
  BY <1>1 DEF OneLoader
<1>3. EmptyBatch'
  BY EligibleStep DEF EmptyBatch
<1>4. SourceComplete'
  BY EligibleStep DEF SourceComplete
<1>5. QED
  BY <1>2, <1>3, <1>4

\* At most one worker loads, and what it found empty stays empty.
LEMMA SourceStep ==
  ASSUME TypeOK, HandsFull, OneLoader, EmptyBatch, SourceComplete, [Next]_vars
  PROVE  OneLoader' /\ EmptyBatch' /\ SourceComplete'
<1> USE DEF source, workers
<1>0. wpc \in [Worker -> WorkerPlace]
  BY DEF TypeOK
<1>0a. \A w \in Worker : RunOf[w] \in Run
  BY PoolAssumption DEF Run
<1>1. CASE RunStarts
  BY <1>1 DEF RunStarts, Blank, Each, OneLoader, EmptyBatch, SourceComplete, Loads
<1>1a. CASE Restart
  BY <1>0, <1>1a, QuietStep DEF Restart
<1>2. CASE Crash
  BY <1>2 DEF Crash, Blank, Each, OneLoader, EmptyBatch, SourceComplete, Loads
<1>3. CASE DrainSelect
  BY <1>0, <1>3, QuietStep DEF DrainSelect, Pending
<1>4. CASE PoolFails
  BY <1>0, <1>4, QuietStep DEF PoolFails, Fault
<1>5. CASE StopSignal
  BY <1>0, <1>5, QuietStep DEF StopSignal
<1>6. CASE PoolSettles
  BY <1>0, <1>6, QuietStep DEF PoolSettles
<1>6a. CASE Watchdog
  BY <1>0, <1>6a, QuietStep DEF Watchdog
<1>7. CASE RunEnds
  BY <1>0, <1>7, QuietStep DEF RunEnds
<1>8. ASSUME NEW a \in Act, DrainOne(a) PROVE OneLoader' /\ EmptyBatch' /\ SourceComplete'
  BY <1>0, <1>8, QuietStep DEF DrainOne
<1>9. ASSUME NEW a \in Act, DrainFails(a) PROVE OneLoader' /\ EmptyBatch' /\ SourceComplete'
  BY <1>0, <1>9, QuietStep DEF DrainFails, Fault
<1>10. ASSUME NEW a \in Act, Unlink(a) PROVE OneLoader' /\ EmptyBatch' /\ SourceComplete'
  BY <1>0, <1>10, QuietStep DEF Unlink
<1>11. ASSUME NEW w \in Worker, Loop(w) PROVE OneLoader' /\ EmptyBatch' /\ SourceComplete'
  BY <1>0, <1>11, QuietStep DEF Loop, At, Go
<1>12. ASSUME NEW w \in Worker, Claim(w) PROVE OneLoader' /\ EmptyBatch' /\ SourceComplete'
  BY <1>0, <1>12, QuietStep DEF Claim, At, Go, Got
<1>13. ASSUME NEW w \in Worker, NothingLeft(w) PROVE OneLoader' /\ EmptyBatch' /\ SourceComplete'
  BY <1>0, <1>13, QuietStep DEF NothingLeft, At, Go
<1>14. ASSUME NEW w \in Worker, Fetch(w) PROVE OneLoader' /\ EmptyBatch' /\ SourceComplete'
  <2>1. \A v \in Worker : RunOf[v] = RunOf[w] => ~Loads(v)
    BY <1>14 DEF Fetch, OneLoader
  <2>2. /\ \A v \in Worker : v # w => wpc'[v] = wpc[v]
        /\ wpc'[w] = "fetch"
    BY <1>0, <1>14 DEF Fetch, Go
  <2>3. \A r \in Run : loading'[r] = (loading[r] \/ r = RunOf[w])
    BY <1>14, <1>0a DEF Fetch, TypeOK
  <2>4. OneLoader'
    <3>1. \A v \in Worker : Loads(v)' = (v = w \/ Loads(v))
      BY <2>2 DEF Loads
    <3>2. \A v \in Worker : RunOf[v] \in Run
      BY <1>0a
    <3> QED
      BY <2>1, <2>3, <3>1, <3>2 DEF OneLoader
  <2>5. EmptyBatch'
    <3>1. fetched' = fetched
      BY <1>14 DEF Fetch
    <3>2. \A v \in Worker : wpc'[v] = "fetched" => wpc[v] = "fetched"
      BY <2>2
    <3> QED
      BY <3>1, <3>2, EligibleStep DEF EmptyBatch
  <2>6. QED
    BY <1>14, <2>4, <2>5, EligibleStep DEF Fetch, SourceComplete
<1>15. ASSUME NEW w \in Worker, Select(w) PROVE OneLoader' /\ EmptyBatch' /\ SourceComplete'
  <2>1. /\ \A v \in Worker : v # w => wpc'[v] = wpc[v]
        /\ wpc'[w] = "fetched" /\ wpc[w] = "fetch"
    BY <1>0, <1>15 DEF Select, Go, At
  <2>2. \A v \in Worker : v # w /\ Loads(v) => RunOf[v] # RunOf[w]
    BY <2>1 DEF OneLoader, Loads
  <2>3. OneLoader'
    BY <1>15, <2>1 DEF Select, OneLoader, Loads
  <2>4. PICK T \in Selected(RunOf[w]) : fetched' = [fetched EXCEPT ![RunOf[w]] = T]
    BY <1>15 DEF Select
  <2>5. T = {} /\ ~Explicit => \A a \in Act : ~Eligible(a)
    BY <1>0a, <2>4, BatchLemma
  <2>6. \A r \in Run : fetched'[r] = IF r = RunOf[w] THEN T ELSE fetched[r]
    BY <2>4 DEF TypeOK
  <2>7. EmptyBatch'
    BY <1>0a, <2>1, <2>2, <2>5, <2>6, EligibleStep DEF EmptyBatch, Loads
  <2>8. QED
    BY <1>15, <2>3, <2>7, EligibleStep DEF Select, SourceComplete
<1>16. ASSUME NEW w \in Worker, Fetched(w) PROVE OneLoader' /\ EmptyBatch' /\ SourceComplete'
  <2>1. PICK place \in {"done", "get"} : wpc' = [wpc EXCEPT ![w] = place]
    BY <1>16 DEF Fetched, Got, Go
  <2>2. wpc[w] = "fetched" /\ \A v \in Worker : wpc'[v] = IF v = w THEN place ELSE wpc[v]
    BY <1>0, <1>16, <2>1 DEF Fetched, At
  <2>3. \A v \in Worker : Loads(v)' => Loads(v) /\ RunOf[v] # RunOf[w]
    BY <2>2 DEF Loads, OneLoader
  <2>4. \A r \in Run : /\ r # RunOf[w] => loading'[r] = loading[r]
                       /\ r # RunOf[w] => fetched'[r] = fetched[r]
    BY <1>16 DEF Fetched, TypeOK
  <2>5. OneLoader'
    BY <1>0a, <2>2, <2>3, <2>4 DEF OneLoader, Loads
  <2>6. EmptyBatch'
    BY <1>0a, <2>2, <2>3, <2>4, EligibleStep DEF EmptyBatch, Loads
  <2>7. CASE Refill(RunOf[w]) = NoCopies
    <3>1. fetched[RunOf[w]] = {}
      <4>1. ASSUME NEW a \in Act, a \in fetched[RunOf[w]] PROVE FALSE
        <5>1. Refill(RunOf[w])[a] # 0
          BY <4>1 DEF Refill
        <5>2. QED
          BY <2>7, <5>1 DEF NoCopies
      <4>2. QED
        BY <1>0a, <4>1 DEF TypeOK
    <3>2. ~Explicit => \A a \in Act : ~Eligible(a)
      BY <2>2, <3>1 DEF EmptyBatch
    <3>3. \A r \in Run : r # RunOf[w] => exhausted'[r] = exhausted[r]
      BY <1>16, <2>7 DEF Fetched, TypeOK
    <3>4. QED
      BY <2>5, <2>6, <3>2, <3>3, EligibleStep DEF SourceComplete
  <2>8. CASE Refill(RunOf[w]) # NoCopies
    <3>1. exhausted' = exhausted
      BY <1>16, <2>8 DEF Fetched
    <3>2. QED
      BY <2>5, <2>6, <3>1, EligibleStep DEF SourceComplete
  <2>9. QED
    BY <2>7, <2>8
<1>17. ASSUME NEW w \in Worker, FetchFails(w) PROVE OneLoader' /\ EmptyBatch' /\ SourceComplete'
  <2>1. PICK place \in {"crashed", "loop"} : wpc' = [wpc EXCEPT ![w] = place]
    BY <1>17 DEF FetchFails, Unexpected, Go
  <2>2. wpc[w] = "fetch" /\ \A v \in Worker : wpc'[v] = IF v = w THEN place ELSE wpc[v]
    BY <1>0, <1>17, <2>1 DEF FetchFails, At
  <2>3. \A v \in Worker : Loads(v)' => Loads(v) /\ RunOf[v] # RunOf[w]
    BY <2>2 DEF Loads, OneLoader
  <2>4. \A r \in Run : r # RunOf[w] => loading'[r] = loading[r]
    BY <1>17 DEF FetchFails, TypeOK
  <2>5. OneLoader'
    BY <1>0a, <2>2, <2>3, <2>4 DEF OneLoader, Loads
  <2>6. EmptyBatch'
    BY <1>17, <2>2, EligibleStep DEF FetchFails, EmptyBatch
  <2>7. QED
    BY <1>17, <2>5, <2>6, EligibleStep DEF FetchFails, SourceComplete
<1>18. ASSUME NEW w \in Worker, GetDeferred(w) PROVE OneLoader' /\ EmptyBatch' /\ SourceComplete'
  BY <1>0, <1>18, QuietStep DEF GetDeferred, At, Go, Empty, Add
<1>19. ASSUME NEW w \in Worker, GetSkipped(w) PROVE OneLoader' /\ EmptyBatch' /\ SourceComplete'
  BY <1>0, <1>19, QuietStep DEF GetSkipped, At, Go, Empty
<1>20. ASSUME NEW w \in Worker, GetThrows(w) PROVE OneLoader' /\ EmptyBatch' /\ SourceComplete'
  BY <1>0, <1>20, QuietStep DEF GetThrows, At, Go, Empty, Unexpected, Fault
<1>21. ASSUME NEW w \in Worker, GetFails(w) PROVE OneLoader' /\ EmptyBatch' /\ SourceComplete'
  BY <1>0, <1>21, QuietStep DEF GetFails, At, Go
<1>22. ASSUME NEW w \in Worker, MarkFailed(w) PROVE OneLoader' /\ EmptyBatch' /\ SourceComplete'
  BY <1>0, <1>22, QuietStep DEF MarkFailed, At, Go, Empty, Add, Fault, NoFault
<1>23. ASSUME NEW w \in Worker, WriteStarts(w) PROVE OneLoader' /\ EmptyBatch' /\ SourceComplete'
  BY <1>0, <1>23, QuietStep DEF WriteStarts, At, Go
<1>24. ASSUME NEW w \in Worker, Written(w) PROVE OneLoader' /\ EmptyBatch' /\ SourceComplete'
  BY <1>0, <1>24, QuietStep DEF Written, At, Go
<1>25. ASSUME NEW w \in Worker, WriteThrows(w) PROVE OneLoader' /\ EmptyBatch' /\ SourceComplete'
  BY <1>0, <1>25, QuietStep DEF WriteThrows, At, Go, Empty, Unexpected, Fault
<1>26. ASSUME NEW w \in Worker, MarkDownloaded(w) PROVE OneLoader' /\ EmptyBatch' /\ SourceComplete'
  BY <1>0, <1>26, QuietStep DEF MarkDownloaded, At, Go, Add, Fault, NoFault
<1>27. ASSUME NEW w \in Worker, Push(w) PROVE OneLoader' /\ EmptyBatch' /\ SourceComplete'
  BY <1>0, <1>27, QuietStep DEF Push, At, Go, Empty
<1>28. ASSUME NEW w \in Worker, PushThrows(w) PROVE OneLoader' /\ EmptyBatch' /\ SourceComplete'
  BY <1>0, <1>28, QuietStep DEF PushThrows, At, Go, Empty
<1>29. ASSUME NEW x \in Extractor, Shift(x) PROVE OneLoader' /\ EmptyBatch' /\ SourceComplete'
  BY <1>0, <1>29, QuietStep DEF Shift
<1>30. ASSUME NEW x \in Extractor, ShiftDone(x) PROVE OneLoader' /\ EmptyBatch' /\ SourceComplete'
  BY <1>0, <1>30, QuietStep DEF ShiftDone
<1>31. ASSUME NEW x \in Extractor, Extract(x) PROVE OneLoader' /\ EmptyBatch' /\ SourceComplete'
  BY <1>0, <1>31, QuietStep DEF Extract, Fault, NoFault
<1>32. ASSUME NEW x \in Extractor, MarkExtracted(x) PROVE OneLoader' /\ EmptyBatch' /\ SourceComplete'
  BY <1>0, <1>32, QuietStep DEF MarkExtracted, Next1, Fault, NoFault
<1>33. ASSUME NEW x \in Extractor, MarkExtractFailed(x) PROVE OneLoader' /\ EmptyBatch' /\ SourceComplete'
  BY <1>0, <1>33, QuietStep DEF MarkExtractFailed, Next1, Fault, NoFault
<1>34. CASE UNCHANGED vars
  BY <1>34, QuietStep DEF vars
<1>35. QED
  BY <1>1, <1>1a, <1>2, <1>3, <1>4, <1>5, <1>6, <1>6a, <1>7, <1>8, <1>9, <1>10, <1>11,
     <1>12, <1>13, <1>14, <1>15, <1>16, <1>17, <1>18, <1>19, <1>20, <1>21,
     <1>22, <1>23, <1>24, <1>25, <1>26, <1>27, <1>28, <1>29, <1>30, <1>31,
     <1>32, <1>33, <1>34
  DEF Next, Download, Extraction

\* The first state.
LEMMA InitInv == Init => PoolInv
<1> SUFFICES ASSUME Init PROVE PoolInv
  OBVIOUS
<1>1. <<>> \in Seq(Act) /\ 0 \in 0..FailLimit /\ 0 < FailLimit /\ 0 \in Nat
  BY EmptySeq, PoolAssumption
<1>2. downloaded \in [Act -> BOOLEAN] /\ attempts \in [Act -> Nat]
  BY DEF Init
<1>3. /\ text \in [Act -> {"none", "text", "failed"}]
      /\ file \in [Act -> {"none", "partial", "whole"}]
  BY DEF Init
<1>4. /\ buf \in [Run -> [Act -> Nat]] /\ deferred \in [Run -> [Act -> Nat]]
      /\ fetched \in [Run -> SUBSET Act]
  BY DEF Init, Each, NoCopies
<1>5. /\ loading \in [Run -> BOOLEAN] /\ exhausted \in [Run -> BOOLEAN]
      /\ consumed \in [Run -> BOOLEAN] /\ stop \in [Run -> BOOLEAN]
      /\ closed \in BOOLEAN /\ halt \in BOOLEAN /\ alone \in BOOLEAN
  BY DEF Init, Each
<1>6. wpc \in [Worker -> WorkerPlace] /\ hand \in [Worker -> Act \cup {NoAct}]
  BY DEF Init, WorkerPlace
<1>7. bad \in [Worker -> 0..FailLimit] /\ queue \in Seq(Act)
  BY <1>1 DEF Init
<1>8. xpc \in [Extractor -> ExtractorPlace] /\ item \in [Extractor -> Act \cup {NoAct}]
  BY DEF Init, ExtractorPlace
<1>9. /\ unlinks \in SUBSET Act /\ stage \in Stage /\ todo \in SUBSET Act
      /\ seen \in [Run -> Nat] /\ faults \in Nat /\ cur \in Run
  BY <1>1, PoolAssumption DEF Init, Stage, Each, Run
<1>10. TypeOK
  BY <1>2, <1>3, <1>4, <1>5, <1>6, <1>7, <1>8, <1>9 DEF TypeOK
<1>11. HandsFull
  BY <1>1 DEF Init, HandsFull, WorkersReady, ExtractorsReady
<1>12. OneLoader /\ EmptyBatch /\ SourceComplete
  BY DEF Init, Each, OneLoader, EmptyBatch, SourceComplete, Loads
<1>13. QED
  BY <1>10, <1>11, <1>12 DEF PoolInv

\* The inductive invariant of the pool holds in every behaviour.
THEOREM PoolInvariant == Spec => []PoolInv
<1>1. PoolInv /\ [Next]_vars => PoolInv'
  BY TypeStep, SourceStep DEF PoolInv
<1>2. QED
  BY InitInv, <1>1, PTL DEF Spec

\* State and memory of a run keep their types.
THEOREM Typing == Spec => []TypeOK
<1>1. PoolInv => TypeOK
  BY DEF PoolInv
<1>2. QED
  BY PoolInvariant, <1>1, PTL

\* "The table is empty, no more acts" is final for any number of acts, workers
\* and faults, any batch size and any limit of attempts.
THEOREM SourceIsComplete == Spec => []SourceComplete
<1>1. PoolInv => SourceComplete
  BY DEF PoolInv
<1>2. QED
  BY PoolInvariant, <1>1, PTL
-----------------------------------------------------------------------------
(* The bound on attempts. A run has no more copies of an act than workers;   *)
(* the copies in stock (in a buffer, deferred, or under way as a row) are     *)
(* covered by workers of the run that do not hold the act themselves, and     *)
(* what an act was tried already stays, with the workers that cover it and    *)
(* those that hold it, within the bound.                                      *)

Trying == {"get", "write", "mark", "markfail"}

Held(a) == {w \in Worker : wpc[w] \in Trying /\ hand[w] = a}

\* The copy a row under way will add.
Due(r, a) == IF a \in fetched[r] /\ deferred[r][a] = 0 THEN 1 ELSE 0

Stock(r, a) == buf[r][a] + deferred[r][a] + Due(r, a)

OfRun(X, r) == {w \in X : RunOf[w] = r}

Covers(X, a) ==
  /\ X \subseteq Worker \ Held(a)
  /\ \A r \in Run : Stock(r, a) =< Cardinality(OfRun(X, r))
  /\ attempts[a] + Cardinality(X) + Cardinality(Held(a))
       =< MaxAttempts + Cardinality(Worker) - 1

Covered(a) == \E X \in SUBSET Worker : Covers(X, a)

CopiesInv ==
  /\ \A w \in Worker : Loads(w) => buf[RunOf[w]] = NoCopies
  /\ \A a \in Act : Covered(a)

LEMMA Homes == 1 \in Run /\ \A w \in Worker : RunOf[w] \in Run
BY PoolAssumption DEF Run

LEMMA SetSizes ==
  ASSUME NEW X \in SUBSET Worker
  PROVE  /\ IsFiniteSet(X) /\ Cardinality(X) \in Nat
         /\ \A r : IsFiniteSet(OfRun(X, r)) /\ Cardinality(OfRun(X, r)) \in Nat
<1>1. IsFiniteSet(X) /\ \A r : OfRun(X, r) \subseteq Worker
  BY PoolAssumption, FS_Subset DEF OfRun
<1> QED
  BY <1>1, PoolAssumption, FS_Subset, FS_CardinalityType

LEMMA HeldFinite ==
  ASSUME NEW a
  PROVE  /\ IsFiniteSet(Held(a)) /\ Cardinality(Held(a)) \in Nat
         /\ Cardinality(Worker) \in Nat \ {0}
<1>1. IsFiniteSet(Worker) /\ Held(a) \subseteq Worker
  BY PoolAssumption DEF Held
<1>2. Cardinality(Worker) # 0
  BY <1>1, FS_EmptySet, PoolAssumption, Homes
<1> QED
  BY <1>1, <1>2, FS_Subset, FS_CardinalityType

\* The numbers that are added up, before and after a step.
LEMMA CopyTypes ==
  ASSUME TypeOK, NEW a \in Act
  PROVE  /\ attempts[a] \in Nat /\ Cardinality(Held(a)) \in Nat
         /\ MaxAttempts \in Nat /\ Cardinality(Worker) \in Nat \ {0}
         /\ \A r \in Run : /\ buf[r][a] \in Nat /\ deferred[r][a] \in Nat
                          /\ Due(r, a) \in {0, 1} /\ Stock(r, a) \in Nat
<1>1. ASSUME NEW r \in Run
      PROVE  /\ buf[r][a] \in Nat /\ deferred[r][a] \in Nat /\ Due(r, a) \in {0, 1}
  BY DEF TypeOK, Due
<1>2. \A r \in Run : Stock(r, a) \in Nat
  BY <1>1 DEF Stock
<1>3. attempts[a] \in Nat
  BY DEF TypeOK
<1> QED
  BY <1>1, <1>2, <1>3, HeldFinite, PoolAssumption

LEMMA CopyTypesNext ==
  ASSUME TypeOK', NEW a \in Act
  PROVE  /\ attempts'[a] \in Nat /\ Cardinality(Held(a)') \in Nat
         /\ \A r \in Run : /\ buf'[r][a] \in Nat /\ deferred'[r][a] \in Nat
                          /\ Due(r, a)' \in {0, 1}
<1>1. IsFiniteSet(Worker) /\ Held(a)' \subseteq Worker
  BY PoolAssumption DEF Held
<1>2. Cardinality(Held(a)') \in Nat
  BY <1>1, FS_Subset, FS_CardinalityType
<1>3. \A r \in Run : Due(r, a)' \in {0, 1}
  BY DEF Due
<1> QED
  BY <1>2, <1>3 DEF TypeOK

\* The new cover is shown by what it consists of.
LEMMA CoverNext ==
  ASSUME NEW a \in Act, NEW X \in SUBSET Worker,
         X \cap Held(a)' = {},
         \A r \in Run : Stock(r, a)' =< Cardinality(OfRun(X, r)),
         attempts'[a] + Cardinality(X) + Cardinality(Held(a)')
           =< MaxAttempts + Cardinality(Worker) - 1
  PROVE  Covered(a)'
<1>1. Covers(X, a)'
  <2>1. X \subseteq Worker \ Held(a)'
    OBVIOUS
  <2>2. OfRun(X, 1)' = OfRun(X, 1) /\ \A r \in Run : OfRun(X, r)' = OfRun(X, r)
    BY DEF OfRun
  <2> QED
    BY <2>1, <2>2 DEF Covers
<1> QED
  BY <1>1 DEF Covered

LEMMA HeldShrinks ==
  ASSUME NEW a, Held(a)' \subseteq Held(a)
  PROVE  Cardinality(Held(a)') =< Cardinality(Held(a))
BY HeldFinite, FS_Subset

\* An act keeps its cover when its stock, its holders and its attempts do not grow.
LEMMA CoverKept ==
  ASSUME TypeOK, TypeOK', NEW a \in Act, Covered(a), Held(a)' \subseteq Held(a),
         attempts'[a] + Cardinality(Held(a)') =< attempts[a] + Cardinality(Held(a)),
         \A r \in Run : Stock(r, a)' =< Stock(r, a)
  PROVE  Covered(a)'
<1>1. PICK X \in SUBSET Worker : Covers(X, a)
  BY DEF Covered
<1>2. Cardinality(X) \in Nat /\ \A r : Cardinality(OfRun(X, r)) \in Nat
  BY SetSizes
<1>3. X \cap Held(a)' = {}
  BY <1>1 DEF Covers
<1>4. attempts'[a] + Cardinality(X) + Cardinality(Held(a)')
        =< MaxAttempts + Cardinality(Worker) - 1
  BY <1>1, <1>2, CopyTypes, CopyTypesNext DEF Covers
<1>5. ASSUME NEW r \in Run PROVE Stock(r, a)' =< Cardinality(OfRun(X, r))
  <2>1. Stock(r, a)' \in Nat /\ Stock(r, a) \in Nat
    BY CopyTypes, CopyTypesNext DEF Stock
  <2>2. Stock(r, a)' =< Stock(r, a) /\ Stock(r, a) =< Cardinality(OfRun(X, r))
    BY <1>1 DEF Covers
  <2> QED
    BY <1>2, <2>1, <2>2
<1> QED
  BY <1>3, <1>4, <1>5, CoverNext

\* A step that brings no copy and tries nothing.
LEMMA NoNewCopy ==
  ASSUME TypeOK, TypeOK', CopiesInv,
         UNCHANGED <<attempts, buf, deferred, fetched>>,
         \A v \in Worker :
           /\ Loads(v)' => Loads(v)
           /\ \/ wpc'[v] = wpc[v] /\ hand'[v] = hand[v]
              \/ wpc'[v] \notin Trying
              \/ wpc[v] \in Trying /\ hand'[v] = hand[v]
  PROVE  CopiesInv'
<1>1. ASSUME NEW a \in Act PROVE Covered(a)'
  <2>1. Held(a)' \subseteq Held(a)
    BY DEF Held
  <2>2. Cardinality(Held(a)') =< Cardinality(Held(a))
    BY <2>1, HeldShrinks
  <2>3. attempts'[a] = attempts[a] /\ \A r \in Run : Stock(r, a)' = Stock(r, a)
    BY DEF Stock, Due
  <2> QED
    BY <2>1, <2>2, <2>3, CoverKept, CopyTypes, CopyTypesNext DEF CopiesInv
<1> QED
  BY <1>1 DEF CopiesInv

\* A fresh process has no copies.
LEMMA BlankCopies ==
  ASSUME TypeOK, TypeOK', CopiesInv, Blank, attempts' = attempts PROVE CopiesInv'
<1>1. ASSUME NEW a \in Act PROVE Covered(a)'
  <2>1. Held(a)' = {}
    BY DEF Blank, Held, Trying
  <2>2. Cardinality(Held(a)') = 0
    BY <2>1, FS_EmptySet
  <2>3. \A r \in Run : Stock(r, a)' = 0
    BY DEF Blank, Stock, Due, NoCopies, Each
  <2>4. /\ Covered(a) /\ Held(a)' \subseteq Held(a)
        /\ attempts'[a] + Cardinality(Held(a)') =< attempts[a] + Cardinality(Held(a))
    BY <2>1, <2>2, CopyTypes DEF CopiesInv
  <2>5. \A r \in Run : Stock(r, a)' =< Stock(r, a)
    BY <2>3, CopyTypes
  <2> QED
    BY <2>4, <2>5, CoverKept
<1>2. \A w \in Worker : ~Loads(w)'
  BY DEF Blank, Loads
<1> QED
  BY <1>1, <1>2 DEF CopiesInv

\* A worker takes up act a, or drops it at the limit of the run.
LEMMA GotHeld ==
  ASSUME TypeOK, NEW w \in Worker, wpc[w] \notin Trying, NEW a \in Act, Got(w, a),
         NEW c \in Act
  PROVE  /\ Held(c)' \subseteq Held(c) \cup {w}
         /\ c # a => Held(c)' \subseteq Held(c)
         /\ Cardinality(Held(c)') =< Cardinality(Held(c)) + (IF c = a THEN 1 ELSE 0)
<1>1. Held(c)' \subseteq IF c = a THEN Held(c) \cup {w} ELSE Held(c)
  BY DEF Got, Go, Held, Trying, TypeOK
<1>2. w \notin Held(c)
  BY DEF Held
<1>3. Cardinality(Held(c) \cup {w}) = Cardinality(Held(c)) + 1 /\ IsFiniteSet(Held(c) \cup {w})
  BY <1>2, HeldFinite, FS_AddElement
<1>4. CASE c = a
  <2>1. Held(c)' \subseteq Held(c) \cup {w}
    BY <1>1, <1>4
  <2>2. Cardinality(Held(c)') =< Cardinality(Held(c) \cup {w})
    BY <2>1, <1>3, FS_Subset
  <2> QED
    BY <1>3, <1>4, <2>1, <2>2
<1>5. CASE c # a
  <2>1. Held(c)' \subseteq Held(c)
    BY <1>1, <1>5
  <2>2. Cardinality(Held(c)') =< Cardinality(Held(c))
    BY <2>1, HeldShrinks
  <2> QED
    BY <1>5, <2>1, <2>2, HeldFinite
<1> QED
  BY <1>4, <1>5

\* A copy goes from the stock of a run to one of its workers: the worker holds the
\* act now, and covers it no longer; another one does in its place, if need be.
LEMMA TakenCover ==
  ASSUME TypeOK, TypeOK', NEW w \in Worker, wpc[w] \notin Trying, NEW a \in Act,
         Got(w, a), NEW c \in Act, Covered(c), attempts' = attempts,
         Stock(RunOf[w], a) > 0,
         \A r \in Run : Stock(r, c)' =
           Stock(r, c) - (IF c = a /\ r = RunOf[w] THEN 1 ELSE 0)
  PROVE  Covered(c)'
<1>0. RunOf[w] \in Run
  BY Homes
<1>1. PICK X \in SUBSET Worker : Covers(X, c)
  BY DEF Covered
<1>2. IsFiniteSet(X) /\ Cardinality(X) \in Nat
      /\ \A r : IsFiniteSet(OfRun(X, r)) /\ Cardinality(OfRun(X, r)) \in Nat
  BY SetSizes
<1>3. CASE c # a
  <2>1. Held(c)' \subseteq Held(c)
    BY <1>3, GotHeld
  <2>2. Cardinality(Held(c)') =< Cardinality(Held(c))
    BY <2>1, HeldShrinks
  <2>3. \A r \in Run : Stock(r, c)' =< Stock(r, c)
    BY <1>3, CopyTypes
  <2> QED
    BY <2>1, <2>2, <2>3, CoverKept, CopyTypes, CopyTypesNext
<1>4. CASE c = a
  <2>1. OfRun(X, RunOf[w]) # {}
    <3>1. Cardinality(OfRun(X, RunOf[w])) > 0
      BY <1>0, <1>1, <1>2, <1>4, CopyTypes DEF Covers
    <3>2. QED
      BY <3>1, FS_EmptySet
  <2>2. PICK y \in OfRun(X, RunOf[w]) : w \in X => y = w
    BY <2>1 DEF OfRun
  <2> DEFINE Y == X \ {y}
  <2>3. y \in X /\ RunOf[y] = RunOf[w]
    BY <2>2 DEF OfRun
  <2>4. Y \in SUBSET Worker /\ Cardinality(Y) = Cardinality(X) - 1
    BY <1>2, <2>3, FS_RemoveElement
  <2>5. ASSUME NEW r \in Run
        PROVE  Cardinality(OfRun(Y, r)) =
                 Cardinality(OfRun(X, r)) - (IF r = RunOf[w] THEN 1 ELSE 0)
    <3>1. CASE r = RunOf[w]
      <4>1. OfRun(Y, r) = OfRun(X, r) \ {y} /\ y \in OfRun(X, r)
        BY <2>2, <2>3, <3>1 DEF OfRun
      <4>2. IsFiniteSet(OfRun(X, r))
        BY <1>2
      <4>3. Cardinality(OfRun(X, r) \ {y}) = Cardinality(OfRun(X, r)) - 1
        BY <4>1, <4>2, FS_RemoveElement
      <4> QED
        BY <3>1, <4>1, <4>3
    <3>2. CASE r # RunOf[w]
      <4>1. OfRun(Y, r) = OfRun(X, r)
        BY <2>3, <3>2 DEF OfRun
      <4> QED
        BY <1>2, <3>2, <4>1
    <3> QED
      BY <3>1, <3>2
  <2>6. Y \cap Held(c)' = {}
    <3>1. Held(c)' \subseteq Held(c) \cup {w}
      BY GotHeld
    <3> QED
      BY <1>1, <2>2, <3>1 DEF Covers
  <2>7. ASSUME NEW r \in Run PROVE Stock(r, c)' =< Cardinality(OfRun(Y, r))
    <3>1. Stock(r, c) =< Cardinality(OfRun(X, r)) /\ Stock(r, c) \in Nat
      BY <1>1, CopyTypes DEF Covers
    <3>2. Stock(r, c)' = Stock(r, c) - (IF r = RunOf[w] THEN 1 ELSE 0)
      BY <1>4
    <3>3. Cardinality(OfRun(X, r)) \in Nat
      BY <1>2
    <3>4. Cardinality(OfRun(Y, r)) =
            Cardinality(OfRun(X, r)) - (IF r = RunOf[w] THEN 1 ELSE 0)
      BY <2>5
    <3> HIDE DEF Y
    <3> QED
      BY <3>1, <3>2, <3>3, <3>4
  <2>8. attempts'[c] + Cardinality(Y) + Cardinality(Held(c)')
          =< MaxAttempts + Cardinality(Worker) - 1
    <3>1. Cardinality(Held(c)') =< Cardinality(Held(c)) + 1
      BY <1>4, GotHeld
    <3> QED
      BY <1>1, <1>2, <2>4, <3>1, CopyTypes, CopyTypesNext DEF Covers
  <2> QED
    BY <2>4, <2>6, <2>7, <2>8, CoverNext
<1> QED
  BY <1>3, <1>4

LEMMA ClaimCopies ==
  ASSUME TypeOK, TypeOK', CopiesInv, NEW w \in Worker, Claim(w) PROVE CopiesInv'
<1> DEFINE r == RunOf[w]
<1>0. r \in Run /\ buf \in [Run -> [Act -> Nat]]
  BY Homes DEF TypeOK
<1>1. PICK a \in Act : buf[r][a] > 0 /\ buf' = [buf EXCEPT ![r][a] = @ - 1] /\ Got(w, a)
  BY DEF Claim
<1>2. /\ wpc[w] = "claim" /\ attempts' = attempts /\ deferred' = deferred
      /\ fetched' = fetched
  BY DEF Claim, At, acts
<1>3. \A s \in Run : s # r => buf'[s] = buf[s]
  BY <1>0, <1>1
<1>4. \A c \in Act : buf'[r][c] = buf[r][c] - (IF c = a THEN 1 ELSE 0)
  <2>1. buf[r] \in [Act -> Nat] /\ buf'[r] = [buf[r] EXCEPT ![a] = @ - 1]
    BY <1>0, <1>1
  <2> QED
    BY <1>1, <2>1, OneTaken
<1>5. Stock(r, a) > 0
  BY <1>0, <1>1, CopyTypes DEF Stock
<1>6. ASSUME NEW c \in Act PROVE Covered(c)'
  <2>1. ASSUME NEW s \in Run
        PROVE  Stock(s, c)' = Stock(s, c) - (IF c = a /\ s = r THEN 1 ELSE 0)
    <3>1. Due(s, c)' = Due(s, c) /\ deferred'[s][c] = deferred[s][c]
      BY <1>2 DEF Due
    <3>2. buf'[s][c] = buf[s][c] - (IF c = a /\ s = r THEN 1 ELSE 0)
      BY <1>3, <1>4, CopyTypes
    <3> QED
      BY <3>1, <3>2, CopyTypes DEF Stock
  <2> QED
    BY <1>1, <1>2, <1>5, <2>1, TakenCover DEF CopiesInv, Trying
<1>7. \A v \in Worker : Loads(v)' => Loads(v) /\ RunOf[v] # r
  <2>1. \A v \in Worker : RunOf[v] = r => ~Loads(v)
    BY <1>0, <1>1 DEF CopiesInv, NoCopies
  <2>2. PICK place \in {"done", "get"} : wpc' = [wpc EXCEPT ![w] = place]
    BY <1>1 DEF Got, Go
  <2>3. \A v \in Worker : Loads(v)' => Loads(v)
    BY <2>2 DEF Loads, TypeOK
  <2> QED
    BY <2>1, <2>3
<1> QED
  BY <1>3, <1>6, <1>7, Homes DEF CopiesInv

LEMMA FetchCopies ==
  ASSUME TypeOK, TypeOK', CopiesInv, NEW w \in Worker, Fetch(w) PROVE CopiesInv'
<1>1. ASSUME NEW a \in Act PROVE Covered(a)'
  <2>1. Held(a)' \subseteq Held(a)
    BY DEF Fetch, Held, Trying, Go, TypeOK
  <2>2. Cardinality(Held(a)') =< Cardinality(Held(a))
    BY <2>1, HeldShrinks
  <2>3. attempts'[a] = attempts[a] /\ \A r \in Run : Stock(r, a)' = Stock(r, a)
    BY DEF Stock, Due, Fetch, acts
  <2> QED
    BY <2>1, <2>2, <2>3, CoverKept, CopyTypes, CopyTypesNext DEF CopiesInv
<1>2. \A v \in Worker : Loads(v)' => v = w \/ Loads(v)
  BY DEF Fetch, Go, Loads, TypeOK
<1> QED
  BY <1>1, <1>2 DEF CopiesInv, Fetch

\* A row that is selected was tried less than MaxAttempts times, and the worker
\* that asked for it holds no copy itself: it covers the row.
LEMMA SelectCopies ==
  ASSUME TypeOK, TypeOK', CopiesInv, ~Explicit, NEW w \in Worker, Select(w)
  PROVE  CopiesInv'
<1> DEFINE r == RunOf[w]
<1>1. /\ wpc[w] = "fetch" /\ attempts' = attempts /\ buf' = buf /\ deferred' = deferred
      /\ hand' = hand /\ wpc' = [wpc EXCEPT ![w] = "fetched"]
  BY DEF Select, At, Go, acts
<1>2. PICK T \in Selected(r) : fetched' = [fetched EXCEPT ![r] = T]
  BY DEF Select
<1>3. r \in Run /\ \A s \in Run : fetched'[s] = IF s = r THEN T ELSE fetched[s]
  BY <1>2, Homes DEF TypeOK
<1>4. buf[r] = NoCopies
  BY <1>1 DEF CopiesInv, Loads
<1>5. ASSUME NEW a \in Act PROVE Covered(a)'
  <2>1. Held(a)' = Held(a) /\ attempts'[a] = attempts[a]
    BY <1>1 DEF Held, Trying, TypeOK
  <2>2. \A s \in Run : s # r => Stock(s, a)' = Stock(s, a)
    BY <1>1, <1>3 DEF Stock, Due
  <2>3. PICK X \in SUBSET Worker : Covers(X, a)
    BY DEF CopiesInv, Covered
  <2>4. CASE a \in T /\ deferred[r][a] = 0
    <3>1. attempts[a] < MaxAttempts
      BY <1>2, <2>4 DEF Selected, BatchOf, Eligible
    <3> DEFINE Y == X \cup {w}
    <3>2. Y \in SUBSET Worker /\ Y \cap Held(a)' = {}
      BY <1>1, <2>1, <2>3 DEF Covers, Held, Trying
    <3>3. Cardinality(Y) + Cardinality(Held(a)) =< Cardinality(Worker)
      <4>1. IsFiniteSet(Y) /\ IsFiniteSet(Held(a)) /\ Y \cap Held(a) = {}
        BY <2>1, <3>2, SetSizes, HeldFinite
      <4>2. Cardinality(Y \cup Held(a)) = Cardinality(Y) + Cardinality(Held(a))
        <5>1. Cardinality(Y) \in Nat /\ Cardinality(Y \cap Held(a)) = 0
          BY <3>2, <4>1, SetSizes, FS_EmptySet
        <5>2. Cardinality(Y \cup Held(a)) =
                Cardinality(Y) + Cardinality(Held(a)) - Cardinality(Y \cap Held(a))
          BY <4>1, FS_Union
        <5>3. Cardinality(Held(a)) \in Nat
          BY HeldFinite
        <5> HIDE DEF Y
        <5> QED
          BY <5>1, <5>2, <5>3
      <4>3. Y \cup Held(a) \subseteq Worker
        BY DEF Held
      <4>4. Cardinality(Y \cup Held(a)) =< Cardinality(Worker)
        BY <4>3, PoolAssumption, FS_Subset
      <4> QED
        BY <4>2, <4>4
    <3>4. attempts'[a] + Cardinality(Y) + Cardinality(Held(a)')
            =< MaxAttempts + Cardinality(Worker) - 1
      <4>1. Cardinality(Y) \in Nat
        BY <3>2, SetSizes
      <4> QED
        BY <2>1, <3>1, <3>3, <4>1, CopyTypes
    <3>5. ASSUME NEW s \in Run PROVE Stock(s, a)' =< Cardinality(OfRun(Y, s))
      <4>0. /\ IsFiniteSet(OfRun(Y, s)) /\ Cardinality(OfRun(Y, s)) \in Nat
            /\ Cardinality(OfRun(X, s)) \in Nat
        BY <3>2, SetSizes
      <4>1. CASE s = r
        <5>1. Stock(s, a)' = 1
          BY <1>1, <1>3, <1>4, <2>4, <4>1 DEF Stock, Due, NoCopies
        <5>2. w \in OfRun(Y, s)
          BY <4>1 DEF OfRun
        <5>3. Cardinality(OfRun(Y, s)) # 0
          BY <4>0, <5>2, FS_EmptySet
        <5> QED
          BY <4>0, <5>1, <5>3
      <4>2. CASE s # r
        <5>1. OfRun(X, s) \subseteq OfRun(Y, s)
          BY DEF OfRun
        <5>2. Cardinality(OfRun(X, s)) =< Cardinality(OfRun(Y, s))
          BY <4>0, <5>1, FS_Subset
        <5>3. Stock(s, a)' =< Cardinality(OfRun(X, s)) /\ Stock(s, a)' \in Nat
          BY <2>2, <2>3, <4>2, CopyTypes DEF Covers
        <5> QED
          BY <4>0, <5>2, <5>3
      <4> QED
        BY <4>1, <4>2
    <3> QED
      BY <3>2, <3>4, <3>5, CoverNext
  <2>5. CASE ~ (a \in T /\ deferred[r][a] = 0)
    <3>1. Stock(r, a)' =< Stock(r, a)
      <4>1. Due(r, a)' = 0 /\ buf'[r][a] = buf[r][a] /\ deferred'[r][a] = deferred[r][a]
        BY <1>1, <1>3, <2>5 DEF Due
      <4> QED
        BY <1>3, <4>1, CopyTypes DEF Stock
    <3>2. \A s \in Run : Stock(s, a)' =< Stock(s, a)
      BY <2>2, <3>1, CopyTypes
    <3> QED
      BY <2>1, <3>2, CoverKept, CopyTypes DEF CopiesInv
  <2> QED
    BY <2>4, <2>5
<1>6. \A v \in Worker : Loads(v)' => Loads(v)
  BY <1>1 DEF Loads, TypeOK
<1> QED
  BY <1>1, <1>5, <1>6 DEF CopiesInv

\* The rows arrive: what was due is in the buffer or in the worker's hands.
LEMMA FetchedCopies ==
  ASSUME TypeOK, TypeOK', OneLoader, CopiesInv, NEW w \in Worker, Fetched(w)
  PROVE  CopiesInv'
<1> DEFINE r == RunOf[w]
<1>1. /\ wpc[w] = "fetched" /\ attempts' = attempts
      /\ fetched' = [fetched EXCEPT ![r] = {}]
      /\ deferred' = [deferred EXCEPT ![r] = NoCopies]
  BY DEF Fetched, At, acts
<1>2. r \in Run /\ buf[r] = NoCopies
  BY <1>1, Homes DEF CopiesInv, Loads
<1>3. \A v \in Worker : Loads(v)' => Loads(v) /\ RunOf[v] # r
  <2>1. \A v \in Worker : v # w /\ RunOf[v] = r => ~Loads(v)
    BY <1>1 DEF OneLoader, Loads
  <2>2. PICK place \in {"done", "get"} : wpc' = [wpc EXCEPT ![w] = place]
    BY DEF Fetched, Got, Go
  <2> QED
    BY <2>1, <2>2 DEF Loads, TypeOK
<1>4. \A a \in Act : Refill(r)[a] = Stock(r, a)
  <2>1. ASSUME NEW a \in Act PROVE Refill(r)[a] = Stock(r, a)
    <3>1. buf[r][a] = 0 /\ deferred[r][a] \in Nat
      BY <1>2, CopyTypes DEF NoCopies
    <3> QED
      BY <3>1 DEF Refill, Stock, Due
  <2> QED
    BY <2>1
<1>5. /\ \A c \in Act : deferred'[r][c] = 0 /\ Due(r, c)' = 0
      /\ \A s \in Run : s # r => deferred'[s] = deferred[s] /\ fetched'[s] = fetched[s]
  <2>1. /\ fetched'[r] = {} /\ deferred'[r] = NoCopies
        /\ \A s \in Run : s # r => deferred'[s] = deferred[s] /\ fetched'[s] = fetched[s]
    BY <1>1, <1>2 DEF TypeOK
  <2>2. \A c \in Act : deferred'[r][c] = 0 /\ Due(r, c)' = 0
    BY <2>1 DEF NoCopies, Due
  <2> QED
    BY <2>1, <2>2
<1>6. CASE Refill(r) = NoCopies
  <2>1. buf' = buf /\ wpc' = [wpc EXCEPT ![w] = "done"] /\ hand' = hand
    BY <1>6 DEF Fetched, Go
  <2>2. ASSUME NEW c \in Act PROVE Covered(c)'
    <3>1. Held(c)' \subseteq Held(c)
      BY <2>1 DEF Held, Trying, TypeOK
    <3>2. Cardinality(Held(c)') =< Cardinality(Held(c))
      BY <3>1, HeldShrinks
    <3>3. ASSUME NEW s \in Run PROVE Stock(s, c)' =< Stock(s, c)
      <4>1. CASE s = r
        BY <1>5, <2>1, <4>1, CopyTypes DEF Stock
      <4>2. CASE s # r
        BY <1>5, <2>1, <4>2, CopyTypes DEF Stock, Due
      <4> QED
        BY <4>1, <4>2
    <3> QED
      BY <1>1, <3>1, <3>2, <3>3, CoverKept, CopyTypes, CopyTypesNext DEF CopiesInv
  <2> QED
    BY <1>3, <2>1, <2>2 DEF CopiesInv
<1>7. CASE Refill(r) # NoCopies
  <2>1. PICK a \in Act :
          /\ Refill(r)[a] > 0
          /\ buf' = [buf EXCEPT ![r] = [Refill(r) EXCEPT ![a] = @ - 1]]
          /\ Got(w, a)
    BY <1>7 DEF Fetched
  <2>2. \A s \in Run : s # r => buf'[s] = buf[s]
    BY <2>1 DEF TypeOK
  <2>3. \A c \in Act : buf'[r][c] = Stock(r, c) - (IF c = a THEN 1 ELSE 0)
    <3>1. Refill(r) \in [Act -> Nat]
      <4>1. deferred[r] \in [Act -> Nat]
        BY <1>2 DEF TypeOK
      <4> QED
        BY <4>1 DEF Refill
    <3>2. buf'[r] = [Refill(r) EXCEPT ![a] = @ - 1]
      BY <1>2, <2>1 DEF TypeOK
    <3>3. \A c \in Act : buf'[r][c] = Refill(r)[c] - (IF c = a THEN 1 ELSE 0)
      BY <2>1, <3>1, <3>2
    <3> QED
      BY <1>4, <3>3
  <2>4. ASSUME NEW c \in Act PROVE Covered(c)'
    <3>1. ASSUME NEW s \in Run
          PROVE  Stock(s, c)' = Stock(s, c) - (IF c = a /\ s = r THEN 1 ELSE 0)
      <4>1. CASE s = r
        BY <1>5, <2>3, <4>1, CopyTypes, CopyTypesNext DEF Stock
      <4>2. CASE s # r
        <5>1. Stock(s, c)' = Stock(s, c)
          BY <1>5, <2>2, <4>2 DEF Stock, Due
        <5> QED
          BY <4>2, <5>1, CopyTypes
      <4> QED
        BY <4>1, <4>2
    <3>2. Stock(r, a) > 0
      BY <1>4, <2>1
    <3> QED
      BY <1>1, <2>1, <3>1, <3>2, TakenCover DEF CopiesInv, Trying
  <2> QED
    BY <1>3, <2>2, <2>4, Homes DEF CopiesInv
<1> QED
  BY <1>6, <1>7

\* A worker lets go of the act it tries.
LEMMA HeldLess ==
  ASSUME TypeOK, NEW w \in Worker, wpc[w] \in Trying, NEW p, p \notin Trying,
         wpc' = [wpc EXCEPT ![w] = p],
         \A v \in Worker : v # w => hand'[v] = hand[v], NEW c \in Act
  PROVE  Cardinality(Held(c)) =
           Cardinality(Held(c)') + (IF c = hand[w] THEN 1 ELSE 0)
<1>1. Held(c)' = Held(c) \ {w}
  BY DEF Held, TypeOK
<1>2. CASE c = hand[w]
  <2>1. w \in Held(c)
    BY <1>2 DEF Held
  <2>2. Cardinality(Held(c) \ {w}) = Cardinality(Held(c)) - 1
    BY <2>1, HeldFinite, FS_RemoveElement
  <2> QED
    BY <1>1, <1>2, <2>2, HeldFinite
<1>3. CASE c # hand[w]
  <2>1. Held(c) \ {w} = Held(c)
    BY <1>3 DEF Held
  <2> QED
    BY <1>1, <1>3, <2>1, HeldFinite
<1> QED
  BY <1>2, <1>3

\* A deferred act has a copy more in stock, and the worker that let go of it
\* covers that copy.
LEMMA DeferCopies ==
  ASSUME TypeOK, TypeOK', HandsFull, CopiesInv, NEW w \in Worker, GetDeferred(w)
  PROVE  CopiesInv'
<1> DEFINE r == RunOf[w]
<1>1. /\ wpc[w] = "get" /\ hand[w] \in Act /\ wpc' = [wpc EXCEPT ![w] = "loop"]
      /\ hand' = [hand EXCEPT ![w] = NoAct]
      /\ UNCHANGED <<attempts, buf, fetched>>
      /\ deferred' = [deferred EXCEPT ![r] = Add(@, hand[w])]
  BY DEF GetDeferred, At, Go, Empty, acts, HandsFull, WorkersReady
<1>2. r \in Run /\ \A s \in Run : s # r => deferred'[s] = deferred[s]
  BY <1>1, Homes DEF TypeOK
<1>3. \A c \in Act : deferred'[r][c] = deferred[r][c] + (IF c = hand[w] THEN 1 ELSE 0)
  <2>1. deferred[r] \in [Act -> Nat] /\ deferred'[r] = Add(deferred[r], hand[w])
    BY <1>1, <1>2 DEF TypeOK
  <2> QED
    BY <1>1, <2>1 DEF Add
<1>4. ASSUME NEW c \in Act PROVE Covered(c)'
  <2>1. Cardinality(Held(c)) =
          Cardinality(Held(c)') + (IF c = hand[w] THEN 1 ELSE 0)
    BY <1>1, HeldLess DEF Trying, TypeOK
  <2>2. Held(c)' \subseteq Held(c)
    BY <1>1 DEF Held, Trying, TypeOK
  <2>3. \A s \in Run : s # r => Stock(s, c)' = Stock(s, c)
    BY <1>1, <1>2 DEF Stock, Due
  <2>4. Stock(r, c)' =< Stock(r, c) + (IF c = hand[w] THEN 1 ELSE 0)
    <3>1. Due(r, c)' =< Due(r, c) /\ buf'[r][c] = buf[r][c]
      BY <1>1, <1>2, <1>3, CopyTypes DEF Due
    <3> QED
      BY <1>2, <1>3, <3>1, CopyTypes, CopyTypesNext DEF Stock
  <2>5. CASE c # hand[w]
    <3>1. \A s \in Run : Stock(s, c)' =< Stock(s, c)
      BY <1>2, <2>3, <2>4, <2>5, CopyTypes
    <3> QED
      BY <1>1, <2>1, <2>2, <2>5, <3>1, CoverKept, CopyTypes, CopyTypesNext DEF CopiesInv
  <2>6. CASE c = hand[w]
    <3>1. PICK X \in SUBSET Worker : Covers(X, c)
      BY DEF CopiesInv, Covered
    <3> DEFINE Y == X \cup {w}
    <3>2. w \notin X /\ w \notin Held(c)'
      BY <1>1, <2>6, <3>1 DEF Covers, Held, Trying, TypeOK
    <3>3. Y \in SUBSET Worker /\ Y \cap Held(c)' = {}
      BY <2>2, <3>1, <3>2 DEF Covers
    <3>4. /\ IsFiniteSet(X) /\ Cardinality(X) \in Nat
          /\ \A s : IsFiniteSet(OfRun(X, s)) /\ Cardinality(OfRun(X, s)) \in Nat
      BY SetSizes
    <3>5. Cardinality(Y) = Cardinality(X) + 1
      BY <3>2, <3>4, FS_AddElement
    <3>6. attempts'[c] + Cardinality(Y) + Cardinality(Held(c)')
            =< MaxAttempts + Cardinality(Worker) - 1
      BY <1>1, <2>1, <2>6, <3>1, <3>4, <3>5, CopyTypes, CopyTypesNext DEF Covers
    <3>7. ASSUME NEW s \in Run PROVE Stock(s, c)' =< Cardinality(OfRun(Y, s))
      <4>1. Stock(s, c) =< Cardinality(OfRun(X, s)) /\ Stock(s, c) \in Nat
        BY <3>1, CopyTypes DEF Covers
      <4>2. CASE s = r
        <5>1. OfRun(Y, s) = OfRun(X, s) \cup {w} /\ w \notin OfRun(X, s)
          BY <3>2, <4>2 DEF OfRun
        <5>2. Cardinality(OfRun(Y, s)) = Cardinality(OfRun(X, s)) + 1
          BY <3>4, <5>1, FS_AddElement
        <5>3. Stock(s, c)' \in Nat
          BY CopyTypesNext DEF Stock
        <5> QED
          BY <2>4, <2>6, <3>4, <4>1, <4>2, <5>2, <5>3
      <4>3. CASE s # r
        <5>1. OfRun(Y, s) = OfRun(X, s)
          BY <4>3 DEF OfRun
        <5> QED
          BY <2>3, <4>1, <4>3, <5>1
      <4> QED
        BY <4>2, <4>3
    <3> QED
      BY <3>3, <3>6, <3>7, CoverNext
  <2> QED
    BY <2>5, <2>6
<1>5. \A v \in Worker : Loads(v)' => Loads(v)
  BY <1>1 DEF Loads, TypeOK
<1> QED
  BY <1>1, <1>4, <1>5 DEF CopiesInv

\* An attempt that is counted takes its holder out of the count.
LEMMA MarkCopies ==
  ASSUME TypeOK, TypeOK', HandsFull, CopiesInv, NEW w \in Worker,
         MarkFailed(w) \/ MarkDownloaded(w)
  PROVE  CopiesInv'
<1>1. PICK p \in {"loop", "push"} : wpc' = [wpc EXCEPT ![w] = p]
  BY DEF MarkFailed, MarkDownloaded, Go
<1>2. /\ wpc[w] \in {"mark", "markfail"} /\ hand[w] \in Act
      /\ \A v \in Worker : v # w => hand'[v] = hand[v]
      /\ UNCHANGED <<buf, deferred, fetched>>
      /\ attempts' = attempts \/ attempts' = Add(attempts, hand[w])
  BY DEF MarkFailed, MarkDownloaded, At, Empty, source, HandsFull, WorkersReady, TypeOK
<1>3. ASSUME NEW c \in Act PROVE Covered(c)'
  <2>1. Cardinality(Held(c)) =
          Cardinality(Held(c)') + (IF c = hand[w] THEN 1 ELSE 0)
    BY <1>1, <1>2, HeldLess DEF Trying
  <2>2. attempts'[c] =< attempts[c] + (IF c = hand[w] THEN 1 ELSE 0)
    <3>1. attempts \in [Act -> Nat]
      BY DEF TypeOK
    <3> QED
      BY <1>2, <3>1 DEF Add
  <2>3. \A r \in Run : Stock(r, c)' = Stock(r, c)
    BY <1>2 DEF Stock, Due
  <2>4. Held(c)' \subseteq Held(c)
    BY <1>1, <1>2 DEF Held, Trying, TypeOK
  <2>5. attempts'[c] + Cardinality(Held(c)') =< attempts[c] + Cardinality(Held(c))
    BY <2>1, <2>2, CopyTypes, CopyTypesNext
  <2> QED
    BY <2>3, <2>4, <2>5, CoverKept, CopyTypes DEF CopiesInv
<1>4. \A v \in Worker : Loads(v)' => Loads(v)
  BY <1>1 DEF Loads, TypeOK
<1> QED
  BY <1>2, <1>3, <1>4 DEF CopiesInv

LEMMA CopiesStep ==
  ASSUME TypeOK, HandsFull, OneLoader, CopiesInv, ~Explicit, [Next]_vars
  PROVE  CopiesInv'
<1>0. TypeOK' /\ wpc \in [Worker -> WorkerPlace] /\ hand \in [Worker -> Act \cup {NoAct}]
  BY TypeStep DEF TypeOK
<1> USE <1>0
<1>1. CASE RunStarts
  BY <1>1, BlankCopies DEF RunStarts, acts
<1>1a. CASE Restart
  BY <1>1a, NoNewCopy DEF Restart, source, workers, acts, Loads, Trying
<1>2. CASE Crash
  BY <1>2, BlankCopies DEF Crash, acts
<1>3. CASE DrainSelect
  BY <1>3, NoNewCopy DEF DrainSelect, source, workers, acts, Loads, Trying
<1>4. CASE PoolFails
  BY <1>4, NoNewCopy DEF PoolFails, source, workers, acts, Loads, Trying
<1>5. CASE StopSignal
  BY <1>5, NoNewCopy DEF StopSignal, source, workers, acts, Loads, Trying
<1>6. CASE PoolSettles
  BY <1>6, NoNewCopy DEF PoolSettles, source, workers, acts, Loads, Trying
<1>6a. CASE Watchdog
  BY <1>6a, NoNewCopy DEF Watchdog, source, workers, acts, Loads, Trying
<1>7. CASE RunEnds
  BY <1>7, NoNewCopy DEF RunEnds, source, workers, acts, Loads, Trying
<1>8. ASSUME NEW a \in Act, DrainOne(a) PROVE CopiesInv'
  BY <1>8, NoNewCopy DEF DrainOne, source, workers, acts, Loads, Trying
<1>9. ASSUME NEW a \in Act, DrainFails(a) PROVE CopiesInv'
  BY <1>9, NoNewCopy DEF DrainFails, source, workers, acts, Loads, Trying
<1>10. ASSUME NEW a \in Act, Unlink(a) PROVE CopiesInv'
  BY <1>10, NoNewCopy DEF Unlink, source, workers, acts, Loads, Trying
<1>11. ASSUME NEW w \in Worker, Loop(w) PROVE CopiesInv'
  BY <1>11, NoNewCopy DEF Loop, At, Go, source, workers, acts, Loads, Trying
<1>12. ASSUME NEW w \in Worker, Claim(w) PROVE CopiesInv'
  BY <1>12, ClaimCopies
<1>13. ASSUME NEW w \in Worker, NothingLeft(w) PROVE CopiesInv'
  BY <1>13, NoNewCopy DEF NothingLeft, At, Go, source, workers, acts, Loads,
     Trying
<1>14. ASSUME NEW w \in Worker, Fetch(w) PROVE CopiesInv'
  BY <1>14, FetchCopies
<1>15. ASSUME NEW w \in Worker, Select(w) PROVE CopiesInv'
  BY <1>15, SelectCopies
<1>16. ASSUME NEW w \in Worker, Fetched(w) PROVE CopiesInv'
  BY <1>16, FetchedCopies
<1>17. ASSUME NEW w \in Worker, FetchFails(w) PROVE CopiesInv'
  BY <1>17, NoNewCopy DEF FetchFails, At, Go, Empty, Unexpected, source,
     workers, acts, Loads, Trying
<1>18. ASSUME NEW w \in Worker, GetDeferred(w) PROVE CopiesInv'
  BY <1>18, DeferCopies
<1>19. ASSUME NEW w \in Worker, GetSkipped(w) PROVE CopiesInv'
  BY <1>19, NoNewCopy DEF GetSkipped, At, Go, Empty, source, workers, acts,
     Loads, Trying
<1>20. ASSUME NEW w \in Worker, GetThrows(w) PROVE CopiesInv'
  BY <1>20, NoNewCopy DEF GetThrows, At, Go, Empty, Unexpected, source, workers,
     acts, Loads, Trying
<1>21. ASSUME NEW w \in Worker, GetFails(w) PROVE CopiesInv'
  BY <1>21, NoNewCopy DEF GetFails, At, Go, source, workers, acts, Loads, Trying
<1>22. ASSUME NEW w \in Worker, MarkFailed(w) PROVE CopiesInv'
  BY <1>22, MarkCopies
<1>23. ASSUME NEW w \in Worker, WriteStarts(w) PROVE CopiesInv'
  BY <1>23, NoNewCopy DEF WriteStarts, At, Go, source, workers, acts, Loads,
     Trying
<1>24. ASSUME NEW w \in Worker, Written(w) PROVE CopiesInv'
  BY <1>24, NoNewCopy DEF Written, At, Go, source, workers, acts, Loads, Trying
<1>25. ASSUME NEW w \in Worker, WriteThrows(w) PROVE CopiesInv'
  BY <1>25, NoNewCopy DEF WriteThrows, At, Go, Empty, Unexpected, source,
     workers, acts, Loads, Trying
<1>26. ASSUME NEW w \in Worker, MarkDownloaded(w) PROVE CopiesInv'
  BY <1>26, MarkCopies
<1>27. ASSUME NEW w \in Worker, Push(w) PROVE CopiesInv'
  BY <1>27, NoNewCopy DEF Push, At, Go, Empty, source, workers, acts, Loads,
     Trying
<1>28. ASSUME NEW w \in Worker, PushThrows(w) PROVE CopiesInv'
  BY <1>28, NoNewCopy DEF PushThrows, At, Go, Empty, source, workers, acts,
     Loads, Trying
<1>29. ASSUME NEW x \in Extractor, Shift(x) PROVE CopiesInv'
  BY <1>29, NoNewCopy DEF Shift, source, workers, acts, Loads, Trying
<1>30. ASSUME NEW x \in Extractor, ShiftDone(x) PROVE CopiesInv'
  BY <1>30, NoNewCopy DEF ShiftDone, source, workers, acts, Loads, Trying
<1>31. ASSUME NEW x \in Extractor, Extract(x) PROVE CopiesInv'
  BY <1>31, NoNewCopy DEF Extract, source, workers, acts, Loads, Trying
<1>32. ASSUME NEW x \in Extractor, MarkExtracted(x) PROVE CopiesInv'
  BY <1>32, NoNewCopy DEF MarkExtracted, source, workers, acts, Loads, Trying
<1>33. ASSUME NEW x \in Extractor, MarkExtractFailed(x) PROVE CopiesInv'
  BY <1>33, NoNewCopy DEF MarkExtractFailed, source, workers, acts, Loads,
     Trying
<1>34. CASE UNCHANGED vars
  BY <1>34, NoNewCopy DEF vars, source, workers, acts, Loads, Trying
<1> QED
  BY <1>1, <1>1a, <1>2, <1>3, <1>4, <1>5, <1>6, <1>6a, <1>7, <1>8, <1>9, <1>10, <1>11, <1>12,
     <1>13, <1>14, <1>15, <1>16, <1>17, <1>18, <1>19, <1>20, <1>21, <1>22,
     <1>23, <1>24, <1>25, <1>26, <1>27, <1>28, <1>29, <1>30, <1>31, <1>32,
     <1>33, <1>34 DEF Next, Download, Extraction

LEMMA CopiesStart == Init => CopiesInv
<1> SUFFICES ASSUME Init PROVE CopiesInv
  OBVIOUS
<1>1. ASSUME NEW a \in Act PROVE Covered(a)
  <2>1. Held(a) = {}
    BY DEF Init, Held, Trying
  <2>2. Cardinality(Held(a)) = 0 /\ Cardinality({}) = 0
    BY <2>1, FS_EmptySet
  <2>3. attempts[a] = 0 /\ \A r \in Run : Stock(r, a) = 0
    BY DEF Init, Stock, Due, NoCopies, Each
  <2>4. \A r \in Run : OfRun({}, r) = {}
    BY DEF OfRun
  <2>5. MaxAttempts \in Nat /\ Cardinality(Worker) \in Nat \ {0}
    BY HeldFinite, PoolAssumption
  <2>6. attempts[a] + Cardinality({}) + Cardinality(Held(a))
          =< MaxAttempts + Cardinality(Worker) - 1
    BY <2>2, <2>3, <2>5
  <2>7. \A r \in Run : Stock(r, a) =< Cardinality(OfRun({}, r))
    BY <2>2, <2>3, <2>4
  <2>8. Covers({}, a)
    BY <2>6, <2>7 DEF Covers
  <2> QED
    BY <2>8 DEF Covered
<1> QED
  BY <1>1 DEF Init, CopiesInv, Loads

\* MAX_PDF_ATTEMPTS is exceeded by the copies in flight at most, whatever is
\* deferred, dropped, retried or lost in a crash, and whatever workers the
\* watchdog left behind go on with (selectPendingPdf, SharedActQueue).
THEOREM AttemptsLimited == Spec => []AttemptsBounded
<1>1. CASE Explicit
  <2>1. AttemptsBounded
    BY <1>1 DEF AttemptsBounded
  <2> QED
    BY <2>1, PTL
<1>2. CASE ~Explicit
  <2>1. PoolInv /\ CopiesInv /\ [Next]_vars => CopiesInv'
    BY <1>2, CopiesStep DEF PoolInv
  <2>2. PoolInv /\ CopiesInv => AttemptsBounded
    <3>1. ASSUME TypeOK, CopiesInv, NEW a \in Act
          PROVE  attempts[a] =< MaxAttempts + Cardinality(Worker) - 1
      <4>1. PICK X \in SUBSET Worker : Covers(X, a)
        BY <3>1 DEF CopiesInv, Covered
      <4>2. Cardinality(X) \in Nat
        BY SetSizes
      <4> QED
        BY <3>1, <4>1, <4>2, CopyTypes DEF Covers
    <3> QED
      BY <3>1 DEF PoolInv, AttemptsBounded
  <2> QED
    BY PoolInvariant, CopiesStart, <2>1, <2>2, PTL DEF Spec
<1> QED
  BY <1>1, <1>2

-----------------------------------------------------------------------------
(* What a run without faults leaves behind, if it had the process to itself. *)

Clean == faults = 0 /\ ~stop[cur] /\ alone
UnderLimit == MaxRun = 0 \/ seen[cur] < MaxRun
Served == stage \in {"pool", "closing", "returned"}

\* A text to be had is on its way from the file to the table.
InFlight(a) ==
  \/ \E w \in Worker : InPool(w) /\ wpc[w] = "push" /\ hand[w] = a
  \/ \E i \in DOMAIN queue : queue[i] = a
  \/ \E x \in Extractor : xpc[x] \in {"extract", "good", "bad"} /\ item[x] = a

\* The queue is closed by a stop or at the end, and the stages follow one
\* another when the workers of the run are done.
StageInv ==
  /\ stage \in {"down", "drain"} => ~closed
  /\ stage = "pool" /\ closed => stop[cur]
  /\ stage \in {"closing", "returned"} => \A w \in Worker : InPool(w) => Settled(w)
  /\ stage = "returned" => \A x \in Extractor : xpc[x] = "done"
  /\ \A x \in Extractor : xpc[x] = "done" => closed /\ queue = <<>>

\* Workers begin with the pool of their run; the workers of earlier runs are at
\* rest if they were at rest when the run began.
WorkersInv ==
  \A w \in Worker :
    /\ RunOf[w] > cur \/ (InPool(w) /\ stage \in {"down", "drain"}) => wpc[w] = "off"
    /\ alone /\ RunOf[w] < cur => Idle(w)

\* A worker is done because the table was empty, and for no other reason.
DoneInv ==
  Clean /\ UnderLimit /\ Served =>
    \A w \in Worker : InPool(w) /\ Settled(w) => exhausted[cur]

\* No downloaded act waits for its text without being in flight.
FlightInv ==
  Clean /\ Served => \A a \in Act : downloaded[a] /\ text[a] = "none" => InFlight(a)

RunInv == StageInv /\ WorkersInv /\ DoneInv /\ FlightInv

\* In a run that had the process to itself, a worker at work is one of its own.
LEMMA ActiveInPool ==
  ASSUME TypeOK, WorkersInv, NEW w \in Worker, ~Idle(w)
  PROVE  /\ alone => InPool(w)
         /\ InPool(w) => stage \notin {"down", "drain"}
         /\ RunOf[w] =< cur
<1>1. RunOf[w] \in Nat /\ cur \in Nat
  BY Homes DEF Run, TypeOK
<1> QED
  BY <1>1 DEF WorkersInv, InPool, Idle

\* A step that moves neither workers, columns, queue nor stage.
LEMMA RunKept ==
  ASSUME RunInv,
         UNCHANGED <<closed, stage, stop, xpc, queue, item, downloaded, text, cur, alone,
                     wpc, hand, seen, exhausted, faults>>
  PROVE  RunInv'
<1>1. Clean' = Clean /\ UnderLimit' = UnderLimit /\ Served' = Served
  BY DEF Clean, UnderLimit, Served
<1>2. StageInv' /\ WorkersInv'
  BY DEF RunInv, StageInv, WorkersInv, InPool, Settled, Idle
<1>3. DoneInv'
  BY <1>1 DEF RunInv, DoneInv, InPool, Settled
<1>4. \A a \in Act : InFlight(a) => InFlight(a)'
  BY DEF InFlight, InPool
<1>5. FlightInv'
  BY <1>1, <1>4 DEF RunInv, FlightInv
<1> QED
  BY <1>2, <1>3, <1>5 DEF RunInv

\* A step of one worker that neither moves the columns, the queue nor the stage.
LEMMA WorkerRun ==
  ASSUME TypeOK, RunInv, NEW w \in Worker, ~Idle(w),
         UNCHANGED <<closed, stage, stop, xpc, queue, item, downloaded, text, cur, alone>>,
         faults' \in {faults, faults + 1}, UnderLimit' => UnderLimit,
         NEW p, wpc' = [wpc EXCEPT ![w] = p],
         \A v \in Worker : v # w => hand'[v] = hand[v],
         exhausted[cur] => exhausted'[cur],
         Clean' /\ Served /\ InPool(w) => wpc[w] # "push",
         Clean' /\ Served /\ InPool(w) /\ UnderLimit' /\ p \in {"done", "crashed"} =>
           exhausted'[cur]
  PROVE  RunInv'
<1>1. Clean' => Clean
  BY DEF Clean, TypeOK
<1>2. Served' = Served /\ \A v \in Worker : wpc'[v] = IF v = w THEN p ELSE wpc[v]
  BY DEF Served, TypeOK
<1>3. StageInv'
  <2>1. stage \in {"closing", "returned"} => ~InPool(w)
    BY DEF RunInv, StageInv, Settled, Idle
  <2> QED
    BY <1>2, <2>1 DEF RunInv, StageInv, InPool, Settled
<1>4. WorkersInv'
  <2>1. /\ ~ (RunOf[w] > cur) /\ ~ (InPool(w) /\ stage \in {"down", "drain"})
        /\ ~ (alone /\ RunOf[w] < cur)
    BY DEF RunInv, WorkersInv, Idle
  <2> QED
    BY <1>2, <2>1 DEF RunInv, WorkersInv, InPool, Idle
<1>5. DoneInv'
  BY <1>1, <1>2 DEF RunInv, DoneInv, InPool, Settled
<1>6. ASSUME Clean', Served', NEW a \in Act, InFlight(a) PROVE InFlight(a)'
  BY <1>2, <1>6 DEF InFlight, InPool
<1>7. FlightInv'
  BY <1>1, <1>2, <1>6 DEF RunInv, FlightInv
<1> QED
  BY <1>3, <1>4, <1>5, <1>7 DEF RunInv

\* After a fault the run is not clean any more.
LEMMA FaultSoils == ASSUME TypeOK, Fault PROVE ~Clean'
BY DEF Fault, Clean, TypeOK

LEMMA BlankRun ==
  ASSUME Blank, stage' \in {"down", "drain"} PROVE RunInv'
<1>1. \A w \in Worker : RunOf[w] \in Nat /\ RunOf[w] >= 1
  BY PoolAssumption
<1>2. StageInv' /\ WorkersInv'
  BY <1>1 DEF Blank, NewRun, StageInv, WorkersInv, InPool, Idle
<1> QED
  BY <1>2 DEF RunInv, DoneInv, FlightInv, Served

\* The next run begins with its workers off and an open queue.
LEMMA RestartRun ==
  ASSUME TypeOK, RunInv, Restart PROVE RunInv'
<1>1. /\ cur \in Nat /\ cur' = cur + 1 /\ stage' = "drain" /\ wpc' = wpc
      /\ alone' = \A w \in Worker : Idle(w)
      /\ ~closed' /\ \A x \in Extractor : xpc'[x] = "shift"
  BY DEF Restart, NewRun, workers, TypeOK, Run
<1>2. StageInv'
  BY <1>1 DEF StageInv
<1>3. \A w \in Worker : RunOf[w] \in Nat
  BY PoolAssumption
<1>4. WorkersInv'
  <2>1. ASSUME NEW w \in Worker, RunOf[w] > cur + 1 \/ RunOf[w] = cur + 1
        PROVE  wpc[w] = "off"
    BY <1>1, <1>3, <2>1 DEF RunInv, WorkersInv
  <2>2. ASSUME NEW w \in Worker, alone' PROVE Idle(w)'
    BY <1>1, <2>2 DEF Idle
  <2> QED
    BY <1>1, <2>1, <2>2 DEF WorkersInv, InPool
<1> QED
  BY <1>1, <1>2, <1>4 DEF RunInv, DoneInv, FlightInv, Served

\* The resume step ends in the pool only when every text has been tried.
LEMMA DrainRun ==
  ASSUME TypeOK, RunInv,
         \/ DrainSelect \/ PoolFails
         \/ \E a \in Act : DrainOne(a) \/ DrainFails(a)
  PROVE  RunInv'
<1>1. /\ stage = "drain" /\ stage' \in {"drain", "pool", "threw", "leased"}
      /\ UNCHANGED <<closed, stop, xpc, queue, cur, alone>>
  BY DEF DrainSelect, PoolFails, DrainOne, DrainFails, Fault, extract
<1>2. \/ wpc' = wpc /\ stage' # "pool"
      \/ /\ stage' = "pool" /\ Pending = {} /\ UNCHANGED <<downloaded, text>>
         /\ \A w \in Worker : wpc'[w] = IF InPool(w) THEN "loop" ELSE wpc[w]
  BY DEF DrainSelect, PoolFails, DrainOne, DrainFails, workers, acts
<1>3. StageInv'
  BY <1>1 DEF RunInv, StageInv
<1>4. WorkersInv'
  <2>1. ASSUME NEW w \in Worker
        PROVE  /\ RunOf[w] > cur => wpc'[w] = "off"
               /\ InPool(w) /\ stage' = "drain" => wpc'[w] = "off"
               /\ alone /\ RunOf[w] < cur => Idle(w)'
    <3>1. RunOf[w] \in Nat /\ cur \in Nat
      BY Homes DEF Run, TypeOK
    <3>2. InPool(w) <=> RunOf[w] = cur
      BY DEF InPool
    <3>3. ~InPool(w) => wpc'[w] = wpc[w]
      BY <1>2
    <3>4. stage' = "drain" => wpc' = wpc
      BY <1>2
    <3> QED
      BY <1>1, <3>1, <3>2, <3>3, <3>4 DEF RunInv, WorkersInv, Idle
  <2> QED
    BY <1>1, <2>1 DEF WorkersInv, InPool
<1>5. DoneInv'
  BY <1>1, <1>2 DEF DoneInv, Served, InPool, Settled
<1>6. FlightInv'
  BY <1>1, <1>2 DEF FlightInv, Pending, Served
<1> QED
  BY <1>3, <1>4, <1>5, <1>6 DEF RunInv

\* A stop is not seen by a run that has not reached its pool; any other run is
\* not clean any more.
LEMMA StopRun ==
  ASSUME TypeOK, RunInv, StopSignal PROVE RunInv'
<1>1. /\ UNCHANGED <<stage, wpc, xpc, queue, cur, alone>> /\ stage # "down"
      /\ closed' = (closed \/ stage = "pool")
  BY DEF StopSignal, workers, extract
<1>2. stop'[cur] = (stop[cur] \/ stage # "drain")
  <2>1. cur \in Run /\ ~ (cur < cur)
    BY DEF TypeOK, Run
  <2> QED
    BY <2>1 DEF StopSignal, Listening, TypeOK
<1>3. StageInv'
  BY <1>1, <1>2 DEF RunInv, StageInv, InPool, Settled
<1>4. WorkersInv'
  BY <1>1 DEF RunInv, WorkersInv, InPool, Idle
<1>5. ~ (Clean' /\ Served')
  BY <1>1, <1>2 DEF Clean, Served
<1> QED
  BY <1>3, <1>4, <1>5 DEF RunInv, DoneInv, FlightInv

LEMMA StageRun ==
  ASSUME TypeOK, RunInv, PoolSettles \/ Watchdog \/ RunEnds PROVE RunInv'
<1>1. /\ UNCHANGED <<downloaded, text, wpc, hand, queue, xpc, item, exhausted>>
      /\ UNCHANGED <<stop, seen, faults, cur, alone>>
      /\ closed => closed'
  BY DEF PoolSettles, Watchdog, RunEnds, acts, workers, extract, source
<1>2. /\ stage \in {"pool", "closing", "fatal"}
      /\ stage' \in {"closing", "fatal", "returned", "threw"}
      /\ stage' \in {"closing", "returned"} =>
            Served /\ \A w \in Worker : InPool(w) => Settled(w)
      /\ stage' = "returned" => \A x \in Extractor : xpc[x] = "done"
  BY DEF PoolSettles, Watchdog, RunEnds, RunInv, StageInv, Served
<1>3. StageInv'
  BY <1>1, <1>2 DEF RunInv, StageInv, InPool, Settled
<1>4. WorkersInv'
  BY <1>1, <1>2 DEF RunInv, WorkersInv, InPool, Idle
<1>5. Clean' = Clean /\ UnderLimit' = UnderLimit /\ (Served' => Served)
  BY <1>1, <1>2 DEF Clean, UnderLimit, Served
<1>6. DoneInv'
  BY <1>1, <1>5 DEF RunInv, DoneInv, InPool, Settled
<1>7. \A a \in Act : InFlight(a) => InFlight(a)'
  BY <1>1 DEF InFlight, InPool
<1>8. FlightInv'
  BY <1>1, <1>5, <1>7 DEF RunInv, FlightInv
<1> QED
  BY <1>3, <1>4, <1>6, <1>8 DEF RunInv

LEMMA MarkRun ==
  ASSUME TypeOK, HandsFull, RunInv, NEW w \in Worker, MarkDownloaded(w)
  PROVE  RunInv'
<1>1. /\ wpc[w] = "mark" /\ wpc' = [wpc EXCEPT ![w] = "push"] /\ ~Idle(w)
      /\ UNCHANGED <<text, hand, queue, xpc, item, closed, stage, stop, seen, exhausted>>
      /\ UNCHANGED <<cur, alone>>
  BY DEF MarkDownloaded, At, Go, source, extract, run, Idle
<1>2. \/ NoFault /\ downloaded' = [downloaded EXCEPT ![hand[w]] = TRUE]
      \/ Fault /\ UNCHANGED downloaded
  BY DEF MarkDownloaded
<1>3. (Clean' => Clean) /\ UnderLimit' = UnderLimit /\ Served' = Served
  BY <1>1, <1>2 DEF Clean, NoFault, Fault, TypeOK, UnderLimit, Served
<1>4. \A v \in Worker : wpc'[v] = IF v = w THEN "push" ELSE wpc[v]
  BY <1>1 DEF TypeOK
<1>5. StageInv'
  BY <1>1, <1>4 DEF RunInv, StageInv, InPool, Settled
<1>6. WorkersInv'
  BY <1>1, <1>4 DEF RunInv, WorkersInv, InPool, Idle
<1>7. DoneInv'
  BY <1>1, <1>3, <1>4 DEF RunInv, DoneInv, InPool, Settled
<1>8. alone => InPool(w)
  BY <1>1, ActiveInPool DEF RunInv
<1>9. \A a \in Act : InFlight(a) \/ (a = hand[w] /\ InPool(w)) => InFlight(a)'
  BY <1>1, <1>4 DEF InFlight, InPool
<1>10. \A a \in Act : downloaded'[a] => downloaded[a] \/ a = hand[w]
  BY <1>2 DEF TypeOK
<1>11. FlightInv'
  BY <1>1, <1>3, <1>8, <1>9, <1>10 DEF RunInv, FlightInv, Clean
<1> QED
  BY <1>5, <1>6, <1>7, <1>11 DEF RunInv

LEMMA PushRun ==
  ASSUME TypeOK, HandsFull, RunInv, NEW w \in Worker, Push(w) PROVE RunInv'
<1>1. /\ InPool(w) /\ ~closed /\ wpc[w] = "push" /\ hand[w] \in Act
      /\ wpc' = [wpc EXCEPT ![w] = "loop"] /\ hand' = [hand EXCEPT ![w] = NoAct]
      /\ queue' = Append(queue, hand[w]) /\ queue \in Seq(Act)
      /\ UNCHANGED <<downloaded, text, xpc, item, closed, stage, stop, seen, faults>>
      /\ UNCHANGED <<exhausted, cur, alone>>
  BY DEF Push, Open, At, Go, Empty, acts, source, run, HandsFull, WorkersReady, TypeOK
<1>2. \A v \in Worker : /\ wpc'[v] = IF v = w THEN "loop" ELSE wpc[v]
                        /\ v # w => hand'[v] = hand[v]
  BY <1>1 DEF TypeOK
<1>3. StageInv' /\ WorkersInv'
  BY <1>1, <1>2 DEF RunInv, StageInv, WorkersInv, InPool, Settled, Idle
<1>4. DoneInv'
  BY <1>1, <1>2 DEF RunInv, DoneInv, Clean, UnderLimit, Served, InPool, Settled
<1>5. ASSUME NEW a \in Act, InFlight(a) PROVE InFlight(a)'
  <2>1. /\ \A i \in DOMAIN queue : i \in DOMAIN queue' /\ queue'[i] = queue[i]
        /\ Len(queue) + 1 \in DOMAIN queue' /\ queue'[Len(queue) + 1] = hand[w]
    <3>1. /\ Len(queue) \in Nat /\ DOMAIN queue = 1..Len(queue)
          /\ DOMAIN queue' = 1..(Len(queue) + 1)
      BY <1>1
    <3> QED
      BY <1>1, <3>1
  <2>2. CASE \E v \in Worker : InPool(v) /\ wpc[v] = "push" /\ hand[v] = a
    BY <1>1, <1>2, <2>1, <2>2 DEF InFlight, InPool
  <2>3. CASE \E i \in DOMAIN queue : queue[i] = a
    BY <2>1, <2>3 DEF InFlight
  <2>4. CASE \E x \in Extractor : xpc[x] \in {"extract", "good", "bad"} /\ item[x] = a
    BY <1>1, <2>4 DEF InFlight
  <2> QED
    BY <1>5, <2>2, <2>3, <2>4 DEF InFlight
<1>6. FlightInv'
  BY <1>1, <1>5 DEF RunInv, FlightInv, Clean, Served
<1> QED
  BY <1>3, <1>4, <1>6 DEF RunInv

\* A worker finds the queue closed: after a stop, after the watchdog, or because
\* its run is over.
LEMMA PushThrowsRun ==
  ASSUME TypeOK, RunInv, NEW w \in Worker, PushThrows(w) PROVE RunInv'
<1>1. /\ wpc[w] = "push" /\ ~Idle(w) /\ wpc' = [wpc EXCEPT ![w] = "done"]
      /\ InPool(w) => closed
      /\ \A v \in Worker : v # w => hand'[v] = hand[v]
      /\ UNCHANGED <<closed, stage, stop, xpc, queue, item, downloaded, text, cur, alone>>
      /\ UNCHANGED <<exhausted, seen, faults>>
  BY DEF PushThrows, Open, At, Go, Empty, Idle, run, extract, acts, source, TypeOK
<1>2. InPool(w) /\ Served => ~Clean'
  BY <1>1 DEF RunInv, StageInv, Served, Clean, Settled
<1> QED
  BY <1>1, <1>2, WorkerRun DEF UnderLimit

LEMMA ShiftRun ==
  ASSUME TypeOK, RunInv, NEW x \in Extractor, Shift(x) PROVE RunInv'
<1>1. /\ xpc[x] = "shift" /\ queue # <<>> /\ queue \in Seq(Act)
      /\ item' = [item EXCEPT ![x] = Head(queue)] /\ queue' = Tail(queue)
      /\ xpc' = [xpc EXCEPT ![x] = "extract"]
      /\ UNCHANGED <<downloaded, text, wpc, hand, closed, stage, stop, seen, faults>>
      /\ UNCHANGED <<exhausted, cur, alone>>
  BY DEF Shift, acts, source, workers, run, TypeOK
<1>2. \A y \in Extractor : /\ xpc'[y] = IF y = x THEN "extract" ELSE xpc[y]
                           /\ item'[y] = IF y = x THEN Head(queue) ELSE item[y]
  BY <1>1 DEF TypeOK
<1>3. StageInv' /\ WorkersInv'
  BY <1>1, <1>2 DEF RunInv, StageInv, WorkersInv, InPool, Settled, Idle
<1>4. DoneInv'
  BY <1>1 DEF RunInv, DoneInv, Clean, UnderLimit, Served, InPool, Settled
<1>5. ASSUME NEW a \in Act, InFlight(a) PROVE InFlight(a)'
  <2>1. CASE \E v \in Worker : InPool(v) /\ wpc[v] = "push" /\ hand[v] = a
    BY <1>1, <2>1 DEF InFlight, InPool
  <2>2. ASSUME NEW i \in DOMAIN queue, queue[i] = a PROVE InFlight(a)'
    <3>1. Len(queue) \in Nat /\ DOMAIN queue = 1..Len(queue) /\ Head(queue) = queue[1]
      BY <1>1
    <3>2. CASE i = 1
      BY <1>2, <2>2, <3>1, <3>2 DEF InFlight
    <3>3. CASE i # 1
      <4>1. i - 1 \in DOMAIN queue' /\ queue'[i - 1] = queue[(i - 1) + 1]
        <5>1. Len(queue') = Len(queue) - 1 /\ queue' \in Seq(Act)
          BY <1>1
        <5>2. i - 1 \in 1..Len(queue')
          BY <3>1, <3>3, <5>1
        <5> QED
          BY <1>1, <5>1, <5>2
      <4> QED
        BY <2>2, <3>1, <4>1 DEF InFlight
    <3> QED
      BY <3>2, <3>3
  <2>3. CASE \E y \in Extractor : xpc[y] \in {"extract", "good", "bad"} /\ item[y] = a
    BY <1>1, <1>2, <2>3 DEF InFlight
  <2> QED
    BY <1>5, <2>1, <2>2, <2>3 DEF InFlight
<1>6. FlightInv'
  BY <1>1, <1>5 DEF RunInv, FlightInv, Clean, Served
<1> QED
  BY <1>3, <1>4, <1>6 DEF RunInv

LEMMA ExtractRun ==
  ASSUME TypeOK, RunInv, NEW x \in Extractor, ShiftDone(x) \/ Extract(x)
  PROVE  RunInv'
<1>1. /\ UNCHANGED <<downloaded, text, wpc, hand, queue, item, closed, stage>>
      /\ UNCHANGED <<stop, seen, exhausted, cur, alone>> /\ faults' \in {faults, faults + 1}
  BY DEF ShiftDone, Extract, acts, source, workers, run, NoFault, Fault
<1>2. PICK p \in {"done", "good", "bad"} :
        /\ xpc' = [xpc EXCEPT ![x] = p]
        /\ p = "done" => xpc[x] = "shift" /\ closed /\ queue = <<>>
        /\ p # "done" => xpc[x] = "extract"
  BY DEF ShiftDone, Extract
<1>3. \A y \in Extractor : xpc'[y] = IF y = x THEN p ELSE xpc[y]
  BY <1>2 DEF TypeOK
<1>4. (Clean' => Clean) /\ UnderLimit' = UnderLimit /\ Served' = Served
  BY <1>1 DEF Clean, TypeOK, UnderLimit, Served
<1>5. StageInv' /\ WorkersInv'
  BY <1>1, <1>2, <1>3 DEF RunInv, StageInv, WorkersInv, InPool, Settled, Idle
<1>6. DoneInv'
  BY <1>1, <1>4 DEF RunInv, DoneInv, InPool, Settled
<1>7. \A a \in Act : InFlight(a) => InFlight(a)'
  BY <1>1, <1>2, <1>3 DEF InFlight, InPool
<1>8. FlightInv'
  BY <1>1, <1>4, <1>7 DEF RunInv, FlightInv
<1> QED
  BY <1>5, <1>6, <1>8 DEF RunInv

LEMMA TextRun ==
  ASSUME TypeOK, HandsFull, RunInv, NEW x \in Extractor,
         MarkExtracted(x) \/ MarkExtractFailed(x)
  PROVE  RunInv'
<1>1. /\ UNCHANGED <<downloaded, wpc, hand, queue, closed, stage, stop, seen>>
      /\ UNCHANGED <<exhausted, cur, alone>>
      /\ xpc[x] \in {"good", "bad"} /\ item[x] \in Act
      /\ xpc' = [xpc EXCEPT ![x] = "shift"] /\ item' = [item EXCEPT ![x] = NoAct]
  BY DEF MarkExtracted, MarkExtractFailed, Next1, source, workers, run, HandsFull,
         ExtractorsReady
<1>2. \/ NoFault /\ \E t \in {"text", "failed"} : text' = [text EXCEPT ![item[x]] = t]
      \/ Fault
  BY DEF MarkExtracted, MarkExtractFailed
<1>3. \A y \in Extractor : /\ xpc'[y] = IF y = x THEN "shift" ELSE xpc[y]
                           /\ y # x => item'[y] = item[y]
  BY <1>1 DEF TypeOK
<1>4. (Clean' => Clean /\ NoFault) /\ UnderLimit' = UnderLimit /\ Served' = Served
  BY <1>1, <1>2, FaultSoils DEF Clean, NoFault, UnderLimit, Served
<1>5. StageInv' /\ WorkersInv'
  BY <1>1, <1>3 DEF RunInv, StageInv, WorkersInv, InPool, Settled, Idle
<1>6. DoneInv'
  BY <1>1, <1>4 DEF RunInv, DoneInv, InPool, Settled
<1>7. \A a \in Act : InFlight(a) /\ a # item[x] => InFlight(a)'
  BY <1>1, <1>3 DEF InFlight, InPool
<1>8. ASSUME Clean', NEW a \in Act, text'[a] = "none" PROVE text[a] = "none" /\ a # item[x]
  <2>1. PICK t \in {"text", "failed"} : text' = [text EXCEPT ![item[x]] = t]
    BY <1>2, <1>8, FaultSoils
  <2> QED
    BY <1>1, <1>8, <2>1 DEF TypeOK
<1>9. FlightInv'
  BY <1>1, <1>4, <1>7, <1>8 DEF RunInv, FlightInv
<1> QED
  BY <1>5, <1>6, <1>9 DEF RunInv

\* The claim that reaches the limit of the run is counted.
LEMMA GotRun ==
  ASSUME TypeOK, NEW w \in Worker, NEW a \in Act, Got(w, a), cur' = cur
  PROVE  /\ UnderLimit' => UnderLimit
         /\ \E p \in {"done", "get"} :
              /\ wpc' = [wpc EXCEPT ![w] = p]
              /\ p = "done" /\ InPool(w) => ~UnderLimit'
         /\ \A v \in Worker : v # w => hand'[v] = hand[v]
<1>1. /\ \A r \in Run : seen[r] \in Nat
      /\ MaxRun \in Nat /\ cur \in Run /\ RunOf[w] \in Run
  BY PoolAssumption, Homes DEF TypeOK
<1>2. \A r \in Run : seen'[r] =
        IF r = RunOf[w] THEN IF MaxRun = 0 THEN 0 ELSE seen[r] + 1 ELSE seen[r]
  BY <1>1 DEF Got, TypeOK
<1>3. UnderLimit' => UnderLimit
  BY <1>1, <1>2 DEF UnderLimit
<1>4. \A v \in Worker : v # w => hand'[v] = hand[v]
  BY DEF Got, TypeOK
<1>5. CASE MaxRun > 0 /\ seen[RunOf[w]] + 1 > MaxRun
  <2>1. wpc' = [wpc EXCEPT ![w] = "done"]
    BY <1>5 DEF Got, Go
  <2>2. InPool(w) => ~UnderLimit'
    BY <1>1, <1>2, <1>5 DEF InPool, UnderLimit
  <2> QED
    BY <1>3, <1>4, <2>1, <2>2
<1>6. CASE ~ (MaxRun > 0 /\ seen[RunOf[w]] + 1 > MaxRun)
  <2>1. wpc' = [wpc EXCEPT ![w] = "get"]
    BY <1>6 DEF Got, Go
  <2> QED
    BY <1>3, <1>4, <2>1
<1> QED
  BY <1>5, <1>6

\* A worker step that stays within the loop.
LEMMA LoopRun ==
  ASSUME TypeOK, RunInv, NEW w \in Worker, ~Idle(w), wpc[w] # "push",
         UNCHANGED <<closed, stage, stop, xpc, queue, item, downloaded, text, cur, alone>>,
         UNCHANGED <<exhausted, seen>>, faults' \in {faults, faults + 1},
         NEW p \in WorkerPlace \ {"done", "crashed"}, wpc' = [wpc EXCEPT ![w] = p],
         \A v \in Worker : v # w => hand'[v] = hand[v]
  PROVE  RunInv'
BY WorkerRun DEF UnderLimit

\* A worker that caught an exception.
LEMMA UnexpectedRun ==
  ASSUME TypeOK, RunInv, NEW w \in Worker, ~Idle(w), wpc[w] # "push", Fault,
         Unexpected(w), UNCHANGED <<exhausted, extract, closed, run, downloaded, text>>
  PROVE  RunInv'
<1>1. ~Clean'
  BY FaultSoils
<1>2. PICK p \in {"crashed", "loop"} : wpc' = [wpc EXCEPT ![w] = p]
  BY DEF Unexpected, Go
<1>3. faults' = faults + 1 /\ \A v \in Worker : v # w => hand'[v] = hand[v]
  BY DEF Fault, Unexpected, Empty, TypeOK
<1> QED
  BY <1>1, <1>2, <1>3, WorkerRun DEF extract, run, UnderLimit

\* Every step keeps what a clean run promises.
LEMMA RunStep ==
  ASSUME TypeOK, HandsFull, RunInv, [Next]_vars PROVE RunInv'
<1>0. /\ wpc \in [Worker -> WorkerPlace] /\ hand \in [Worker -> Act \cup {NoAct}]
      /\ \A w \in Worker : RunOf[w] \in Run
  BY Homes DEF TypeOK
<1> USE <1>0 DEF acts, source, workers, extract, run
<1>1. CASE RunStarts
  BY <1>1, BlankRun DEF RunStarts
<1>1a. CASE Restart
  BY <1>1a, RestartRun
<1>2. CASE Crash
  BY <1>2, BlankRun DEF Crash
<1>3. CASE \/ DrainSelect \/ PoolFails
           \/ \E a \in Act : DrainOne(a) \/ DrainFails(a)
  BY <1>3, DrainRun
<1>4. CASE StopSignal \/ PoolSettles \/ Watchdog \/ RunEnds
  BY <1>4, StopRun, StageRun
<1>5. ASSUME NEW a \in Act, Unlink(a) PROVE RunInv'
  BY <1>5, RunKept DEF Unlink
<1>6. ASSUME NEW w \in Worker, Loop(w) PROVE RunInv'
  <2>1. PICK p \in {"done", "claim"} :
          /\ wpc' = [wpc EXCEPT ![w] = p]
          /\ p = "done" => ShouldStop(RunOf[w])
    BY <1>6 DEF Loop, Go
  <2>2. p = "done" /\ InPool(w) => ~Clean' \/ ~UnderLimit'
    <3>1. cur \in Run /\ seen[cur] \in Nat /\ MaxRun \in Nat
      BY PoolAssumption DEF TypeOK
    <3> QED
      BY <1>6, <2>1, <3>1 DEF Loop, InPool, ShouldStop, Clean, UnderLimit
  <2> QED
    BY <1>6, <2>1, <2>2, WorkerRun DEF Loop, At, Idle, UnderLimit
<1>7. ASSUME NEW w \in Worker, Claim(w) PROVE RunInv'
  <2>1. PICK a \in Act : Got(w, a)
    BY <1>7 DEF Claim
  <2>2. cur' = cur
    BY <1>7 DEF Claim
  <2> QED
    BY <1>7, <2>1, <2>2, GotRun, WorkerRun DEF Claim, At, Idle
<1>8. ASSUME NEW w \in Worker, NothingLeft(w) PROVE RunInv'
  <2>1. InPool(w) => exhausted[cur]
    BY <1>8 DEF NothingLeft, InPool
  <2> QED
    BY <1>8, <2>1, WorkerRun DEF NothingLeft, At, Go, Idle, UnderLimit
<1>9. ASSUME NEW w \in Worker, Fetch(w) PROVE RunInv'
  BY <1>9, LoopRun DEF Fetch, At, Go, Idle, WorkerPlace
<1>10. ASSUME NEW w \in Worker, Select(w) PROVE RunInv'
  BY <1>10, LoopRun DEF Select, At, Go, Idle, WorkerPlace
<1>11. ASSUME NEW w \in Worker, Fetched(w) PROVE RunInv'
  <2>1. CASE Refill(RunOf[w]) = NoCopies
    <3>1. /\ exhausted' = [exhausted EXCEPT ![RunOf[w]] = TRUE]
          /\ wpc' = [wpc EXCEPT ![w] = "done"] /\ UNCHANGED <<hand, seen, cur>>
      BY <1>11, <2>1 DEF Fetched, Go
    <3>2. (exhausted[cur] => exhausted'[cur]) /\ (InPool(w) => exhausted'[cur])
      BY <3>1 DEF TypeOK, InPool
    <3> QED
      BY <1>11, <3>1, <3>2, WorkerRun DEF Fetched, At, Idle, UnderLimit
  <2>2. CASE Refill(RunOf[w]) # NoCopies
    <3>1. PICK a \in Act : Got(w, a)
      BY <1>11, <2>2 DEF Fetched
    <3>2. exhausted' = exhausted /\ cur' = cur
      BY <1>11, <2>2 DEF Fetched
    <3> QED
      BY <1>11, <3>1, <3>2, GotRun, WorkerRun DEF Fetched, At, Idle
  <2> QED
    BY <2>1, <2>2
<1>12. ASSUME NEW w \in Worker, FetchFails(w) PROVE RunInv'
  BY <1>12, UnexpectedRun DEF FetchFails, At, Idle
<1>13. ASSUME NEW w \in Worker, GetDeferred(w) PROVE RunInv'
  BY <1>13, LoopRun DEF GetDeferred, At, Go, Empty, Idle, WorkerPlace
<1>14. ASSUME NEW w \in Worker, GetSkipped(w) PROVE RunInv'
  BY <1>14, LoopRun DEF GetSkipped, At, Go, Empty, Idle, WorkerPlace
<1>15. ASSUME NEW w \in Worker, GetThrows(w) PROVE RunInv'
  BY <1>15, UnexpectedRun DEF GetThrows, At, Idle
<1>16. ASSUME NEW w \in Worker, GetFails(w) PROVE RunInv'
  BY <1>16, LoopRun DEF GetFails, At, Go, Idle, WorkerPlace
<1>17. ASSUME NEW w \in Worker, MarkFailed(w) PROVE RunInv'
  BY <1>17, LoopRun DEF MarkFailed, At, Go, Empty, Fault, NoFault, Idle, WorkerPlace
<1>18. ASSUME NEW w \in Worker, WriteStarts(w) PROVE RunInv'
  BY <1>18, LoopRun DEF WriteStarts, At, Go, Idle, WorkerPlace
<1>19. ASSUME NEW w \in Worker, Written(w) PROVE RunInv'
  BY <1>19, LoopRun DEF Written, At, Go, Idle, WorkerPlace
<1>20. ASSUME NEW w \in Worker, WriteThrows(w) PROVE RunInv'
  BY <1>20, UnexpectedRun DEF WriteThrows, At, Idle
<1>21. ASSUME NEW w \in Worker, MarkDownloaded(w) PROVE RunInv'
  BY <1>21, MarkRun
<1>22. ASSUME NEW w \in Worker, Push(w) PROVE RunInv'
  BY <1>22, PushRun
<1>23. ASSUME NEW w \in Worker, PushThrows(w) PROVE RunInv'
  BY <1>23, PushThrowsRun
<1>24. ASSUME NEW x \in Extractor, Shift(x) PROVE RunInv'
  BY <1>24, ShiftRun
<1>25. ASSUME NEW x \in Extractor, ShiftDone(x) PROVE RunInv'
  BY <1>25, ExtractRun
<1>26. ASSUME NEW x \in Extractor, Extract(x) PROVE RunInv'
  BY <1>26, ExtractRun
<1>27. ASSUME NEW x \in Extractor, MarkExtracted(x) PROVE RunInv'
  BY <1>27, TextRun
<1>28. ASSUME NEW x \in Extractor, MarkExtractFailed(x) PROVE RunInv'
  BY <1>28, TextRun
<1>29. CASE UNCHANGED vars
  BY <1>29, RunKept DEF vars
<1> QED
  BY <1>1, <1>1a, <1>2, <1>3, <1>4, <1>5, <1>6, <1>7, <1>8, <1>9, <1>10, <1>11,
     <1>12, <1>13, <1>14, <1>15, <1>16, <1>17, <1>18, <1>19, <1>20, <1>21, <1>22,
     <1>23, <1>24, <1>25, <1>26, <1>27, <1>28, <1>29 DEF Next, Download,
     Extraction

\* What a clean run that returned has done.
LEMMA RunDone ==
  ASSUME TypeOK, SourceComplete, RunInv PROVE CleanRunCompletes
<1> SUFFICES ASSUME stage = "returned", Clean, UnderLimit, ~Explicit, NEW a \in Act
             PROVE  ~Eligible(a) /\ (downloaded[a] => text[a] # "none")
  BY DEF CleanRunCompletes, CleanReturn, NothingUndone, Clean, UnderLimit
<1>1. cur \in Run /\ \A w \in Worker : InPool(w) => Settled(w)
  BY DEF RunInv, StageInv, TypeOK
<1>2. exhausted[cur]
  <2>1. PICK w \in Worker : InPool(w)
    BY <1>1, PoolAssumption DEF Run, InPool
  <2> QED
    BY <1>1, <2>1 DEF RunInv, DoneInv, Served
<1>3. ~Eligible(a)
  BY <1>1, <1>2 DEF SourceComplete
<1>4. queue = <<>> /\ \A x \in Extractor : xpc[x] = "done"
  BY PoolAssumption DEF RunInv, StageInv
<1>5. ~InFlight(a)
  <2>1. DOMAIN queue = {}
    BY <1>4
  <2> QED
    BY <1>1, <1>4, <2>1 DEF InFlight, Settled
<1> QED
  BY <1>3, <1>5 DEF RunInv, FlightInv, Served

LEMMA RunStart == Init => RunInv
<1>1. \A w \in Worker : RunOf[w] \in Nat /\ RunOf[w] >= 1
  BY PoolAssumption
<1> QED
  BY <1>1 DEF Init, RunInv, StageInv, WorkersInv, DoneInv, FlightInv, Served, InPool, Idle

\* A run without faults, stop or limit that had the process to itself leaves
\* nothing undone, whatever crashed, stopped, faulty and stuck runs left behind
\* (runPipeline: resume, pool, watchdog, close; the supervisor of download-acts).
THEOREM CleanRunsComplete == Spec => []CleanRunCompletes
<1>1. PoolInv /\ RunInv /\ [Next]_vars => RunInv'
  BY RunStep DEF PoolInv
<1>2. PoolInv /\ RunInv => CleanRunCompletes
  BY RunDone DEF PoolInv
<1> QED
  BY PoolInvariant, RunStart, <1>1, <1>2, PTL DEF Spec
=============================================================================
