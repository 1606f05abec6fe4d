---------------------------- MODULE DownloadPool ----------------------------
(***************************************************************************)
(* runPipeline() of backend/pdf/pipeline.js: the resume step, the download *)
(* workers with their shared source of acts, the queue to the extract      *)
(* workers, the no-progress watchdog, the acts table (db/actsRepo.js), the *)
(* PDF files, and the supervisor of tools/download-acts.js, which starts   *)
(* the next run in the same process when one threw.                        *)
(*                                                                         *)
(* A run that the watchdog ends leaves its workers behind.  They go on     *)
(* with the source of THEIR run while the next run has a source, a queue   *)
(* and workers of its own; files and table are shared by all of them.      *)
(*                                                                         *)
(* The order in which acts are claimed is left out: the buffer and the     *)
(* deferred acts of SharedActQueue are bags.  The queue to the extract     *)
(* workers is a bounded channel; BoundedQueue shows that the class of that *)
(* name behaves like one.  Recovery of a worker (IP and geo changes,       *)
(* quarantine sleeps) is the time it spends at "loop".  The time the       *)
(* watchdog waits is left out: it fires whenever it may.  The leases are   *)
(* in ProxyLeases.                                                         *)
(***************************************************************************)
EXTENDS Integers, Sequences, FiniteSets

CONSTANTS
  Act,            \* acts with verdict_keep and a pdf_link
  Runs,           \* runs the supervisor starts in one process
  Worker,         \* download workers of all the runs of a process
  RunOf,          \* the run of a worker
  Extractor,      \* extract workers
  NoAct,          \* a worker with empty hands
  Cap,            \* QUEUE_BUFFER
  Batch,          \* BATCH_SIZE
  MaxAttempts,    \* MAX_PDF_ATTEMPTS
  MaxRun,         \* MAX_RUN, 0 for no limit
  FailLimit,      \* WORKER_UNEXPECTED_FAIL_LIMIT
  Keep,           \* KEEP_PDF_ON_DISK
  Explicit,       \* started with --ids (all of Act) instead of the DB queue
  Scanned,        \* acts whose PDF has no text layer
  MaxFaults,      \* faults of each run: failed statements, exceptions, time-outs
  MaxLeft         \* workers at work when the next run starts

ASSUME PoolAssumption ==
  /\ NoAct \notin Act
  /\ IsFiniteSet(Act) /\ IsFiniteSet(Worker)
  /\ Runs \in Nat \ {0} /\ RunOf \in [Worker -> 1..Runs]
  /\ \A r \in 1..Runs : \E w \in Worker : RunOf[w] = r
  /\ Extractor # {}
  /\ Cap \in Nat \ {0} /\ Batch \in Nat \ {0} /\ MaxAttempts \in Nat
  /\ MaxRun \in Nat /\ FailLimit \in Nat \ {0}
  /\ MaxFaults \in [1..Runs -> Nat] /\ MaxLeft \in Nat
  /\ Keep \in BOOLEAN /\ Explicit \in BOOLEAN /\ Scanned \subseteq Act

Run == 1..Runs

VARIABLES
  downloaded, attempts, text,    \* columns of acts
  file,                          \* the PDF of an act on disk
  buf, deferred,                 \* SharedActQueue of each run: copies of each act
  loading, exhausted, consumed,  \* its flags, and explicitConsumed
  fetched,                       \* a result set on its way from Postgres
  wpc, hand, bad,                \* download workers: place, act, exceptions
  queue, closed,                 \* BoundedQueue of the current run
  xpc, item,                     \* its extract workers: place, act
  unlinks,                       \* unlink() calls under way
  cur, stage,                    \* the current run and where it is
  todo,                          \* rows of the resume step still to do
  stop, seen,                    \* stopRequested and totalSeen of each run
  halt,                          \* _supervisorStopRequested
  faults,                        \* faults of the run so far
  alone                          \* history: no worker was left when the run began

acts    == <<downloaded, attempts, text>>
source  == <<buf, deferred, loading, exhausted, consumed, fetched>>
workers == <<wpc, hand, bad>>
extract == <<queue, xpc, item>>
run     == <<cur, stage, todo, stop, seen, halt, alone>>
vars    == <<acts, file, source, workers, extract, closed, unlinks, run, faults>>

WorkerPlace    == {"off", "loop", "claim", "fetch", "fetched", "get", "write", "mark",
                   "markfail", "push", "done", "crashed"}
ExtractorPlace == {"shift", "extract", "good", "bad", "done"}
Stage          == {"down", "drain", "pool", "closing", "fatal", "returned", "threw",
                   "leased"}

TypeOK ==
  /\ downloaded \in [Act -> BOOLEAN]
  /\ attempts \in [Act -> Nat]
  /\ text \in [Act -> {"none", "text", "failed"}]
  /\ file \in [Act -> {"none", "partial", "whole"}]
  /\ buf \in [Run -> [Act -> Nat]] /\ deferred \in [Run -> [Act -> Nat]]
  /\ loading \in [Run -> BOOLEAN] /\ exhausted \in [Run -> BOOLEAN]
  /\ consumed \in [Run -> BOOLEAN] /\ fetched \in [Run -> SUBSET Act]
  /\ wpc \in [Worker -> WorkerPlace]
  /\ hand \in [Worker -> Act \cup {NoAct}]
  /\ bad \in [Worker -> 0..FailLimit]
  /\ queue \in Seq(Act) /\ closed \in BOOLEAN
  /\ xpc \in [Extractor -> ExtractorPlace]
  /\ item \in [Extractor -> Act \cup {NoAct}]
  /\ unlinks \in SUBSET Act
  /\ cur \in Run /\ stage \in Stage /\ todo \in SUBSET Act
  /\ stop \in [Run -> BOOLEAN] /\ seen \in [Run -> Nat]
  /\ halt \in BOOLEAN /\ alone \in BOOLEAN /\ faults \in Nat

NoCopies == [a \in Act |-> 0]
Each(v)  == [r \in Run |-> v]

Init ==
  /\ downloaded = [a \in Act |-> FALSE]
  /\ attempts = [a \in Act |-> 0]
  /\ text = [a \in Act |-> "none"]
  /\ file = [a \in Act |-> "none"]
  /\ cur = 1 /\ stage = "down"
  /\ buf = Each(NoCopies) /\ deferred = Each(NoCopies) /\ fetched = Each({})
  /\ loading = Each(FALSE) /\ exhausted = Each(FALSE) /\ consumed = Each(FALSE)
  /\ wpc = [w \in Worker |-> "off"] /\ hand = [w \in Worker |-> NoAct]
  /\ bad = [w \in Worker |-> 0]
  /\ queue = <<>> /\ closed = FALSE
  /\ xpc = [x \in Extractor |-> "shift"] /\ item = [x \in Extractor |-> NoAct]
  /\ unlinks = {} /\ todo = {} /\ stop = Each(FALSE) /\ seen = Each(0)
  /\ halt = FALSE /\ alone = TRUE /\ faults = 0
-----------------------------------------------------------------------------
(* Mistakes the properties must notice. *)

\* A SELECT without the limit on attempts.
EligibleForever(a) == ~downloaded[a]

\* A SELECT that leaves out the acts some worker has in hand.
SelectedOutsideHands(r) ==
  LET free == {a \in Act : /\ ~downloaded[a] /\ attempts[a] < MaxAttempts
                           /\ \A w \in Worker : hand[w] # a}
  IN {T \in SUBSET free :
        Cardinality(T) = IF Cardinality(free) < Batch THEN Cardinality(free) ELSE Batch}

\* A start without the resume step.
PendingNever == {}

\* A push that waits for ever on a closed queue.
PushThrowsNever(w) == FALSE /\ UNCHANGED vars
-----------------------------------------------------------------------------
Add(b, a) == [b EXCEPT ![a] = @ + 1]
Fault == faults < MaxFaults[cur] /\ faults' = faults + 1
NoFault == UNCHANGED faults

ShouldStop(r) == stop[r] \/ (MaxRun > 0 /\ seen[r] >= MaxRun)

\* selectPendingPdf: what the download queue in the table consists of.
Eligible(a) == ~downloaded[a] /\ attempts[a] < MaxAttempts

\* The result of fetchBatch: a batch of the table, or all the ids, once.
BatchOf(S) ==
  {T \in SUBSET S : Cardinality(T) = IF Cardinality(S) < Batch THEN Cardinality(S) ELSE Batch}
Selected(r) ==
  IF Explicit THEN {IF consumed[r] THEN {} ELSE Act}
  ELSE BatchOf({a \in Act : Eligible(a)})

\* What pdftotext makes of the file as it is now.
Readable(a) == file[a] = "whole" /\ a \notin Scanned
-----------------------------------------------------------------------------
(* Process and run. *)

\* The queue and the extract workers of a run that has not reached its pool.
NewRun ==
  /\ queue' = <<>> /\ closed' = FALSE
  /\ xpc' = [x \in Extractor |-> "shift"] /\ item' = [x \in Extractor |-> NoAct]
  /\ todo' = {} /\ faults' = 0

\* The memory of a process without a run.
Blank ==
  /\ NewRun
  /\ buf' = Each(NoCopies) /\ deferred' = Each(NoCopies) /\ fetched' = Each({})
  /\ loading' = Each(FALSE) /\ exhausted' = Each(FALSE) /\ consumed' = Each(FALSE)
  /\ wpc' = [w \in Worker |-> "off"] /\ hand' = [w \in Worker |-> NoAct]
  /\ bad' = [w \in Worker |-> 0]
  /\ unlinks' = {} /\ stop' = Each(FALSE) /\ seen' = Each(0)
  /\ cur' = 1 /\ halt' = FALSE /\ alone' = TRUE

\* A process starts, and its first run.
RunStarts ==
  /\ stage = "down"
  /\ Blank /\ stage' = "drain"
  /\ UNCHANGED <<acts, file>>

InPool(w) == RunOf[w] = cur
Idle(w)   == wpc[w] \in {"off", "done", "crashed"}

\* The supervisor starts the next run after one that threw (with --ids only if the
\* keys were leased). Workers it left behind, and unlinks under way, are not
\* waited for.
Restart ==
  /\ stage = "leased" \/ (stage = "threw" /\ ~Explicit)
  /\ ~halt /\ cur < Runs /\ Cardinality({w \in Worker : ~Idle(w)}) <= MaxLeft
  /\ NewRun /\ cur' = cur + 1 /\ stage' = "drain"
  /\ alone' = \A w \in Worker : Idle(w)
  /\ UNCHANGED <<acts, file, source, workers, unlinks, stop, seen, halt>>

\* kill -9, or the process exits after its last run: statements not yet sent
\* and writes half done are lost.
Crash ==
  /\ stage # "down"
  /\ Blank /\ stage' = "down"
  /\ UNCHANGED <<acts, file>>

Pending == {a \in Act : downloaded[a] /\ text[a] = "none"}

\* selectPendingText, again until it finds nothing; then the pool.
DrainSelect ==
  /\ stage = "drain" /\ todo = {}
  /\ todo' = Pending
  /\ IF Pending = {}
       THEN /\ stage' = "pool"
            /\ wpc' = [w \in Worker |-> IF InPool(w) THEN "loop" ELSE wpc[w]]
            /\ bad' = [w \in Worker |-> IF InPool(w) THEN 0 ELSE bad[w]]
       ELSE UNCHANGED <<stage, wpc, bad>>
  /\ UNCHANGED <<acts, file, source, hand, extract, closed, unlinks,
                 cur, stop, seen, halt, alone, faults>>

DrainOne(a) ==
  /\ stage = "drain" /\ a \in todo
  /\ todo' = todo \ {a}
  /\ text' = [text EXCEPT ![a] = IF Readable(a) THEN "text" ELSE "failed"]
  /\ UNCHANGED <<downloaded, attempts, file, source, workers, extract, closed, unlinks,
                 cur, stage, stop, seen, halt, alone, faults>>

\* A failing statement: swallowed when the file is missing, fatal otherwise.
DrainFails(a) ==
  /\ stage = "drain" /\ a \in todo /\ Fault
  /\ todo' = IF file[a] = "none" THEN todo \ {a} ELSE {}
  /\ stage' = IF file[a] = "none" THEN "drain" ELSE "threw"
  /\ UNCHANGED <<acts, file, source, workers, extract, closed, unlinks,
                 cur, stop, seen, halt, alone>>

\* createPdfPool throws (all keys leased, no worker came up).
PoolFails ==
  /\ stage = "drain" /\ todo = {} /\ Fault
  /\ stage' \in {"leased", "threw"}
  /\ UNCHANGED <<acts, file, source, workers, extract, closed, unlinks,
                 cur, todo, stop, seen, halt, alone>>

\* Each run registers its handlers on its way to the pool and never removes them.
Listening(r) == r < cur \/ (r = cur /\ stage # "drain")

\* SIGINT or SIGTERM: the supervisor and every run that listens take note. All of
\* them listen once; a signal nobody listens to ends the process.
StopSignal ==
  /\ stage # "down"
  /\ ~halt \/ \E r \in Run : Listening(r) /\ ~stop[r]
  /\ halt' = TRUE
  /\ stop' = [r \in Run |-> stop[r] \/ Listening(r)]
  /\ closed' = (closed \/ stage = "pool")
  /\ UNCHANGED <<acts, file, source, workers, extract, unlinks,
                 cur, stage, todo, seen, alone, faults>>

Settled(w) == wpc[w] \in {"done", "crashed"}

\* All workers settled: finally closes the queue.
PoolSettles ==
  /\ stage = "pool"
  /\ \A w \in Worker : InPool(w) => Settled(w)
  /\ closed' = TRUE /\ stage' = "closing"
  /\ UNCHANGED <<acts, file, source, workers, extract, unlinks,
                 cur, todo, stop, seen, halt, alone, faults>>

\* The no-progress watchdog wins the race against the pool: finally closes the
\* queue while workers are anywhere in their loops.
Watchdog ==
  /\ stage = "pool" /\ ~ShouldStop(cur)
  /\ closed' = TRUE /\ stage' = "fatal"
  /\ UNCHANGED <<acts, file, source, workers, extract, unlinks,
                 cur, todo, stop, seen, halt, alone, faults>>

\* The extract workers are done too. After the watchdog, or with all workers
\* rejected, runPipeline throws.
RunEnds ==
  /\ stage \in {"closing", "fatal"}
  /\ \A x \in Extractor : xpc[x] = "done"
  /\ stage' = IF stage = "fatal" \/ \A w \in Worker : InPool(w) => wpc[w] = "crashed"
                THEN "threw" ELSE "returned"
  /\ UNCHANGED <<acts, file, source, workers, extract, closed, unlinks,
                 cur, todo, stop, seen, halt, alone, faults>>
-----------------------------------------------------------------------------
(* A download worker. *)

At(w, place) == wpc[w] = place
Go(w, place) == wpc' = [wpc EXCEPT ![w] = place]
Empty(w)     == hand' = [hand EXCEPT ![w] = NoAct]

\* The catch of the loop body: pause and go on, or give the worker up.
Unexpected(w) ==
  /\ bad' = [bad EXCEPT ![w] = @ + 1]
  /\ Go(w, IF bad[w] + 1 >= FailLimit THEN "crashed" ELSE "loop")
  /\ Empty(w)

Loop(w) ==
  /\ At(w, "loop")
  /\ Go(w, IF ShouldStop(RunOf[w]) THEN "done" ELSE "claim")
  /\ UNCHANGED <<acts, file, source, hand, bad, extract, closed, unlinks, run, faults>>

\* Claimed: count it, and stop beyond MAX_RUN.
Got(w, a) ==
  /\ seen' = [seen EXCEPT ![RunOf[w]] = IF MaxRun = 0 THEN 0 ELSE @ + 1]
  /\ IF MaxRun > 0 /\ seen[RunOf[w]] + 1 > MaxRun
       THEN Go(w, "done") /\ UNCHANGED hand
       ELSE Go(w, "get") /\ hand' = [hand EXCEPT ![w] = a]

\* claimNext: from the buffer.
Claim(w) ==
  /\ At(w, "claim")
  /\ \E a \in Act : /\ buf[RunOf[w]][a] > 0
                    /\ buf' = [buf EXCEPT ![RunOf[w]][a] = @ - 1]
                    /\ Got(w, a)
  /\ UNCHANGED <<acts, file, deferred, loading, exhausted, consumed, fetched, bad,
                 extract, closed, unlinks, cur, stage, todo, stop,
                 halt, alone, faults>>

\* claimNext: null.
NothingLeft(w) ==
  /\ At(w, "claim") /\ buf[RunOf[w]] = NoCopies /\ exhausted[RunOf[w]]
  /\ Go(w, "done")
  /\ UNCHANGED <<acts, file, source, hand, bad, extract, closed, unlinks, run, faults>>

\* claimNext: nobody is loading, so this worker asks for a batch.
Fetch(w) ==
  /\ At(w, "claim") /\ buf[RunOf[w]] = NoCopies
  /\ ~exhausted[RunOf[w]] /\ ~loading[RunOf[w]]
  /\ loading' = [loading EXCEPT ![RunOf[w]] = TRUE]
  /\ Go(w, "fetch")
  /\ UNCHANGED <<acts, file, buf, deferred, exhausted, consumed, fetched, hand, bad,
                 extract, closed, unlinks, run, faults>>

\* Postgres executes the SELECT; the rows are under way.
Select(w) ==
  /\ At(w, "fetch")
  /\ \E T \in Selected(RunOf[w]) : fetched' = [fetched EXCEPT ![RunOf[w]] = T]
  /\ consumed' = [consumed EXCEPT ![RunOf[w]] = @ \/ Explicit]
  /\ Go(w, "fetched")
  /\ UNCHANGED <<acts, file, buf, deferred, loading, exhausted, hand, bad,
                 extract, closed, unlinks, run, faults>>

\* The new buffer: the rows that are not deferred, and the deferred copies.
Refill(r) ==
  [a \in Act |-> IF a \in fetched[r] /\ deferred[r][a] = 0 THEN 1 ELSE deferred[r][a]]

\* The rows arrive: refill the buffer and take from it, or the source is dry.
Fetched(w) ==
  /\ At(w, "fetched")
  /\ loading' = [loading EXCEPT ![RunOf[w]] = FALSE]
  /\ fetched' = [fetched EXCEPT ![RunOf[w]] = {}]
  /\ deferred' = [deferred EXCEPT ![RunOf[w]] = NoCopies]
  /\ IF Refill(RunOf[w]) = NoCopies
       THEN /\ exhausted' = [exhausted EXCEPT ![RunOf[w]] = TRUE] /\ Go(w, "done")
            /\ UNCHANGED <<buf, hand, seen>>
       ELSE /\ \E a \in Act :
                 /\ Refill(RunOf[w])[a] > 0
                 /\ buf' = [buf EXCEPT ![RunOf[w]] = [Refill(RunOf[w]) EXCEPT ![a] = @ - 1]]
                 /\ Got(w, a)
            /\ UNCHANGED exhausted
  /\ UNCHANGED <<acts, file, consumed, bad, extract, closed, unlinks, cur, stage, todo, stop,
                 halt, alone, faults>>

\* All retries of the SELECT failed. explicitConsumed stays set.
FetchFails(w) ==
  /\ At(w, "fetch") /\ Fault
  /\ loading' = [loading EXCEPT ![RunOf[w]] = FALSE]
  /\ consumed' = [consumed EXCEPT ![RunOf[w]] = @ \/ Explicit]
  /\ Unexpected(w)
  /\ UNCHANGED <<acts, file, buf, deferred, exhausted, fetched, extract, closed, unlinks, run>>
-----------------------------------------------------------------------------
(* Outcomes of downloadAndSave and what the worker makes of them. *)

\* infra, 451, pravocaptcha, probation trigger, slow proxy: deferAct.
GetDeferred(w) ==
  /\ At(w, "get")
  /\ deferred' = [deferred EXCEPT ![RunOf[w]] = Add(@, hand[w])]
  /\ Go(w, "loop") /\ Empty(w)
  /\ UNCHANGED <<acts, file, buf, loading, exhausted, consumed, fetched, bad,
                 extract, closed, unlinks, run, faults>>

\* Recoverable otherwise: the copy is dropped, the row stays in the table's queue.
GetSkipped(w) ==
  /\ At(w, "get")
  /\ Go(w, "loop") /\ Empty(w)
  /\ UNCHANGED <<acts, file, source, bad, extract, closed, unlinks, run, faults>>

GetThrows(w) ==
  /\ At(w, "get") /\ Fault
  /\ Unexpected(w)
  /\ UNCHANGED <<acts, file, source, extract, closed, unlinks, run>>

GetFails(w) ==
  /\ At(w, "get")
  /\ Go(w, "markfail")
  /\ UNCHANGED <<acts, file, source, hand, bad, extract, closed, unlinks, run, faults>>

\* markPdfFailed; an error of the statement is only logged.
MarkFailed(w) ==
  /\ At(w, "markfail")
  /\ \/ NoFault /\ attempts' = Add(attempts, hand[w])
     \/ Fault /\ UNCHANGED attempts
  /\ Go(w, "loop") /\ Empty(w)
  /\ UNCHANGED <<downloaded, text, file, source, bad, extract, closed, unlinks, run>>

\* writeFile truncates the file named after the act and writes it anew.
WriteStarts(w) ==
  /\ At(w, "get")
  /\ file' = [file EXCEPT ![hand[w]] = "partial"]
  /\ Go(w, "write")
  /\ UNCHANGED <<acts, source, hand, bad, extract, closed, unlinks, run, faults>>

Writers(a) == {w \in Worker : wpc[w] = "write" /\ hand[w] = a}

Written(w) ==
  /\ At(w, "write")
  /\ file' = [file EXCEPT ![hand[w]] = IF Writers(hand[w]) = {w} THEN "whole" ELSE @]
  /\ Go(w, "mark")
  /\ UNCHANGED <<acts, source, hand, bad, extract, closed, unlinks, run, faults>>

WriteThrows(w) ==
  /\ At(w, "write") /\ Fault
  /\ Unexpected(w)
  /\ UNCHANGED <<acts, file, source, extract, closed, unlinks, run>>

\* markPdfDownloaded; an error of the statement is only logged.
MarkDownloaded(w) ==
  /\ At(w, "mark")
  /\ \/ /\ NoFault
        /\ downloaded' = [downloaded EXCEPT ![hand[w]] = TRUE]
        /\ attempts' = Add(attempts, hand[w])
     \/ Fault /\ UNCHANGED <<downloaded, attempts>>
  /\ bad' = [bad EXCEPT ![w] = 0]
  /\ Go(w, "push")
  /\ UNCHANGED <<text, file, source, hand, extract, closed, unlinks, run>>

\* The queue of an earlier run is closed for good.
Open(w) == InPool(w) /\ ~closed

Push(w) ==
  /\ At(w, "push") /\ Open(w) /\ Len(queue) < Cap
  /\ queue' = Append(queue, hand[w])
  /\ Go(w, "loop") /\ Empty(w)
  /\ UNCHANGED <<acts, file, source, bad, xpc, item, closed, unlinks, run, faults>>

\* push throws on a closed queue: the worker returns.
PushThrows(w) ==
  /\ At(w, "push") /\ ~Open(w)
  /\ Go(w, "done") /\ Empty(w)
  /\ UNCHANGED <<acts, file, source, bad, extract, closed, unlinks, run, faults>>
-----------------------------------------------------------------------------
(* An extract worker: _extractWorker and _processOne. *)

Running == stage \in {"pool", "closing", "fatal"}

Shift(x) ==
  /\ Running /\ xpc[x] = "shift" /\ queue # <<>>
  /\ item' = [item EXCEPT ![x] = Head(queue)]
  /\ queue' = Tail(queue)
  /\ xpc' = [xpc EXCEPT ![x] = "extract"]
  /\ UNCHANGED <<acts, file, source, workers, closed, unlinks, run, faults>>

ShiftDone(x) ==
  /\ Running /\ xpc[x] = "shift" /\ queue = <<>> /\ closed
  /\ xpc' = [xpc EXCEPT ![x] = "done"]
  /\ UNCHANGED <<acts, file, source, workers, queue, item, closed, unlinks, run, faults>>

\* extractPdfText; it can also time out.
Extract(x) ==
  /\ Running /\ xpc[x] = "extract"
  /\ \/ NoFault /\ xpc' = [xpc EXCEPT ![x] = IF Readable(item[x]) THEN "good" ELSE "bad"]
     \/ Fault /\ xpc' = [xpc EXCEPT ![x] = "bad"]
  /\ UNCHANGED <<acts, file, source, workers, queue, item, closed, unlinks, run>>

Next1(x) == /\ xpc' = [xpc EXCEPT ![x] = "shift"]
            /\ item' = [item EXCEPT ![x] = NoAct]

\* markTextExtracted; an error is only logged, and the file goes all the same.
MarkExtracted(x) ==
  /\ Running /\ xpc[x] = "good"
  /\ \/ NoFault /\ text' = [text EXCEPT ![item[x]] = "text"]
     \/ Fault /\ UNCHANGED text
  /\ unlinks' = IF Keep THEN unlinks ELSE unlinks \cup {item[x]}
  /\ Next1(x)
  /\ UNCHANGED <<downloaded, attempts, file, source, workers, queue, closed, run>>

\* markExtractFailed; an error is only logged.
MarkExtractFailed(x) ==
  /\ Running /\ xpc[x] = "bad"
  /\ \/ NoFault /\ text' = [text EXCEPT ![item[x]] = "failed"]
     \/ Fault /\ UNCHANGED text
  /\ Next1(x)
  /\ UNCHANGED <<downloaded, attempts, file, source, workers, queue, closed, unlinks, run>>

\* fs.promises.unlink is not awaited.
Unlink(a) ==
  /\ a \in unlinks
  /\ unlinks' = unlinks \ {a}
  /\ file' = [file EXCEPT ![a] = "none"]
  /\ UNCHANGED <<acts, source, workers, extract, closed, run, faults>>
-----------------------------------------------------------------------------
Download(w) ==
  \/ Loop(w) \/ Claim(w) \/ NothingLeft(w) \/ Fetch(w) \/ Select(w) \/ Fetched(w)
  \/ FetchFails(w) \/ GetDeferred(w) \/ GetSkipped(w) \/ GetThrows(w) \/ GetFails(w)
  \/ MarkFailed(w) \/ WriteStarts(w) \/ Written(w) \/ WriteThrows(w)
  \/ MarkDownloaded(w) \/ Push(w) \/ PushThrows(w)

Extraction(x) ==
  \/ Shift(x) \/ ShiftDone(x) \/ Extract(x) \/ MarkExtracted(x) \/ MarkExtractFailed(x)

Next ==
  \/ RunStarts \/ Restart \/ Crash \/ DrainSelect \/ PoolFails
  \/ StopSignal \/ PoolSettles \/ Watchdog \/ RunEnds
  \/ \E a \in Act : DrainOne(a) \/ DrainFails(a) \/ Unlink(a)
  \/ \E w \in Worker : Download(w)
  \/ \E x \in Extractor : Extraction(x)

Spec == Init /\ [][Next]_vars

\* Awaited calls return: every worker goes on, and settled pools are closed.
Fairness ==
  /\ \A w \in Worker : WF_vars(Download(w))
  /\ \A x \in Extractor : WF_vars(Extraction(x))
  /\ WF_vars(PoolSettles) /\ WF_vars(RunEnds)

FairSpec == Spec /\ Fairness
-----------------------------------------------------------------------------
(* Properties. *)

\* MAX_PDF_ATTEMPTS is exceeded at most by the copies that were in flight, one for
\* each worker of the process, those of earlier runs that the watchdog left behind
\* included, unless the acts were named (--ids): nobody asks for their attempts.
AttemptsBounded ==
  ~Explicit => \A a \in Act : attempts[a] <= MaxAttempts + Cardinality(Worker) - 1

\* "The table is empty, no more acts" is final for the source of any run: rows
\* whose download is under way or deferred keep it open, since they are still
\* rows of the table's queue.
SourceComplete ==
  \A r \in Run : exhausted[r] /\ ~Explicit => \A a \in Act : ~Eligible(a)

\* What makes SourceComplete inductive: at most one worker of a run loads, and an
\* empty batch on its way means that the table has nothing left, for acts never
\* become eligible again while a pool runs.
Loads(w) == wpc[w] \in {"fetch", "fetched"}
OneLoader ==
  /\ \A w \in Worker : Loads(w) => loading[RunOf[w]]
  /\ \A v, w \in Worker : Loads(v) /\ Loads(w) /\ RunOf[v] = RunOf[w] => v = w
EmptyBatch ==
  \A w \in Worker : wpc[w] = "fetched" /\ fetched[RunOf[w]] = {} /\ ~Explicit =>
    \A a \in Act : ~Eligible(a)

\* Workers hold an act where they need one, and one that has not given up is
\* below its limit of exceptions.
WorkersReady ==
  \A w \in Worker :
    /\ wpc[w] \in {"get", "write", "mark", "markfail", "push"} => hand[w] \in Act
    /\ wpc[w] # "crashed" => bad[w] < FailLimit
ExtractorsReady ==
  \A x \in Extractor : xpc[x] \in {"extract", "good", "bad"} => item[x] \in Act

HandsFull == WorkersReady /\ ExtractorsReady

PoolInv == TypeOK /\ HandsFull /\ OneLoader /\ EmptyBatch /\ SourceComplete

\* A run that returned without faults, stop or limit.
CleanReturn ==
  /\ stage = "returned" /\ faults = 0 /\ ~stop[cur] /\ ~Explicit
  /\ MaxRun = 0 \/ seen[cur] < MaxRun

NothingUndone == \A a \in Act : ~Eligible(a) /\ (downloaded[a] => text[a] # "none")

\* Such a run leaves nothing undone, also of what crashed, stopped or faulty runs
\* before it left half done, if no worker of an earlier run was still at work
\* when it began.
CleanRunCompletes == CleanReturn /\ alone => NothingUndone

\* The same after any restart, which a comment calls a clean one. The code does
\* not keep it: a worker the watchdog left behind marks its act downloaded after
\* the resume step of the next run, and its own queue is closed (README, 5).
RestartIsClean == CleanReturn => NothingUndone

\* A stop signal ends the run: no worker stays blocked on a full queue and no
\* extract worker on an empty one.
StopEnds == stage = "pool" /\ stop[cur] ~> stage \in {"returned", "threw", "down"}

\* Two more promises the code does not keep (README, section 5).
\* "No text can be got out of this PDF" is never written over the text.
TextKept == [][\A a \in Act : text[a] = "text" => text'[a] = "text"]_vars

\* The resume step sends an act whose file is gone back to the download queue.
MissingIsRequeued ==
  [][\A a \in Act : /\ stage = "drain" /\ a \in todo /\ file[a] = "none"
                    /\ text'[a] = "failed"
                    => ~downloaded'[a]]_vars
=============================================================================
