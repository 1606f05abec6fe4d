# A verification project for RAS Search / Supply

TLA+ models of the stateful parts of this repository, TLC runs that check them
on small instances, and TLAPS proofs of what matters most for every instance.
Paths below are relative to `src/`; `PROJECT.json` maps every definition to the
lines it stands for.

## 1. The system

The program collects decisions of the Russian arbitration courts and makes them
searchable. It is a set of processes that never call each other directly; they
meet in Postgres, in Qdrant and on the disk.

    parser.js ----> acts, decision_links -----+
      |  \                                    |
      |   +-- proxy_leases <--+               v
      |                       |          acts.pdf_*      acts.vector_status
      +-- cleanup-invalid     +-- download-acts.js ----> embed/worker.js --> Qdrant
                                  (PDF pipeline)   text        ^               |
                                                               | priority flag |
    telegram bot / web --HTTP--> search-api.js ----------------+---------------+

| Component | State | Operations | Interacts by |
|---|---|---|---|
| Proxy leases (`backend/db/proxyLeases.js`) | `proxy_leases(proxy_key, role, holder_id, expires_at)` | tryAcquire, acquireMany, renewAll (heartbeat), releaseAll, releaseDeadLocal, releaseExpiredGlobal, releaseOneKey | rows shared by parser, pipeline and operator |
| Supervisor (`backend/tools/download-acts.js`) | restart counters | main loop, back-off, waiting for leased pools | restarts `runPipeline` inside its own process |
| PDF pipeline (`backend/pdf/pipeline.js`) | SharedActQueue, BoundedQueue, counters, `acts.pdf_downloaded`, `pdf_attempts`, `act_text` | resume, claim, download, mark, push, extract, unlink, stop | Postgres, PDF files, promises |
| Downloader (`backend/pdf/downloader.js`) | browser, session, probation, recovery stage | downloadAndSave, recovery ladders, createPdfPool | proxies, kad.arbitr.ru, files |
| Quarantine, geo blacklist, health (`backend/pdf/proxy*.js`, `badGeoBlacklist.js`) | windows and cool-downs by key | recordInfra, recordSuccess, isQuarantined | called by the download workers |
| Acts repository (`backend/db/actsRepo.js`) | `acts` | selectors and marks of both queues, repairs | every process |
| Embedding worker (`backend/embed`, `backend/indexing`) | advisory lock, `vector_status`, points in Qdrant | recover, repair, short phase, long phase, rebuild, budgeted indexer | Postgres, Qdrant, inference |
| Clean-up of invalid acts (`backend/db/cleanupInvalidActs.js`) | none of its own | select, delete points, unlink, reset | runs beside indexer and pipeline |
| Parser (`backend/parser.js`, `ops/run-parser-supervised.sh`) | position in days and pages, `parser_state.json`, filters of the page, the Map of acts with their verdicts | walk, recovery, recycle of the browser, verdict resolution, save, checkpoint | proxies, Postgres, leases |
| Network (`backend/network`) | proxy pool, escalation level | rotate IP, equipment, geo, operator | parser, downloader |
| Search (`backend/search`, `embed/retrieval.js`, `rerank.js`) | `search_reports`, `runtime_flags` | search, fill a report, recover stale reports, take and give back the search-priority lease | Qdrant, inference, Postgres |
| Inference (`backend/inference`) | lazily loaded models, the lock of the GPU, the lock of the reranker | embed, rerank, load and unload the reranker, transcribe | HTTP |
| Telegram bot (`frontend/telegram/bot.js`) | offset of the updates, queue of searches, pending text and lock of each chat | poll, dispatch, enqueue, cancel, confirm a voice query | Telegram, HTTP to search |
| Web front end (`frontend/web`) | none | static pages, a proxy to the search API | HTTP to search |

What is hard in this code:

* **Two processes on one proxy** rotate each other's IP and operator. The lease
  table excludes it only through timing: a row is protected as long as its
  holder renews it in time, heartbeats start late (after the browsers'
  pre-flight, which has no time limit), fail, arrive after their sender is gone,
  and three different clean-ups delete rows of others.
* **Restart in the same process**: the supervisor runs `runPipeline` again under
  a new holder id, with browsers, rows and promises of the old run still there:
  its no-progress watchdog ends a run while the workers are at work, and nothing
  stops them.
* **State read before an await and used after it**: the batch of acts, the
  `MAX_RUN` counter, pids judged dead, acts to clean up.
* **Columns, files and memory change one after the other**: a crash or a failed
  statement between any two of them is met by the resume step.
* **Recovery inside recovery**: a download worker whose proxy turns bad rotates,
  searches another country, restarts its browser, sleeps and is woken, with one
  act in hand, counters of five kinds and a blacklist shared with the others;
  the parser has a ladder of its own around every page.
* **A listing that forgets**: the site drops filters between a click and its
  answer, pages after the first are posted from a template captured earlier, and
  a checkpoint says what need not be read again after a crash.
* **One GPU**: searches, the embedding worker and the loading and unloading of
  the reranker meet in two locks, an expiring lease and calls whose clients are
  gone.
* **Blocking**: a bounded queue between producers and consumers, closed by a
  signal while some of both wait; a search slot held by an upload without a limit.
* **Failed, and done all the same**: a statement or a request whose connection is
  lost or whose time is up may have been executed; the code takes it for undone.

For each modelled component the properties that make it correct are in section 3;
the full list of hazards with their lines is in `PROJECT.json`.

## 2. Modules

| Module | Models | Kind |
|---|---|---|
| `ProxyExclusion` | what the lease table promises: at most one user of a proxy | abstract specification |
| `ProxyLeases` | the table, its statements, the heartbeat, and the life cycle of the runs of parser and pipeline | detailed specification, implements `ProxyExclusion` |
| `ProxyLeasesProofs` | theorems about `ProxyLeases` | TLAPS |
| `BoundedQueue` | the queue between download and extract workers, turn by turn | detailed specification |
| `BoundedQueueProofs` | theorems about `BoundedQueue` | TLAPS |
| `DownloadPool` | the runs of `runPipeline` in one process: resume, shared source, download workers, extract workers, watchdog, columns of `acts`, PDF files | detailed specification |
| `DownloadPoolProofs` | theorems about `DownloadPool` | TLAPS |
| `ActIndexing` | `acts.vector_status` and the points in Qdrant: embedding worker, clean-up of invalid acts, verdicts, texts | detailed specification |
| `ActIndexingProofs` | theorems about `ActIndexing` | TLAPS |
| `DownloadWorker` | the loop of one download worker: `downloadAndSave` with its attempts and session, breaker, quarantine, probation, stop | detailed specification |
| `GeoRecovery` | `_recoverByGeoLoop` of several workers, the blacklist they share, the provider's offers, the preflight | detailed specification |
| `RecoveryProofs` | theorems about `DownloadWorker` and `GeoRecovery` | TLAPS |
| `Parser` | the walk over days and pages, filters, recoveries, recycled browsers, checkpoint, supervisor | detailed specification |
| `CaseVerdicts` | the verdict resolver and the rows it leaves, for one case | detailed specification, pure functions checked over all orders |
| `ParserProofs` | theorems about `Parser` and `CaseVerdicts` | TLAPS |
| `SearchReports` | `search_reports` under concurrent fills, restarts and the recovery at a start | detailed specification |
| `SearchPriority` | searches, the search-priority lease, the locks of the inference service, the embedding worker | detailed specification |
| `SearchProofs` | theorems about `SearchReports` and `SearchPriority` | TLAPS |
| `TelegramBot` | polling, the queue of searches, voice confirmation, cancel, uploads that hang, crash, supervisor | detailed specification |
| `TelegramBotProofs` | theorems about `TelegramBot` | TLAPS |
| `MCProxyLeases`, `MCDownloadPool`, `MCActIndexing`, `MCGeoRecovery`, `MCParser`, `MCCaseVerdicts` | values of constants, symmetry | model checking |

The modules meet where the processes meet, and each takes from its neighbour
only what the neighbour's checks show. `DownloadPool` sees a download as the set
of its outcomes, `DownloadWorker` is what happens inside one; it sees a recovery
as its result, `GeoRecovery` is what happens inside that. `DownloadWorker`
relies on one fact of `GeoRecovery`: a search until success fails only when the
run stops. `Parser` saves pages, `CaseVerdicts` says what a save writes, and
`ActIndexing` what the clean-up after it does to a row.

Two neighbours share a proof module, which extends both. That is why the second
of each pair has names with a prefix (`GeoSpec`, `VerdictSpec`, `PrioritySpec`),
and the first the plain `Spec`.

### ProxyLeases

A *holder* is one value of `makeHolderId()`: one call of `runPipeline`, or one
attempt of the parser. `row` is the table; instead of the absolute `expires_at`
a row has the time it has `left`, because every statement compares it with
`NOW()` only. `pc[h]` follows `createPdfPool` and `runPipeline` (or the attempts
of `parser.js`): `sweep` (releaseExpiredGlobal), `list` and `purge` (the two
statements of releaseDeadLocal), `claim` (acquireMany, one `tryAcquire` per
step), `setup` (browsers and pre-flight, proxies in use and no heartbeat yet),
`run`, `release`, `ended`. `using[h]` are the proxies its browsers send traffic
through. Renewals are a message in flight (`inflight`): it is executed, late or
early, or lost. `Crash` kills a process with all its runs; `Tick` is the clock.

`Tick` has no guard: the clock goes on however long a pre-flight lasts and however
many renewals are lost. A row that runs out while its run is active puts the key
into `lapsed[h]` until a renewal that still finds the row (`renewAll` extends an
expired one too) takes it out. `Sends(h, k)` says that a run sends traffic through
a key, `Uses(h, k)` that it does so with the right to, its row not having lapsed.

Some use of a proxy is uncoordinated by decision of the code: when `acquireMany`
fails, its answer is lost whole and the pipeline "goes on without coordination"
with every key it had asked for, those it had found `busy` included; and an
operator may delete a row by hand. Those keys are in `unbacked` and the exclusion
properties say nothing about them.

### BoundedQueue

Calls run to their first `await`; a pusher whose promise was resolved is in
`woken` until its microtask runs. With `SameTurn = FALSE` calls arrive in turns
of their own (they come from I/O callbacks), which is how the pipeline uses the
class. `accepted` and `delivered` are history variables.

### DownloadPool

The state is the columns of `acts` that make up the download queue, the PDF
files (`none`, `partial`, `whole`), the shared source (`buf`, `deferred`, the
flags), the worker's place in its loop, the queue, the extract workers,
`unlink` calls under way, and where `runPipeline` is. `downloadAndSave` is the
set of its outcomes: deferred, skipped, failed, thrown, or written (in two
steps). All the recovery a worker goes through is the time it spends in its
loop. Order among the acts in the buffer is left out, so `buf` and `deferred` are
bags.

A process makes up to `Runs` runs, one after the other: `cur` is the one
`runPipeline` is in, `RunOf` says to which run a worker belongs, and source,
`stop` and `seen` exist once for each run. `Watchdog` wins the race against the
pool at any time: the queue is closed, the extract workers finish, `runPipeline`
throws (`RunEnds`), and `Restart` begins the next run while workers of the run
before are anywhere in their loops. They go on with the source of their own run,
write the same columns and files, and are rejected by the closed queue. `alone` is
history: no such worker was left when the run began. A signal reaches the
supervisor (`halt`) and each run whose handlers are registered; the handlers of a
run are never taken off, so leftover workers see it too.

Faults (a failing statement, an exception, a pdftotext time-out) are counted in
`faults`, up to `MaxFaults[r]` in run r; `MaxLeft` bounds how many workers are
left behind at a restart. Crashes, stop signals and the watchdog are not counted.

`SharedActQueue` and `fetchBatch` are read in full detail because the batch is
read while other acts are in flight: an act may be in memory several times.

### ActIndexing

`text`, `counted`, `long`, `status` and `keep` are the columns `act_text`,
`tokens_jina_v4`, `is_long_act`, `vector_status` and `verdict_keep`, and
`points[a]` is what Qdrant holds of an act: `Full` for a short one, its chunks
for a long one. `kind[a]` is the length of the text, which is a fact about the
document; whether the row knows it is `counted`. A *border* act is short by
`/count_tokens` and long by `/embed`, which puts a prefix before the text.

`up` and `at[a]` follow `embed/worker.js`: recovery at the start, the repairs,
then a short phase (batch pulled, embedded in parts, checked, uploaded, marked)
or a long phase (verdict, old points deleted, embedded, verdict again, chunks
uploaded one after the other, marked). The worker holds an advisory lock, so
there is one; a restart is `Start`, which returns 'indexing' rows to the queue.
Each mark in an error handler may fail too and is swallowed: the row then stays
'indexing' until the next start (`Lost`).

The parser changes verdicts (`Save`) and then cleans up, in the order of
`cleanupInvalidActs`: read all rows, and for each of them delete the points,
then reset the row. `todo`, `hard`, `clearing` are what it holds in memory
between those statements. The PDF pipeline writes texts at any time, also over
a row that was reset or is being indexed. `leaked` and `torn` are history: points
left because the deletion for a pending row failed and the code goes on, and
rows of which the points are gone but the reset did not happen. A deletion that
fails may have taken effect (its request may be aborted after Qdrant has deleted):
an indexed row is then left as it was, without points, and is `torn`.

`stale` is the status 'error' when a verdict guard wrote it; no guard tells the
two apart. A text whose extraction failed counts as no text. The three ranges of
long acts are one, and waiting for a full batch, memory, health or searches is
time spent idle. `RAS_ENABLE_CHUNK_INDEXING` is on.

### DownloadWorker

`pc` is the place in `_downloadWorker` and, while an act is in hand, in
`downloadAndSave`; `why` is the branch that asked for the recovery under way.
`session` is the browser: none after a failed restart, cold, ready, or serving
PDFs over plain HTTP. The five counters of the loop are variables, the
registry's windows and its cool-down are `events` and `cooldown`. Each of the
handlers of a result (`OnInfra`, `OnGate`, `On451`, `OnTriggerFirst`, ...) is an
action, in the order of the code: the act is given back, an event recorded, a
recovery asked for, a decision taken on its result. Events leave the window and
cool-downs run out at any time. A worker owns its proxy, so one worker shows all
of its loop; `single` says whether the pipeline has others, which decides whether
it may give up.

### GeoRecovery

`geo[w]` is where the provider has the proxy of a worker, `sig[w]` where the
downloader believes it is, and `badGeo`, `badOp` are the shared blacklist.
`Offers` is the provider's list, best first; `Pick` is the choice of `changeGeo`.
A search goes `rotate` (rotateIp in the geo it is in), `round` (filters taken
from the blacklist), `change` (the provider works), `arrive` (address and probe),
`restart` (browser), `pause`. Offers that answer the probe are `Healthy`; other
failures and the expiry of entries are faults; a change whose answer is lost may
have moved the proxy. `burnt` is history: the geos in which a proxy really was when
an address failed its search for good, or the change to which was refused, until
the entry expires or the list is emptied. It is set from `geo[w]`, while the code
marks what it believes (`target[w]`). A stop arrives only after the
preflight, because the preflight is given a stop flag that is never true.

### Parser

One action per page step: category, "find", the two filters above the listing,
the look at what the page shows, then POST requests for the later pages. `on` is
what is set in the page of the site, `listing` the filters of the answer in hand,
`template` those of the captured request. `attempt`, `round`, `gate`, `flap` and
`escalated` decide, as in `_walkPagesForBody`, between another attempt, a change
of address, a recycled browser and a recovery of the listing. `file` is
`parser_state.json`. A process ends by the watchdog, an uncaught exception, a kill
or a signal; the supervisor starts it again except after a signal or a clean end,
when the operator does and may decline the checkpoint. A session that is not up
makes the process throw; one whose request body cannot be parsed in five tries
makes it walk no window and exit with success (`quit`), which nobody answers to. `excused` and `resumed`
are history: days in which the code gave up on the listing, and days that were
not begun on page one.

### CaseVerdicts

`_classifyAct`, `_pickMainActOfLevel` and `_resolveCaseFinal` are functions of the
acts of a case in the order of the Map; the last one is the table of outcomes of
the three instances. What the court did is reduced to the classes the resolver
tells apart. Around it are the collection of acts, the save with its upsert, the
failing save, and the restart, which forgets the Map: `_loadExistingDecisionLinks`
reads nothing back.

### SearchReports

`rep` is a row of `search_reports`, with the fill its answers and its result came
from instead of their text. A fill reads, marks the row running, searches, stores
the result or the error, and replies. Each statement can fail, and each that
writes (markRunning, markCompleted, markError, the recovery) may have been
executed when it does: a fill that was told its markRunning failed ends, but the
row may have its answers. `overlap` marks reports that two fills worked on at once,
one of them perhaps in this way. The reads that show a report write nothing and
are left out: `get` serves completed reports only, `getById` whatever the row has
together with its status.
`up`, `recovered` and the age of a row are the restart and the recovery at a
start, which runs after the server has begun to listen.

### SearchPriority

A search takes a row of `runtime_flags` with a term, has its query embedded and
its candidates reranked, and gives the row back. `job` is the call each client
has at the inference service, where one call runs at a time (`MODEL_LOCK`);
`reranker` is the state under the reranker's lock. The embedding worker looks at
the rows before each batch, waits while there is one, and unloads the reranker
when it resumes. A batch is packed by tokens into up to `MaxCalls` calls, which
follow one another without a look (`NextCall`); `sent` counts those of the batch,
`begun[r]` those that fell into the lease of search r. A search that timed out leaves its call at the service.

### TelegramBot

An update is a query, a voice message, a confirmation or a cancel of a chat;
`at[u]` is how far its handler is. `confirmed` is what Telegram will not send
again, `lastOffset` what the bot has in memory. Handlers are not awaited, so any
two of them interleave at their awaits. `queue`, `active` and `busy` are the queue
of searches; `lock` serialises the confirmations of a chat; `waitMsg` and `buttons`
are the wait messages with their cancel buttons, which outlive a crash. Sending the
results may hang (`stuck`): the PDF of a summary and its upload have no limit that
holds from start to end. When the bot goes down its supervisor may end as well
(`watched`): it does not restart after exit codes 0, 130 and 143, which a signal
leads to, nor when the bot crashes too often.

## 3. Runs

| Run | Instance | Properties |
|---|---|---|
| `ProxyLeases` | 1 proxy, 2 pipeline runs of one process, 1 parser run, TTL 2, fair | `MutualExclusion`, `LeaseInv`, `ExclusionSpec`, `LiveLeaseKept`, `LeakedLeaseLapses` |
| `BoundedQueue` | 4 pushes, 2 consumers, capacity 2, fair | `Fifo`, `NoLostWakeup`, `PushEnds` |
| `DownloadPool` | 1 act, a run with 2 workers, the next run of the process with 1, 1 worker left behind, 1 attempt, 1 fault in the first run, an exception ends a worker, fair | `AttemptsBounded`, `CleanRunCompletes`, `SourceComplete`, `StopEnds` |
| `ActIndexing` | a long act beside a short, a border or an oversized one, 2 chunks, 1 fault, fair | `IndexedIsExact`, `NoOrphans`, `VerdictFollowed` |
| `DownloadWorker` | one worker, all thresholds 2, fair | `NoFetchInCooldown`, `IdleWithoutAct`, `SleepEnds`, `LostBrowserNoticed`, `StopObserved` |
| `GeoRecovery` | 2 workers, 3 offers in 2 geos of which one answers, 1 fault, fair | `SignatureIsCurrent`, `BurntNotAsked`, `SearchEnds` |
| `Parser` | 5 days with 0, 3, 0, 0 and 2 pages, 2 pages read, 3 attempts, 2 rounds, 1 recycle, 4 faults, 1 crash, fair | `CheckpointSaved`, `LeftComplete`, `PageOneInCategory`, `EmptyStopHonest`, `ParserEnds` |
| `ParserFilters` | the same with 1 fault | `PagesFiltered`, **violated** |
| `CaseVerdicts` | 3 acts of 10 kinds on 2 dates in every order, 1 restart | `SavedIsResolved`, `KeptPerRun`, `OrderIsNeutral` |
| `SearchReports` | 3 fills of 1 report, 2 faults, 2 restarts | `ResultFitsAnswers`, `CompletedIsStored`, `RecoverySparesTheLiving` |
| `SearchPriority` | 2 searches, the embedding worker with batches of 1 or 2 calls, 1 fault, fair | `AtMostOneBatch`, `SearchesEnd`, `WorkerComesBack` |
| `TelegramBot` | 2 chats, 1 search slot, 3 updates, 1 fault, 1 crash, fair | `BotInv`, `TakenUp`, `UpdatesAnswered` |

What the passing runs show:

* `MutualExclusion`: two coordinated runs whose rows have not run out never use one
  proxy at the same time, whatever crashes, late or lost renewals, failed set-ups
  and clean-ups by third runs happen: only time takes a key from an active run.
  `ExclusionSpec` says the same as a refinement. `LeaseInv` is why. What time may do,
  and does during a long pre-flight, is in section 5 (`PreflightKeepsKeys`).
* `LiveLeaseKept`: nobody but its holder (or the operator) removes the unexpired
  row of a live process; in particular not the clean-up that lists dead pids
  first and deletes afterwards.
* `LeakedLeaseLapses`: rows left behind by crashes and failed releases do not
  block a proxy for ever.
* `Fifo`, `NoLostWakeup`, `PushEnds`: the queue class is a FIFO channel; no
  waiting call is forgotten.
* `AttemptsBounded`: an act that is fetched again while in flight is tried at
  most `MAX_PDF_ATTEMPTS` plus the other workers times, those of earlier runs of
  the process included, unless `--ids` named it.
* `SourceComplete`: the source of a run closes only when the table has no act left,
  and `CleanRunCompletes`: a run without faults that returns leaves no act without
  PDF and text result, also of what crashes, faults and the watchdog left half done
  before it, provided no worker of an earlier run was at work when it began. One
  that was can finish its act behind the resume step (`RestartIsClean`, section 5).
* `StopEnds`: after a signal the run ends.
* `IndexedIsExact`: an act marked as indexed has exactly the points a search
  needs, however the worker and the clean-up interleave, except in the moment
  between deletion and reset, or if the clean-up was cut off there, or if its
  deletion failed after the points were gone.
* `NoOrphans`: points always have a row that leads a later clean-up to them,
  except when the deletion for a pending row failed, which the code ignores.
* `VerdictFollowed`: the points of an act that is no longer final disappear, even
  if the clean-up of that save had to pass over it because it was being indexed.
* `NoFetchInCooldown`: a proxy that cools down is left alone. Several branches let a
  worker skip the check after a recovery; each of them has lifted the cool-down.
* `IdleWithoutAct`: whichever branch sends a worker to recover, sleep or restart
  its browser gave the act back first.
* `SleepEnds`, `StopObserved`, `LostBrowserNoticed`: a worker comes back from a
  cool-down, ends when the run is stopped, and does not stay in the pool for ever
  without a browser.
* `BurntNotAsked`: no search asks for a geo in which a proxy of any worker really
  was when it failed for good, or the change to which was refused, until the entry
  expires or the whole list is emptied. On each way to fail a search marks the geo
  its proxy is in, and each later choice sees it. `SignatureIsCurrent`: what a search marks first is the geo it is in.
  `SearchEnds`: a search comes to an end although another worker marks and
  empties the same list, unless that worker starts searches for ever.
* `CheckpointSaved`: the checkpoint names only pages that are in Postgres.
  `LeftComplete`: a day that is left behind was read to its end, whatever
  crashed, unless a recovery of the listing failed in it (section 5).
  `PageOneInCategory`: a first page is saved only from a listing of category 3.1.
  `EmptyStopHonest`: the automatic stop comes after that many days without acts.
  `ParserEnds`: rounds, recycles and recoveries end, unless the process quits for
  want of a body template (`SuccessIsWhole`, section 5).
* `SavedIsResolved`: what is in the table is what the acts read so far say
  together, although acts come page by page, verdicts change with every page and
  saves fail. `OrderIsNeutral`: the order of reading decides nothing, unless two
  acts of one level have the same rank and date. `KeptPerRun`: every restart can
  add one final act to a case, and no more.
* `ResultFitsAnswers`, `CompletedIsStored`, `RecoverySparesTheLiving`: a completed
  report does not mix two fills, unless one of them took the row while the other
  was at work, with a statement that succeeded or one that failed after it was
  executed; success is told only of a stored result, and a recovery leaves a report alone whose fill is at work.
* `AtMostOneBatch`: while a search's lease lasts, the worker sends no more calls
  than one batch has, those of the batch it was at or of the one whose look came
  before the lease. It is not one call, as a comment has it (`CheckedPerAct`,
  section 5). `SearchesEnd`, `WorkerComesBack`: neither
  the locks nor a leaked lease stop searches or the worker for good.
* `BotInv`: slots, queue and busy chats account for one another, and nobody waits
  beside a free slot. `TakenUp`: no update is confirmed to Telegram that no
  handler took up, and one is served again only after a crash. `UpdatesAnswered`:
  every update comes to an end, unless the bot is stopped for good, or the update is
  in a job that hangs or behind one (`SlotsComeBack`, section 5).

What the violated property shows (the finding in `PROJECT.json`):

* `PagesFiltered`: if a session is set up on a day without results, its request
  template has no filters by document and status, and pages after the first of
  every later day are read unfiltered until the next set-up.

Bounds. Two processes and three runs are the smallest instance with a restart in
the same process and a third party that cleans up between two statements of
another; the exclusion property speaks of two runs and one key. TTL 2
distinguishes fresh, ageing, expired-at-this-instant and expired rows, which is all
the statements tell apart. With one proxy no claim that fails has found another key
`busy` before; that case is left to the theorems, and was checked once with two
proxies, a parser and one pipeline run (392,488 states, the three safety properties).
Two download workers of a run are enough for an act to be held twice; the worker of
the next run is beside one of them when `MaxLeft` is 1, which is the smallest
instance in which a worker outlives its run, and where the second run is the clean
one of `CleanRunCompletes`. One fault in the first run fails a statement or ends a
worker; `MAX_RUN` is 0 there (no limit) and the limit is met only by the theorems.
Two pushers more than the capacity allow waiting in a queue behind another waiter.
For indexing, the two acts of different lengths let the clean-up hold one row
while the worker has the other, the border act changes from one route to the
other, the oversized one meets the repairs; two chunks make a partial upload.
Every threshold of `DownloadWorker` is 2: below it, at it, and reset in between.
In `SearchPriority` two calls are the smallest batch with a call behind a call.
In `GeoRecovery` the geo that answers is last in the list, so a search has to
empty the blacklist to get back to it, and the other worker marks it meanwhile.
The days of `Parser` have an empty day first (the session is set up there), a day
with more pages than are read, and as many empty days in a row as stop the walk
with another day behind them; four faults use up the attempts of a round and
meet the recovery after it. Three acts fill two instances with two acts in one of
them. Three fills let one end while two overlap, two restarts put a recovery
between them. Three updates of two chats on one slot are a running, a waiting and
a cancelled search. The theorems below remove the bounds for the safety
properties they cover.

Deadlock is not checked in `BoundedQueue`, where each push happens once and the
queue comes to rest after `close()`; in `GeoRecovery` after a stop; in
`SearchReports`, `SearchPriority` and `TelegramBot`, whose users send a bounded
number of requests. It is checked in the others.

Fairness. `ProxyLeases`: time passes, and that is all. No run is assumed to get on
and no renewal to land. `DownloadPool`: awaited calls return (each has a time-out in
the code), so every worker takes its next step and settled promises are noticed; no
watchdog has to fire, and no supervisor to start another run. `BoundedQueue`: microtasks run
and extract workers come back for the next item; pushers need not come.
`ActIndexing`: the worker is kept running and goes on with what it has taken,
with rows to pull and rows to repair; the parser is run again and again (its
start alone cleans up) and does not stop in the middle of a clean-up.
`DownloadWorker`: the worker takes its next step and the time of a cool-down
comes. `GeoRecovery`: preflight and searches go on; the provider answers, which
its client bounds by time-outs. `Parser`: the process goes on, and what ended is
started again, by the supervisor or by whoever stopped it, except after an exit
with success. `SearchPriority`: calls
that run end, a waiting call gets the lock in the end (strong fairness of
`Enters`: a few clients, short calls), a lease's time passes; no search has to
begin. `TelegramBot`: calls end by their time-outs, except an upload that hangs;
Telegram answers `getUpdates` now and then; the bot is restarted as long as its
supervisor runs, and the supervisor may end with any crash. Faults, crashes, texts
and users are never fair.

## 4. Proofs

| Theorem | Says | Rests on |
|---|---|---|
| `ProxyLeasesProofs!LeaseInvariant` | `Spec => []LeaseInv` | nothing about time: the clock is free |
| `ProxyLeasesProofs!ProxiesExclusive` | `Spec => []MutualExclusion` | `LeaseInvariant` |
| `ProxyLeasesProofs!ImplementsExclusion` | `Spec => ExclusionSpec` | `LeaseInvariant` |
| `ProxyLeasesProofs!LiveLeases` | `Spec => LiveLeaseKept` | `LeaseInvariant` |
| `DownloadPoolProofs!PoolInvariant` | `Spec => []PoolInv` | finite acts and workers, any number of runs in a process |
| `DownloadPoolProofs!SourceIsComplete` | `Spec => []SourceComplete` | `PoolInvariant` |
| `DownloadPoolProofs!AttemptsLimited` | `Spec => []AttemptsBounded` | `PoolInvariant`, `CopiesInv` inductive |
| `DownloadPoolProofs!CleanRunsComplete` | `Spec => []CleanRunCompletes` | `PoolInvariant`, `RunInv` inductive |
| `BoundedQueueProofs!FifoOrder` | `Spec => []Fifo` | types |
| `BoundedQueueProofs!NoWakeupLost` | `SameTurn = FALSE => (Spec => []NoLostWakeup)` | `QueueInv` inductive |
| `ActIndexingProofs!IndexInvariant` | `Spec => []IndexInv` | `NoAct` is not an act; acts and chunks may even be infinitely many |
| `ActIndexingProofs!IndexedExactly` | `Spec => []IndexedIsExact` | `IndexInvariant` |
| `ActIndexingProofs!NothingOrphaned` | `Spec => []NoOrphans` | `IndexInvariant` |
| `ActIndexingProofs!CleanupIsAlone` | `Spec => []SnapshotHolds` | `IndexInvariant` |
| `RecoveryProofs!WorkerInvariant` | `Spec => []WorkerInv` | any thresholds of the counters |
| `RecoveryProofs!CoolingLeftAlone`, `ActGivenBack` | `Spec => []NoFetchInCooldown`, `Spec => []IdleWithoutAct` | `WorkerInvariant` |
| `RecoveryProofs!GeoInvariant` | `GeoSpec => []GeoInv` | any workers, offers, homes and healthy geos |
| `RecoveryProofs!SignatureKept` | `GeoSpec => []SignatureIsCurrent` | `GeoInvariant` |
| `RecoveryProofs!BurntStayUnasked` | `GeoSpec => BurntNotAsked` | `GeoInvariant`, what `Pick` returns |
| `ParserProofs!WalkInvariant` | `Spec => []WalkInv` | any listing and limits |
| `ParserProofs!NothingSkipped`, `DaysComplete` | `Spec => []CheckpointSaved`, `Spec => []LeftComplete` | `WalkInvariant` |
| `ParserProofs!CategoryKept`, `StopsHonestly` | `Spec => []PageOneInCategory`, `Spec => []EmptyStopHonest` | `WalkInvariant` |
| `ParserProofs!KeptInvariant`, `OneFinalPerRun` | `VerdictSpec => []KeptInv`, `VerdictSpec => []KeptPerRun` | any acts |
| `ParserProofs!SavedResolved` | `VerdictSpec => []SavedIsResolved` | the types of `KeptInvariant` |
| `ParserProofs!OrderNeutral` | `VerdictSpec => []OrderIsNeutral` | lemma `PickedIsMain` |
| `SearchProofs!ReportsInvariant` | `Spec => []ReportsInv` | any fills and reports |
| `SearchProofs!ResultOfAnswers`, `StoredWhenTold` | `Spec => []ResultFitsAnswers`, `Spec => []CompletedIsStored` | `ReportsInvariant` |
| `SearchProofs!LivingSpared` | `Spec => RecoverySparesTheLiving` | `ReportsInvariant` |
| `SearchProofs!PriorityInvariant`, `PriorityKept` | `PrioritySpec => []PriorityInv`, `PrioritySpec => []AtMostOneBatch` | any number of searches, any number of calls in a batch |
| `TelegramBotProofs!PollInvariant`, `UpdatesTakenUp` | `Spec => []PollInv`, `Spec => []TakenUp` | any chats, updates, crashes |
| `TelegramBotProofs!QueueAccounts` | `Spec => []BotInv` | `PollInvariant`, `SearchInv` inductive |
| `Typing`, `PriorityTyping`, `WorkerTyping`, `GeoTyping` | `[]TypeOK` of eight modules | the invariants above |

*Leases.* `MutualExclusion` speaks of proxies in use; the steps that break it
would be on the table and the clock. The invariant therefore carries `Backed`:
every coordinated key of an active run has an unexpired row of that run, unless
the key is in `lapsed`. `Tick` keeps it by its effect, whatever the time: the keys
whose rows it lets run out are the ones it adds to `lapsed`. Everybody else's steps
have to keep it too: a competing claim takes no unexpired row, no clean-up deletes
one of a live run, and a renewal that lands late extends only what its holder still
has. Two runs cannot both own the row, hence the exclusion. `Backed` needs to know
that a condemned holder stays dead until its rows are deleted (`DoomedIsDead`), that
dead processes run nothing (`DeadIsEnded`), that browsers use only claimed
proxies (`UseIsClaimed`) and that a run starts with nothing claimed
(`FreshPool`). The refinement maps the user of a key to the active run that uses
it with the right to; each step is then a `Take`, a `Yield` or a stutter.

*Pool.* `SourceComplete` is not inductive: between the moment Postgres answers
with an empty batch and the moment the worker sets `_exhausted`, other workers
go on, and workers that a watchdog left behind do in other runs. `EmptyBatch` says
that the answer stays true: no act becomes eligible again (columns only grow, lemma
`ColumnsGrow`), and `OneLoader` that no second answer for the same source is on its
way. The proof shows that acts dropped or deferred do
not matter because their rows keep the table's queue open.

*Attempts.* `AttemptsBounded` says nothing of an act that is in memory several
times, each time for a further attempt, and each run of the process has a memory of
its own. `CopiesInv` finds for each act a set `X` of workers that stand for its
copies (`Covers`): they do not try the act themselves, in each run there are at
least as many of them as that run has copies in its buffer, among its deferred acts
or in a batch under way, and attempts, `X` and the workers that try the act together
stay within the bound. A batch adds an act only if Postgres selected it below
`MAX_PDF_ATTEMPTS` with the buffer of the run empty (a worker loads only then), and
the worker that loads holds nothing: the workers that hold no act can stand for all
copies there are. With a claim one worker of the run stands for a copy less and the
claimant tries the act; from there every step takes one such worker for one attempt.

*Clean runs.* `CleanRunCompletes` speaks of the moment a run returns. `RunInv`
says what leads there, for a run that began alone and has met no fault, stop or
limit: the stages close the queue and follow one another only when their workers
are done (`StageInv`), the workers of other runs stay idle (`WorkersInv`), a worker
of the run is done only because the table is empty (`DoneInv`, which `SourceComplete`
turns into "no act to download"), and an act with a PDF and no text is in a worker's
hands, in the queue or with an extract worker (`FlightInv`). When all have finished
and the queue is empty no such act is left. The resume step establishes `FlightInv`
for what earlier runs left.

*Queue.* `QueueInv`: while a pusher waits, the buffered items and the pushers
about to resume together fill the queue exactly. Without it a `shift()` that
wakes one pusher could leave another one asleep beside a free place.

*Indexing.* `IndexedIsExact` needs three facts. First, an act the worker has in
hand says 'indexing' (`StageFits`), so the clean-up, which skips that status,
and the worker never hold the same row; `SnapshotHolds` extends this over the
time between the clean-up's SELECT and its last UPDATE, because only a save
makes a kept verdict and the parser does not save while it cleans up. Second, the
routes never cross: the points of an act are of the kind of its text
(`RowFits`), so an old point of the other route cannot be left beside the new
ones. Third, a row about to be reset has no points unless they leaked
(`CleanupFits`), which gives `NoOrphans` at the reset.

*Reports.* The properties speak of what a client heard or saw; the invariant ties
them to the row: a fill at work has a report (`AtWork`) whose row is not old
(`RowOfFill`), the row holds that fill's answers unless another fill came between
(`OwnAnswers`), two fills at work on a report are known as an overlap
(`OverlapKnown`), as is a fill whose markRunning was executed although it failed, and
a reply "completed" comes after the store (`StoredFirst`).
`RowOfFill` is what spares living reports from the recovery of a start. It
depends on the order of two durations: a search ends long before a row counts as
old, which `Ages` has as its guard.

*Priority.* `begun` counts calls while a lease lasts. The invariant says when it is
still zero: before the lease, and as long as the worker has looked and not yet begun
(`LookedClear`); and that within a batch it is at most `sent`, the calls of that
batch. A call of a second batch would need a second look, which sees the row.

*Polling.* `TakenUp` is not inductive: the offset in memory is ahead of what is
confirmed. `PollInv` says what lies between the two is taken up or in the hands of
the loop, and that everything above both was taken up at most once per crash.

*Search queue of the bot.* The parts of `BotInv` (slots, busy chats, order, nobody
beside a free slot) keep one another except at one point: a crash puts updates
back into Telegram's hands and a new process polls them again. `Placed` joins the
queue with the polling: what will be polled again is not sent yet or over
("done"), so an update that is dispatched has no job.

*Download worker.* `NoFetchInCooldown` needs to know why `skipQuarantineCheckOnce`
is sound. `CoolInv`: it is set only where the cool-down was lifted, and is used up
before the next page. `HeldInv` lists the places at which an act is in hand;
`LimitInv` says that a counter at its limit is about to be reset or was the last.

*Geo search.* `TargetInv` follows an offer from the choice to the browser's start:
behind the change it names the geo the proxy is in, or nothing when the answer
named none. So what a failed candidate marks is what failed, and the signature
read at the end is true. `burnt` is set from where the proxy is, `badGeo` from what
the search believes; `BurntMarked` (`burnt \subseteq badGeo`) needs `TargetInv` for
each way to fail, and with what `Pick` returns it gives `BurntNotAsked`, a property of
the steps in which a worker asks for a geo.

*Walk.* `CheckpointSaved` and `LeftComplete` hold of the checkpoint and the days
left behind; `WalkInv` says what they come from: all pages before the one at hand
are saved and the file is of the day at hand (`PositionInv`), a day that is over was
read (`ReadInv`), page 1 is looked at only in a living browser whose listing was
asked for with what the page shows (`BrowserInv`), and the streak counts
the days directly before this one (`StreakInv`).

*Verdicts.* A final act in the table that the Map does not know can only come from
before a restart (`KeptInv`), since a save writes every act whose verdict changed.
What a save writes follows the Map alone, which is `SavedIsResolved`. For
`OrderIsNeutral` the loop of `_pickMainActOfLevel` has to be understood for any
number of acts: it is a recursive function on `0 .. Len(s)`, and lemma
`PickedIsMain` says that its result is one of the best acts of the level, or none
if the level has none. Induction is replaced by a least counterexample: if the
loop fails at some number it fails at a least one (`LeastOf`, from the
well-foundedness of `<` on the naturals), and one step before it does not
(`OneMoreSeen`). Without ties there is one best act (`MainIsOne`), which every order
of the Map finds.

Every invariant and every safety property of the passing runs is a theorem. Only
model-checked is liveness (`LeakedLeaseLapses`, `PushEnds`, `StopEnds`,
`VerdictFollowed`, `SleepEnds`, `LostBrowserNoticed`, `StopObserved`,
`SearchEnds`, `ParserEnds`, `SearchesEnd`, `WorkerComesBack`, `UpdatesAnswered`),
since the prover has no rules for fairness. The theorems assume of the constants
what the modules' `ASSUME`s say: that thresholds are positive, that there is a
worker and each run of a process has one, that the pool's acts and workers are
finitely many, that a value standing for "none" is none of the others. None of them
is about time.

## 5. Where the code and its comments disagree

Properties a comment or the design suggests that do not hold. They are stated in
the modules; each is violated in the instance given here.

| Property | Instance | What happens |
|---|---|---|
| `Parser!PagesFiltered` | run `ParserFilters` | see section 3 |
| `ProxyLeases!PreflightKeepsKeys` | the run's constants, `Spec` | the heartbeat starts after the pre-flight of all browsers (`pdf/pipeline.js:1263-1294`), which has no limit, against a term of five minutes: a lease runs out, and another run claims the key, of a process that is alive and sends traffic through the proxy. The header (`db/proxyLeases.js:8-10`) says that another process can take a key when its holder falls or is killed |
| `ProxyLeases!EndedRunIsQuiet` | the run's constants, `SPECIFICATION Spec`, as an invariant | after the no-progress watchdog a worker in a recovery loop opens a browser on a proxy that was given back |
| `DownloadPool!RestartIsClean` | `Worker = {w1, w2}`, one in each of two runs, `MaxFaults = <<0, 0>>`, `Spec` | a worker the watchdog left behind marks its act downloaded behind the resume step of the next run; its own queue is closed, the source of the next run is empty, and that run returns cleanly with an act without text. The comment at `pdf/pipeline.js:87-90` calls the restart a clean one |
| `DownloadPool!TextKept` | `Worker = {w1, w2}`, both in the only run, `MaxFaults = <<0>>`, `Spec` | an act fetched again while in flight is downloaded twice and ends with `__EXTRACT_FAILED__` over its good text, because the first extraction removed the file |
| `DownloadPool!MissingIsRequeued` | `Worker = {w1}`, one run, `MaxFaults = <<1>>`, `Spec` | the resume step marks an act without a file as failed; the comment at `pdf/pipeline.js:2212` says it is downloaded again |
| `ActIndexing!PendingIsServed` | `Act = {a1}`, `Chunk = {c1}`, `Kinds <- AtBorder`, `MaxFaults = 0` | an act rerouted after `/embed` is 'pending' with `is_long_act` set but keeps its short token count; neither phase selects it |
| `ActIndexing!FlipBackIsServed` | the same with `Kinds <- Shorts` | a verdict that changes twice while the act is embedded leaves the mark of the verdict guard on a final act; nothing removes it |
| `CaseVerdicts!FinalDecides` | the run's constants | a procedural act of the first instance becomes final when the appeal upholds it; the comment at `parser.js:1182` lists it as definitely not final |
| `SearchPriority!CheckedPerAct` | the run's constants, `PrioritySpec` | a search takes its lease behind the look, and the worker sends both calls of the batch; the comment at `embed/worker.js:132-133` says that the flag is checked for every act |
| `SearchPriority!RerankerStays` | `MaxTroubles = 0`, `PrioritySpec` | `POST /reranker/unload` takes `_reranker_lock` but not `MODEL_LOCK`, which `inference/app.py:28` says every endpoint that touches a model does: a model can go while a request uses it |
| `Parser!SuccessIsWhole` | the constants of `ParserFilters`, `Spec` | a session whose request body cannot be parsed in five tries ends the walk before its first day, with the final save and exit code 0 (`parser.js:5627-5637`), after which `ops/run-parser-supervised.sh:69-73` does not restart. The comment at `parser.js:5358-5366` says that a session that is not up must not end in this way |
| `TelegramBot!SlotsComeBack` | `Chat = {c1}`, `Speakers = {}`, `MaxUpdates = 2`, `MaxFaults = 1`, `MaxCrashes = 0`, `FairSpec` | the upload of a document has a TLS connect without a limit (`frontend/telegram/bot.js:391-408`) and passes `fetch` options it does not take (452-458), and `page.pdf()` (`llm/summaryPdfRenderer.js:423`) has none: a search keeps its slot while the bot runs. The list of settings (`bot.js:32`) gives every request to Telegram a time limit |

Read in the code while modelling, and kept in the models as the code has it:

* Download worker: `consecutivePravocaptchaGate` is not reset by a failed or
  recoverable result, though the comment at `pdf/pipeline.js:1597` says any other
  outcome resets it. The comment at 1581-1583 says that the cool-down stays in the registry
  after a recovery; `markRecovered` removes it. A worker that failed to get a page
  after a failed restart gives its claimed act up to the exception path.
* A SIGINT during the preflight is taken by the `once` listener of
  `tools/download-acts.js:160`; the preflight is given `shouldStop: () => false`
  (`pdf/pipeline.js:1266`) and the run that follows sets its own handlers later, so
  neither sees it.
* Geo search: operators are put on the blacklist at `pdf/downloader.js:2450`, 2562
  and 2586, though the comments at 2242 and 2385 say that they never are.
* Escalation: after a change of operator with the same address,
  `pdf/downloader.js:1699` asks the ladder to advance, but level 2 has set the count
  of rotations to zero, so the next step is level 1 again. A parser whose provider
  keeps returning the same address never leaves level 1.
* Parser: the contract at `parser.js:3538` says no data is lost; after a failed
  recovery the pager of whatever the page shows decides (3300), and the rest of a
  day can be left out. Filters an operator chose in the terminal are not in
  `parser_state.json`; after a restart by the supervisor they come from the
  environment. A timed-out operation goes on in the background (233).
* Verdicts: a bankruptcy grant by the appeal that the cassation upholds makes the
  act of the first instance final, unlike the table at `parser.js:1262`; a
  procedural act of the first instance displaces a simplified decision.
* Reports: the answer 500 says that the report was marked as failed also when that
  statement failed; a restart within the hour leaves 'running' rows to a later one.
* Bot: a cancel button does not check that the job is the chat's own, and job
  numbers begin again after a restart, so an old button can cancel another's job.
  A wait message whose number arrives late stays. A pending text has priority over
  the message under the button that was pressed. The lock of the confirmations is
  said to cover corrections by text, which never take it. Overlapping writes of the
  settings share one temporary file.

## 6. Not modelled, and why

* Explicit ids (`--ids`) are in `DownloadPool` but in no run: there the source is
  read once, a failed `selectByIds` is not repeated, and nothing promises
  completeness.
* Waiting times of the supervisors (back-off, flap limits, `POOL_ALL_LEASED`): they
  delay a start and change nothing else.
* `BoundedQueue` with several calls in one turn (`SameTurn = TRUE`): the pipeline
  never does it. The class then wakes one pusher per `shift()` and another call
  may take the place first.
* In indexing: the version bump with its rebuild, the budgeted indexer
  (`backend/indexing`) beside the worker, and the clean-up run by hand: a second
  writer. Which of the proved invariants survive one is the first question for a
  further module.
* The rate-limit ladder of the downloader and the escalation ladder of the parser
  beyond the one step that matters to the neighbouring state; the comparison of IP
  addresses and their blacklist; the probe that recommends countries.
* The dialogue of the parser in the terminal apart from its question about the
  checkpoint, and the filters it chooses; settings and access lists of the bot.
* Page parsing, request building, prompts, ranking formulas, PDF layout, the
  numeric work of the models, the web pages, audits, one-shot proxy tools: no
  state, or state of one call.
