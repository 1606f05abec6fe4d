--------------------------- MODULE SearchPriority ---------------------------
(* The searches and the embedding worker on one GPU.                       *)
(*                                                                         *)
(* A search takes a lease under a key of its own, hints that the reranker  *)
(* be loaded, has its query embedded and the candidates reranked, and      *)
(* gives the lease back.  The embedding worker looks at the leases before  *)
(* every batch, and unloads the reranker when it resumes; a batch of acts  *)
(* is one call of the inference server or several (embedFullActBatchSmart  *)
(* packs it by tokens).  The server runs one model call at a time          *)
(* (MODEL_LOCK) and loads and unloads the reranker under a lock of its     *)
(* own.  HyDE and the summary lie outside the lease and touch none of this.*)
EXTENDS Naturals

CONSTANTS Request, Worker,
          AutoLifecycle,      \* RAS_RERANKER_AUTO_LIFECYCLE
          MaxCalls,           \* calls a batch of the worker is packed into
          MaxTroubles         \* calls, loads and queries that fail, crashes

ASSUME PriorityAssumption ==
  /\ AutoLifecycle \in BOOLEAN /\ Worker \notin Request
  /\ MaxCalls \in Nat \ {0} /\ MaxTroubles \in Nat

VARIABLES stage,     \* the searches
          lease,     \* the lease of each, as the search knows it
          row,       \* runtime_flags has an unexpired row of the search
          job,       \* the call each client has at the inference server
          hint,      \* a POST /reranker/load is on its way
          reranker,  \* reranker_state; "loading" holds _reranker_lock
          worker,    \* the embedding worker
          sent,      \* calls of the batch it has begun
          begun,     \* calls it sent while the search's lease lasted
          troubles

priorityVars == <<stage, lease, row, job, hint, reranker, worker, sent, begun, troubles>>

Client == Request \cup {Worker}
Running == {"embedding", "reranking", "scoring"}
Searching == {"embed", "rerank", "ended"}

Trouble == troubles < MaxTroubles /\ troubles' = troubles + 1
NoTrouble == UNCHANGED troubles

PriorityInit ==
  /\ stage = [r \in Request |-> "new"]
  /\ lease = [r \in Request |-> "none"] /\ row = [r \in Request |-> FALSE]
  /\ job = [x \in Client |-> "none"]
  /\ hint = FALSE /\ reranker = "unloaded"
  /\ worker = "check" /\ sent = 0 /\ begun = [r \in Request |-> 0]
  /\ troubles = 0

-----------------------------------------------------------------------------
(* The searches. *)

(* withSearchLease and the head of _searchAndRerankImpl: a lease (or none, *)
(* when the insert fails, executed or not), the hint, and the embedding of *)
(* the query.                                                              *)
Starts(r) ==
  /\ stage[r] = "new" /\ stage' = [stage EXCEPT ![r] = "embed"]
  /\ \/ /\ NoTrouble
        /\ lease' = [lease EXCEPT ![r] = "held"] /\ row' = [row EXCEPT ![r] = TRUE]
     \/ /\ Trouble /\ UNCHANGED lease
        /\ \E there \in BOOLEAN : row' = [row EXCEPT ![r] = there]
  /\ hint' = TRUE
  /\ job' = [job EXCEPT ![r] = "toEmbed"]
  /\ UNCHANGED <<reranker, worker, sent, begun>>

(* The query is embedded and the candidates are hydrated: rerank them. *)
Retrieved(r) ==
  /\ stage[r] = "embed" /\ job[r] = "ok"
  /\ stage' = [stage EXCEPT ![r] = "rerank"]
  /\ job' = [job EXCEPT ![r] = "toRerank"]
  /\ UNCHANGED <<lease, row, hint, reranker, worker, sent, begun, troubles>>

Reranked(r) ==
  /\ stage[r] = "rerank" /\ job[r] = "ok"
  /\ stage' = [stage EXCEPT ![r] = "ended"]
  /\ job' = [job EXCEPT ![r] = "none"]
  /\ UNCHANGED <<lease, row, hint, reranker, worker, sent, begun, troubles>>

(* A call failed, or its time (or that of Qdrant or PostgreSQL) is up: the *)
(* search throws.  The inference server still serves the call.             *)
Throws(r) ==
  /\ stage[r] \in {"embed", "rerank"} /\ stage' = [stage EXCEPT ![r] = "ended"]
  /\ \/ job[r] = "bad" /\ NoTrouble /\ job' = [job EXCEPT ![r] = "none"]
     \/ /\ job[r] # "bad" /\ Trouble
        /\ job' = [job EXCEPT ![r] = IF @ = "ok" THEN "none" ELSE @]
  /\ UNCHANGED <<lease, row, hint, reranker, worker, sent, begun>>

Clears(r) == [row EXCEPT ![r] = FALSE]

(* The finally of withSearchLease: only the own key; a failure is logged. *)
Releases(r) ==
  /\ stage[r] = "ended" /\ stage' = [stage EXCEPT ![r] = "done"]
  /\ lease' = [lease EXCEPT ![r] = "none"] /\ begun' = [begun EXCEPT ![r] = 0]
  /\ \/ NoTrouble /\ row' = IF lease[r] = "none" THEN row ELSE Clears(r)
     \/ lease[r] # "none" /\ Trouble /\ UNCHANGED row
  /\ UNCHANGED <<job, hint, reranker, worker, sent>>

\* A mistake: the row is written without a term.
LapsesNot(r) ==
  /\ lease[r] = "held" /\ lease' = [lease EXCEPT ![r] = "over"]
  /\ begun' = [begun EXCEPT ![r] = 0]
  /\ UNCHANGED <<stage, row, job, hint, reranker, worker, sent, troubles>>

(* The TTL of a lease runs out, the search may go on. *)
Lapses(r) ==
  /\ row[r] \/ lease[r] = "held"
  /\ row' = [row EXCEPT ![r] = FALSE]
  /\ lease' = [lease EXCEPT ![r] = IF @ = "held" THEN "over" ELSE @]
  /\ begun' = [begun EXCEPT ![r] = 0]
  /\ UNCHANGED <<stage, job, hint, reranker, worker, sent, troubles>>

(* The search API dies with its searches; rows and calls stay. *)
ServiceDies ==
  /\ Trouble
  /\ stage' = [r \in Request |-> IF stage[r] \in Searching THEN "done" ELSE stage[r]]
  /\ lease' = [r \in Request |-> "none"] /\ begun' = [r \in Request |-> 0]
  /\ UNCHANGED <<row, job, hint, reranker, worker, sent>>

-----------------------------------------------------------------------------
(* The inference server. *)

(* MODEL_LOCK is held by the call that is running. *)
Enters(x) ==
  /\ \A y \in Client : job[y] \notin Running
  /\ \/ job[x] = "toEmbed" /\ job' = [job EXCEPT ![x] = "embedding"]
     \/ job[x] = "toRerank" /\ job' = [job EXCEPT ![x] = "reranking"]
  /\ UNCHANGED <<stage, lease, row, hint, reranker, worker, sent, begun, troubles>>

(* The answer of a call whose client has gone is dropped. *)
Waits(x) == x = Worker \/ stage[x] \in {"embed", "rerank"}
Answered(x, how) == job' = [job EXCEPT ![x] = IF Waits(x) THEN how ELSE "none"]

Embedded(x) ==
  /\ job[x] = "embedding"
  /\ \/ NoTrouble /\ Answered(x, "ok")
     \/ Trouble /\ Answered(x, "bad")
  /\ UNCHANGED <<stage, lease, row, hint, reranker, worker, sent, begun>>

(* _load_reranker_to_gpu, called by a hint or by /rerank: nothing when it  *)
(* is loaded or once failed.                                               *)
Loads == reranker' = IF reranker = "unloaded" THEN "loading" ELSE reranker

HintServed ==
  /\ hint /\ reranker # "loading" /\ hint' = FALSE /\ Loads
  /\ UNCHANGED <<stage, lease, row, job, worker, sent, begun, troubles>>

RerankLoads(x) ==
  /\ job[x] = "reranking" /\ AutoLifecycle /\ reranker = "unloaded" /\ Loads
  /\ UNCHANGED <<stage, lease, row, job, hint, worker, sent, begun, troubles>>

Loaded ==
  /\ reranker = "loading"
  /\ \/ NoTrouble /\ reranker' = "loaded"
     \/ Trouble /\ reranker' = "error"
  /\ UNCHANGED <<stage, lease, row, job, hint, worker, sent, begun>>

\* A mistake: a failed load is not an end, /rerank waits for the model.
LoadEndedWaits == AutoLifecycle => reranker = "loaded"

LoadEnded == AutoLifecycle => reranker \in {"loaded", "error"}

(* /rerank checks that the model is there (503 otherwise), then uses it. *)
RerankChecks(x) ==
  /\ job[x] = "reranking" /\ LoadEnded
  /\ IF reranker = "loaded" THEN job' = [job EXCEPT ![x] = "scoring"]
                            ELSE Answered(x, "bad")
  /\ UNCHANGED <<stage, lease, row, hint, reranker, worker, sent, begun, troubles>>

(* The model is gone when it was unloaded meanwhile: the call fails. *)
Scores(x) ==
  /\ job[x] = "scoring"
  /\ Answered(x, IF reranker = "loaded" THEN "ok" ELSE "bad")
  /\ UNCHANGED <<stage, lease, row, hint, reranker, worker, sent, begun, troubles>>

-----------------------------------------------------------------------------
(* The embedding worker. *)

(* isRuntimeFlagActive: any unexpired row under the key's prefix. *)
Active == \E r \in Request : row[r]

(* One turn of waitForSearchPriority, which also deletes expired rows.  A  *)
(* look that fails counts as "no search": nothing is promised to a lease   *)
(* it did not see.                                                         *)
Looks ==
  /\ worker \in {"check", "paused"}
  /\ \/ /\ NoTrouble /\ Active
        /\ worker' = "paused" /\ UNCHANGED <<lease, begun>>
     \/ /\ ~Active /\ NoTrouble /\ UNCHANGED <<lease, begun>>
        /\ worker' = IF worker = "paused" THEN "resume" ELSE "clear"
     \/ /\ Trouble
        /\ lease' = [r \in Request |-> IF lease[r] = "held" THEN "over" ELSE lease[r]]
        /\ begun' = [r \in Request |-> 0]
        /\ worker' = IF worker = "paused" THEN "resume" ELSE "clear"
  /\ UNCHANGED <<stage, row, job, hint, reranker, sent>>

(* ensureRerankerUnloaded: the state is read, then the unload is posted. *)
ReadsState ==
  /\ worker = "resume"
  /\ worker' = IF reranker = "loaded" THEN "unload" ELSE "clear"
  /\ UNCHANGED <<stage, lease, row, job, hint, reranker, sent, begun, troubles>>

Unloads ==
  /\ worker = "unload" /\ worker' = "clear"
  /\ \/ NoTrouble /\ reranker # "loading" /\ reranker' = "unloaded"
     \/ Trouble /\ UNCHANGED reranker
  /\ UNCHANGED <<stage, lease, row, job, hint, sent, begun>>

(* A call of the worker, counted for every lease it falls into. *)
Sends ==
  /\ job' = [job EXCEPT ![Worker] = "toEmbed"]
  /\ begun' = [r \in Request |-> IF lease[r] = "held" /\ begun[r] <= MaxCalls
                                  THEN begun[r] + 1 ELSE begun[r]]

(* The other guards have passed: the first call of the batch is sent. *)
BeginsBatch ==
  /\ worker = "clear" /\ worker' = "batch"
  /\ Sends /\ sent' = 1
  /\ UNCHANGED <<stage, lease, row, hint, reranker, troubles>>

CallEnded == worker = "batch" /\ job[Worker] \in {"ok", "bad"}

(* The loop over subBatches: the next call follows without a look. *)
NextCall ==
  /\ CallEnded /\ sent < MaxCalls /\ sent' = sent + 1 /\ Sends
  /\ UNCHANGED <<stage, lease, row, hint, reranker, worker, troubles>>

\* A mistake: the next batch follows without a new look.
EndsBatchGoesOn ==
  /\ CallEnded /\ worker' = "clear" /\ sent' = 0
  /\ job' = [job EXCEPT ![Worker] = "none"]
  /\ UNCHANGED <<stage, lease, row, hint, reranker, begun, troubles>>

(* That was the last call, or the batch is given up (_embedSubBatch throws). *)
EndsBatch ==
  /\ CallEnded /\ worker' = "check" /\ sent' = 0
  /\ job' = [job EXCEPT ![Worker] = "none"]
  /\ UNCHANGED <<stage, lease, row, hint, reranker, begun, troubles>>

-----------------------------------------------------------------------------
Search(r) == Starts(r) \/ Retrieved(r) \/ Reranked(r) \/ Throws(r) \/ Releases(r)

Inference(x) ==
  Enters(x) \/ Embedded(x) \/ RerankLoads(x) \/ RerankChecks(x) \/ Scores(x)

Indexer == Looks \/ ReadsState \/ Unloads \/ BeginsBatch \/ NextCall \/ EndsBatch

PriorityNext ==
  \/ \E r \in Request : Search(r) \/ Lapses(r)
  \/ \E x \in Client : Inference(x)
  \/ HintServed \/ Loaded \/ Indexer \/ ServiceDies

PrioritySpec == PriorityInit /\ [][PriorityNext]_priorityVars

(* A search that has begun goes on, time passes over a lease, the server   *)
(* serves (its locks have few waiters and every holder ends), and the      *)
(* worker's loop runs.  Nothing makes a search begin, time out or crash.   *)
PriorityFairness ==
  /\ WF_priorityVars(\E r \in Request :
                       \/ Retrieved(r) \/ Reranked(r) \/ Releases(r)
                       \/ job[r] = "bad" /\ Throws(r))
  /\ WF_priorityVars(\E r \in Request : Lapses(r))
  /\ \A x \in Client : SF_priorityVars(Enters(x))
  /\ WF_priorityVars(\/ Loaded
                     \/ \E x \in Client : \/ Embedded(x) \/ RerankLoads(x)
                                          \/ RerankChecks(x) \/ Scores(x))
  /\ WF_priorityVars(Looks \/ ReadsState \/ BeginsBatch \/ NextCall \/ EndsBatch)
  /\ SF_priorityVars(Unloads)

PriorityFairSpec == PrioritySpec /\ PriorityFairness

-----------------------------------------------------------------------------
(* One call runs at a time, a search in its calls has one at the server,   *)
(* and the lease a search holds has its row.                               *)
PriorityTypeOK ==
  /\ stage \in [Request -> Searching \cup {"new", "done"}]
  /\ lease \in [Request -> {"none", "held", "over"}]
  /\ row \in [Request -> BOOLEAN]
  /\ job \in [Client -> Running \cup {"none", "toEmbed", "toRerank", "ok", "bad"}]
  /\ hint \in BOOLEAN
  /\ reranker \in {"unloaded", "loading", "loaded", "error"}
  /\ worker \in {"check", "paused", "resume", "unload", "clear", "batch"}
  /\ sent \in 0..MaxCalls /\ begun \in [Request -> 0..(MaxCalls + 1)]
  /\ troubles \in 0..MaxTroubles
  /\ \A r \in Request : lease[r] = "held" => row[r]
  /\ \A x, y \in Client : job[x] \in Running /\ job[y] \in Running => x = y

(* Priority: while the lease of a search lasts, the embedding worker sends *)
(* the calls of one batch at most - what is left of the one it was at, or  *)
(* all of the one whose look came before the lease - whatever other        *)
(* searches end, lapse or crash meanwhile.  A lease a failing look did not *)
(* see is out of it from there on.                                         *)
AtMostOneBatch == \A r \in Request : begun[r] <= MaxCalls

(* What worker.js says of its guard (checked for every act): no second     *)
(* call once a search has its lease.  The code looks once for every batch  *)
(* (README, section 5).                                                    *)
CheckedPerAct == \A r \in Request : begun[r] <= 1

(* The inductive invariant: between a look that saw no search and the      *)
(* batch that follows it, no lease that lasts has seen a call; and in the  *)
(* batch it has seen those of the batch only.                              *)
LookedClear == worker \in {"clear", "resume", "unload"}
PriorityInv ==
  /\ PriorityTypeOK /\ AtMostOneBatch
  /\ \A r \in Request : stage[r] = "new" => lease[r] # "held"
  /\ \A r \in Request : (lease[r] # "held" \/ LookedClear) => begun[r] = 0
  /\ worker = "batch" => \A r \in Request : begun[r] <= sent

(* Every search that has begun ends: no lock, load or call keeps it.  (A   *)
(* search is made once, so always again outside means ended.)              *)
SearchesEnd == \A r \in Request : []<>(stage[r] \notin Searching)

(* The worker always gets back to its batches: the lease of a search that  *)
(* died, or whose release failed, ends by its term.                        *)
WorkerComesBack == []<>(worker = "batch")

(* What app.py says of MODEL_LOCK, one lock on every endpoint that touches *)
(* a model: the reranker stays while a /rerank that found it uses it.      *)
(* The code does not keep it (README, section 5).                          *)
RerankerStays ==
  \A r \in Request : job[r] = "scoring" => reranker = "loaded"
=============================================================================
