--------------------------- MODULE DownloadWorker ---------------------------
(***************************************************************************)
(* One download worker of the PDF pipeline with its proxy: the loop of     *)
(* _downloadWorker (backend/pdf/pipeline.js), the attempts and the browser *)
(* session of PdfDownloader.downloadAndSave (backend/pdf/downloader.js)    *)
(* and the worker's entry of the ProxyQuarantineRegistry                   *)
(* (backend/pdf/proxyQuarantine.js).                                       *)
(*                                                                         *)
(* A worker owns its proxy, so the registry's entries of two workers never *)
(* meet and one worker shows every behaviour of the loop; "single" says    *)
(* whether the pipeline has others.  What a recovery does to the proxy is  *)
(* module GeoRecovery; here it returns ok or not under the contract that   *)
(* module checks: a search until success fails only when the run stops.    *)
(* The acts themselves are module DownloadPool.                            *)
(***************************************************************************)
EXTENDS Naturals

CONSTANTS
  PdfAttempts,     \* PDF_MAX_ATTEMPTS
  InfraThreshold,  \* events in the window that put the proxy to sleep
  F451Threshold,   \* the same for status 451
  Breaker,         \* INFRA_BREAKER_THRESHOLD
  GateStreak,      \* PRAVOCAPTCHA_GATE_STREAK_THRESHOLD
  SlowThreshold,   \* SLOW_TIMEOUT_THRESHOLD
  FailLimit        \* WORKER_UNEXPECTED_FAIL_LIMIT

ASSUME WorkerAssumption ==
  /\ PdfAttempts \in Nat \ {0} /\ InfraThreshold \in Nat \ {0}
  /\ F451Threshold \in Nat \ {0} /\ Breaker \in Nat \ {0}
  /\ GateStreak \in Nat \ {0} /\ SlowThreshold \in Nat
  /\ FailLimit \in Nat \ {0}

VARIABLES
  fastGeo,    \* hasFastGeoRecovery(), fixed for the run
  single,     \* the pool has this worker only, fixed for the run
  stop,       \* shouldStop()
  pc,         \* where the worker is
  why,        \* the branch that asked for the recovery in progress
  res,        \* what downloadAndSave returned
  held,       \* an act was claimed and not yet given back, failed or saved
  attempt,    \* attempt of downloadAndSave on this act
  session,    \* the browser: none, cold, ready (_kadSessionReady), fast
  saved,      \* getSessionPdfSavedCount() > 0
  infra,      \* consecutiveInfraFails
  gate,       \* consecutivePravocaptchaGate
  slow,       \* slowEventTs.length
  unexpected, \* consecutiveUnexpectedFails
  skip,       \* skipQuarantineCheckOnce
  slept,      \* wasQuarantined
  events,     \* the registry's windows of this proxy: infra and 451
  cooldown    \* the registry's cool-down of this proxy, by its reason

config == <<fastGeo, single>>
loop   == <<infra, gate, slow, unexpected, skip, slept>>
fetch  == <<res, held, attempt>>
proxy  == <<events, cooldown>>
vars   == <<config, stop, pc, why, fetch, session, saved, loop, proxy>>

Ended  == {"ended", "dead"}
Phase  == {"top", "asleep", "warm", "fetch", "limit", "result", "record",
           "recover", "breaker"} \cup Ended
Result == {"ok", "infra", "gate", "451", "trigger", "skip", "fail"}
Reason == {"bypass", "infraFirst", "infra", "gate", "451First", "451",
           "probation", "slow"}
Window == [infra : 0..InfraThreshold, f451 : 0..F451Threshold]

TypeOK ==
  /\ fastGeo \in BOOLEAN /\ single \in BOOLEAN /\ stop \in BOOLEAN
  /\ pc \in Phase /\ why \in Reason \cup {"none"}
  /\ res \in Result \cup {"none"}
  /\ held \in BOOLEAN /\ saved \in BOOLEAN
  /\ skip \in BOOLEAN /\ slept \in BOOLEAN
  /\ attempt \in 1..PdfAttempts
  /\ session \in {"none", "cold", "ready", "fast"}
  /\ infra \in 0..Breaker /\ gate \in 0..GateStreak /\ slow \in 0..SlowThreshold
  /\ unexpected \in 0..FailLimit
  /\ events \in Window
  /\ cooldown \in {"none", "infra", "451"}

NoEvents == [infra |-> 0, f451 |-> 0]

(* createPdfPool has launched the browser; nothing has been fetched yet. *)
Init ==
  /\ fastGeo \in BOOLEAN /\ single \in BOOLEAN /\ stop = FALSE
  /\ pc = "top" /\ why = "none" /\ res = "none"
  /\ held = FALSE /\ attempt = 1 /\ session = "cold" /\ saved = FALSE
  /\ infra = 0 /\ gate = 0 /\ slow = 0 /\ unexpected = 0
  /\ skip = FALSE /\ slept = FALSE
  /\ events = NoEvents /\ cooldown = "none"
-----------------------------------------------------------------------------
(* The registry *)

(* _record: events older than the window fall out (any number of them may  *)
(* be), the new one is added; a cool-down starts at the threshold unless   *)
(* one is running.  Counts above a threshold are not told apart.           *)
RecordEvent(kind, threshold, reason) ==
  \E kept \in 0..events[kind] :
    LET n == IF kept = threshold THEN threshold ELSE kept + 1 IN
    /\ events' = [events EXCEPT ![kind] = n]
    /\ cooldown' = IF cooldown = "none" /\ n >= threshold
                     THEN reason ELSE cooldown

RecordInfra == RecordEvent("infra", InfraThreshold, "infra")
Record451   == RecordEvent("f451", F451Threshold, "451")

Entered == cooldown = "none" /\ cooldown' # "none"

RecordSuccess == events' = NoEvents /\ UNCHANGED cooldown

MarkRecovered == events' = NoEvents /\ cooldown' = "none"

(* Time passes: isQuarantined and its kin drop an expired cool-down. *)
CooldownExpires ==
  /\ cooldown # "none"
  /\ cooldown' = "none"
  /\ UNCHANGED <<config, stop, pc, why, fetch, session, saved, loop, events>>

-----------------------------------------------------------------------------
(* The top of the loop *)

\* A mistake: the flag is never read.
ShouldStopUnread == FALSE
ShouldStop == stop

StopRequested ==
  /\ ~stop /\ stop' = TRUE
  /\ UNCHANGED <<config, pc, why, fetch, session, saved, loop, proxy>>

GoTop == pc' = "top" /\ why' = "none" /\ res' = "none"

Recover(reason) == pc' = "recover" /\ why' = reason /\ res' = "none"

StopSeen ==
  /\ pc = "top" /\ ShouldStop
  /\ pc' = "ended"
  /\ UNCHANGED <<config, stop, why, fetch, session, saved, loop, proxy>>

\* A mistake: wasQuarantined is taken for the cool-down.
QuarantinedOnceSlept == (cooldown # "none" \/ slept) /\ ~skip

(* A cooling proxy is not used.  The only worker of a pipeline without a   *)
(* PDF yet searches for a better address instead of sleeping.              *)
Quarantined == cooldown # "none" /\ ~skip

BypassSleep ==
  /\ pc = "top" /\ ~ShouldStop /\ Quarantined /\ single /\ ~saved
  /\ Recover("bypass")
  /\ UNCHANGED <<config, stop, held, attempt, session, saved, loop, proxy>>

FallAsleep ==
  /\ pc = "top" /\ ~ShouldStop /\ Quarantined /\ ~(single /\ ~saved)
  /\ pc' = "asleep" /\ slept' = TRUE
  /\ UNCHANGED <<config, stop, why, fetch, session, saved, infra, gate, slow,
                 unexpected, skip, proxy>>

(* _interruptibleSleep: a slice of the sleep is over, or the run stops. *)
Wake ==
  /\ pc = "asleep"
  /\ pc' = "top"
  /\ UNCHANGED <<config, stop, why, fetch, session, saved, loop, proxy>>

Released ==
  /\ skip' = FALSE /\ slept' = FALSE
  /\ infra' = IF slept THEN 0 ELSE infra
  /\ UNCHANGED <<gate, slow>>

Claim ==
  /\ pc = "top" /\ ~ShouldStop /\ ~Quarantined
  /\ Released
  /\ pc' = "warm" /\ held' = TRUE /\ attempt' = 1
  /\ UNCHANGED <<config, stop, why, res, session, saved, unexpected, proxy>>

(* The source is empty, or MAX_RUN is reached. *)
NothingToClaim ==
  /\ pc = "top" /\ ~ShouldStop /\ ~Quarantined
  /\ Released
  /\ pc' = "ended"
  /\ UNCHANGED <<config, stop, why, fetch, session, saved, unexpected, proxy>>

\* A mistake: exceptions are not counted.
ThrownUncounted ==
  /\ pc' = "top" /\ held' = FALSE /\ why' = "none" /\ res' = "none"
  /\ UNCHANGED <<unexpected, attempt>>

(* The catch of the loop: the act in hand, if any, is neither given back   *)
(* nor marked.  After FailLimit exceptions without a saved PDF between     *)
(* them the worker dies and the supervisor restarts the pipeline.          *)
Thrown ==
  /\ unexpected' = unexpected + 1
  /\ pc' = IF unexpected + 1 >= FailLimit THEN "dead" ELSE "top"
  /\ held' = FALSE /\ why' = "none" /\ res' = "none"
  /\ UNCHANGED attempt

ClaimThrows ==
  /\ pc = "top" /\ ~ShouldStop /\ ~Quarantined
  /\ Released
  /\ Thrown
  /\ UNCHANGED <<config, stop, session, saved, proxy>>
-----------------------------------------------------------------------------
(* The browser session *)

(* ensureKadSession: up to the end of the warm-up the session is fast; a   *)
(* failure after the base steps leaves it ready, one before them as it was.*)
Warmed == session' = "fast"

WarmFails(from) == session' \in {from, "ready"}

Slow(s) == IF s = "fast" THEN "ready" ELSE s

(* _safeRewarmup, forced: its result is ignored by the attempts. *)
SafeRewarmup == Warmed \/ WarmFails(Slow(session))

(* _restartPdfSurface: close, then init; a failed launch leaves no page. *)
Restarted    == session' = "cold"
RestartFails == session' = "none"
-----------------------------------------------------------------------------
(* downloadAndSave *)

Return(r) == pc' = "result" /\ res' = r /\ UNCHANGED <<held, attempt>>

(* Another attempt, or the last error decides: infrastructure is told by   *)
(* classifyPdfInfraError from the text of an exception.                    *)
NextAttempt(infraText) ==
  IF attempt < PdfAttempts
    THEN /\ attempt' = attempt + 1 /\ pc' = "fetch"
         /\ UNCHANGED <<res, held>>
    ELSE \E r \in {"fail"} \cup (IF infraText THEN {"infra"} ELSE {}) : Return(r)

(* The page is gone: "init() first" is thrown before anything is tried. *)
NoPage ==
  /\ pc = "warm" /\ session = "none"
  /\ Thrown
  /\ UNCHANGED <<config, stop, session, saved, infra, gate, slow, skip, slept,
                 proxy>>

(* buildKadSessionFailedReturn: a failed warm-up is always infrastructure. *)
KadSessionFailed == Return("infra")

(* The session is reused (fast, or the card of this case is open) or       *)
(* warmed up.                                                              *)
WarmUp ==
  /\ pc = "warm" /\ session # "none"
  /\ \/ /\ session \in {"ready", "fast"} /\ UNCHANGED session
        /\ pc' = "fetch" /\ UNCHANGED <<res, held, attempt>>
     \/ /\ session # "fast" /\ Warmed
        /\ pc' = "fetch" /\ UNCHANGED <<res, held, attempt>>
     \/ /\ session # "fast" /\ WarmFails(session)
        /\ KadSessionFailed
  /\ UNCHANGED <<config, stop, why, saved, loop, proxy>>

(* The PDF is written: over HTTP, which is tried once and falls back on    *)
(* the page, or through the page.                                          *)
Written ==
  /\ saved' = TRUE /\ Warmed
  /\ Return("ok")
  /\ UNCHANGED <<config, stop, why, loop, proxy>>

SavedOverHttp == pc = "fetch" /\ attempt = 1 /\ Written

Saved == pc = "fetch" /\ Written

(* evaluate threw or timed out, a tiny payload, or a warm-up is asked for. *)
Rewarm ==
  /\ pc = "fetch"
  /\ SafeRewarmup
  /\ \E threw \in BOOLEAN : NextAttempt(threw)
  /\ UNCHANGED <<config, stop, why, saved, loop, proxy>>

(* A captcha gate or a 451: the act is for later, no attempt is burnt. *)
Deferred ==
  /\ pc = "fetch"
  /\ session' = Slow(session)
  /\ \E r \in {"gate", "451"} : Return(r)
  /\ UNCHANGED <<config, stop, why, saved, loop, proxy>>

(* Another status worth a retry: the rate-limit ladder is climbed. *)
RateLimited ==
  /\ pc = "fetch"
  /\ session' = Slow(session)
  /\ pc' = "limit"
  /\ UNCHANGED <<config, stop, why, fetch, saved, loop, proxy>>

Unrecoverable ==
  /\ pc = "fetch"
  /\ Return("fail")
  /\ UNCHANGED <<config, stop, why, session, saved, loop, proxy>>

(* _handleRateLimit: after the ladder's step the tab is replaced (which    *)
(* may throw) and warmed up without cookies; if that fails the browser is  *)
(* restarted and warmed up again.                                          *)
RecycleThrows ==
  /\ pc = "limit"
  /\ Thrown
  /\ UNCHANGED <<config, stop, session, saved, infra, gate, slow, skip, slept,
                 proxy>>

Rewarmed ==
  /\ pc = "limit"
  /\ Warmed
  /\ NextAttempt(FALSE)
  /\ UNCHANGED <<config, stop, why, saved, loop, proxy>>

(* What the text of the last error makes of a lost session: infrastructure *)
(* (classifyPdfInfraError), a sign against the address                     *)
(* (isProbationRotateFirstTrigger), or neither.                            *)
Classified == {"infra", "trigger", "skip"}

SessionLost ==
  /\ pc = "limit"
  /\ RestartFails \/ WarmFails("cold")
  /\ \E r \in Classified : Return(r)
  /\ UNCHANGED <<config, stop, why, saved, loop, proxy>>
-----------------------------------------------------------------------------
(* What the loop makes of the result *)

\* A mistake: the act is given back when the recovery is over.
DeferActAfterwards == UNCHANGED <<held, attempt>>

(* The act goes back to the pool before anything else is done with it. *)
DeferAct == held' = FALSE /\ UNCHANGED attempt

(* An infrastructure failure: before the first PDF the address is blamed,  *)
(* after it the failure is counted (up to the breaker's threshold: higher  *)
(* counts are not told apart).                                             *)
OnInfra ==
  /\ pc = "result" /\ res = "infra"
  /\ DeferAct
  /\ infra' = IF infra < Breaker THEN infra + 1 ELSE infra
  /\ gate' = 0
  /\ IF saved
       THEN pc' = "record" /\ why' = "infra" /\ UNCHANGED res
       ELSE Recover("infraFirst")
  /\ UNCHANGED <<config, stop, session, saved, slow, unexpected, skip, slept,
                 proxy>>

(* recordInfra: the event that starts a cool-down also starts a recovery;  *)
(* otherwise a back-off, and the breaker after a streak.                   *)
OnInfraRecorded ==
  /\ pc = "record" /\ res = "infra"
  /\ RecordInfra
  /\ IF Entered
       THEN Recover("infra")
       ELSE /\ pc' = IF infra >= Breaker /\ ~ShouldStop
                       THEN "breaker" ELSE "top"
            /\ why' = "none" /\ res' = "none"
  /\ UNCHANGED <<config, stop, held, attempt, session, saved, loop>>

(* _attemptWorkerRecovery: the address is rotated and the browser          *)
(* restarted; a pause follows when either did not work.                    *)
WorkerRecovery == Restarted \/ RestartFails

BreakerTrips ==
  /\ pc = "breaker"
  /\ WorkerRecovery
  /\ infra' = 0
  /\ GoTop
  /\ UNCHANGED <<config, stop, held, attempt, saved, gate, slow, unexpected,
                 skip, slept, proxy>>

OnGate ==
  /\ pc = "result" /\ res = "gate"
  /\ DeferAct
  /\ infra' = 0
  /\ gate' = IF saved THEN 0 ELSE gate + 1
  /\ IF ~saved /\ gate + 1 >= GateStreak THEN Recover("gate") ELSE GoTop
  /\ UNCHANGED <<config, stop, session, saved, slow, unexpected, skip, slept,
                 proxy>>

On451 ==
  /\ pc = "result" /\ res = "451"
  /\ DeferAct
  /\ infra' = 0 /\ gate' = 0
  /\ IF saved
       THEN pc' = "record" /\ why' = "451" /\ UNCHANGED res
       ELSE Recover("451First")
  /\ UNCHANGED <<config, stop, session, saved, slow, unexpected, skip, slept,
                 proxy>>

On451Recorded ==
  /\ pc = "record" /\ res = "451"
  /\ Record451
  /\ IF Entered THEN Recover("451") ELSE GoTop
  /\ UNCHANGED <<config, stop, held, attempt, session, saved, loop>>

(* A recoverable error that speaks against the address: before the first   *)
(* PDF at once, later when SlowThreshold of them fall into the window.     *)
OnTriggerFirst ==
  /\ pc = "result" /\ res = "trigger" /\ ~saved
  /\ DeferAct
  /\ Recover("probation")
  /\ UNCHANGED <<config, stop, session, saved, loop, proxy>>

OnTriggerSlow ==
  /\ pc = "result" /\ res = "trigger" /\ saved /\ SlowThreshold > 0
  /\ \E kept \in 0..slow :
       IF kept + 1 >= SlowThreshold
         THEN /\ slow' = 0
              /\ Recover("slow")
              /\ UNCHANGED infra
         ELSE /\ slow' = kept + 1
              /\ infra' = 0
              /\ GoTop
  /\ DeferAct
  /\ UNCHANGED <<config, stop, session, saved, gate, unexpected, skip, slept,
                 proxy>>

(* A recoverable error without consequences, or a failure that is marked   *)
(* in the database: the act leaves this run.                               *)
OnSkipOrFail ==
  /\ pc = "result"
  /\ res \in {"skip", "fail"} \/ (res = "trigger" /\ saved /\ SlowThreshold = 0)
  /\ held' = FALSE /\ infra' = 0
  /\ GoTop
  /\ UNCHANGED <<config, stop, attempt, session, saved, gate, slow, unexpected,
                 skip, slept, proxy>>

(* The PDF is marked in the database and handed to the extractors; the     *)
(* push fails when the queue was closed.                                   *)
OnOk ==
  /\ pc = "result" /\ res = "ok"
  /\ held' = FALSE
  /\ infra' = 0 /\ unexpected' = 0 /\ gate' = 0
  /\ RecordSuccess
  /\ why' = "none" /\ res' = "none"
  /\ pc' \in {"top", "ended"}
  /\ UNCHANGED <<config, stop, attempt, session, saved, slow, skip, slept>>
-----------------------------------------------------------------------------
(* Recovery of the address *)

(* loopUntilSuccess, as each branch of the loop passes it. *)
UntilSuccess ==
  \/ why \in {"bypass", "infraFirst", "gate", "451First", "probation"}
  \/ why \in {"infra", "451"} /\ (~saved \/ single)

\* A mistake: the check is skipped but the cool-down is not lifted.
RecoverOkStillCooling ==
  /\ pc = "recover"
  /\ Restarted
  /\ skip' = (skip \/ why \notin {"bypass", "slow"})
  /\ infra' = IF why \in {"451", "451First", "gate"} THEN infra ELSE 0
  /\ gate' = IF why = "gate" THEN 0 ELSE gate
  /\ GoTop
  /\ UNCHANGED <<config, stop, held, attempt, saved, slow, unexpected, slept,
                 proxy>>

(* The browser was restarted on an address that answers. *)
RecoverOk ==
  /\ pc = "recover"
  /\ Restarted
  /\ IF why = "slow" THEN UNCHANGED proxy ELSE MarkRecovered
  /\ skip' = (skip \/ why \notin {"bypass", "slow"})
  /\ infra' = IF why \in {"451", "451First", "gate"} THEN infra ELSE 0
  /\ gate' = IF why = "gate" THEN 0 ELSE gate
  /\ GoTop
  /\ UNCHANGED <<config, stop, held, attempt, saved, slow, unexpected, slept>>

(* Without the fast search (legacy: one changeGeo or rotateIp) it may fail *)
(* at any time; the search gives up after its rounds, and one until        *)
(* success only when the run stops.  The failure is then recorded, except  *)
(* where that was done before.                                             *)
RecoverFails ==
  /\ pc = "recover"
  /\ fastGeo /\ UntilSuccess => ShouldStop
  /\ UNCHANGED session \/ RestartFails
  /\ gate' = IF why = "gate" THEN 0 ELSE gate
  /\ CASE why = "infraFirst" -> pc' = "record" /\ res' = "infra" /\ why' = why
       [] why = "451First"   -> pc' = "record" /\ res' = "451" /\ why' = why
       [] why = "bypass"     -> pc' = "ended" /\ UNCHANGED <<res, why>>
       [] OTHER              -> GoTop
  /\ UNCHANGED <<config, stop, held, attempt, saved, infra, slow, unexpected,
                 skip, slept, proxy>>
-----------------------------------------------------------------------------
Session  == WarmUp \/ NoPage \/ RecycleThrows \/ Rewarmed \/ SessionLost
Attempt  == Saved \/ SavedOverHttp \/ Rewarm \/ Deferred \/ RateLimited \/ Unrecoverable
Handle   == \/ OnInfra \/ OnInfraRecorded \/ BreakerTrips
            \/ OnGate \/ On451 \/ On451Recorded
            \/ OnTriggerFirst \/ OnTriggerSlow \/ OnSkipOrFail \/ OnOk
Top      == \/ StopSeen \/ BypassSleep \/ FallAsleep \/ Wake
            \/ Claim \/ NothingToClaim \/ ClaimThrows
WorkerStep == Top \/ Session \/ Attempt \/ Handle \/ RecoverOk \/ RecoverFails

Finished == pc \in Ended /\ UNCHANGED vars

Next == WorkerStep \/ CooldownExpires \/ StopRequested \/ Finished

Spec == Init /\ [][Next]_vars

(* The event loop goes on running the worker, and a cool-down's time comes.*)
Fairness == WF_vars(WorkerStep) /\ WF_vars(CooldownExpires)

FairSpec == Spec /\ Fairness
-----------------------------------------------------------------------------
(* Properties *)

(* A proxy that cools down is left alone: no page is opened and no PDF     *)
(* asked for through it.  Every branch that lets the worker skip the check *)
(* of the cool-down after a recovery has lifted the cool-down as well.     *)
NoFetchInCooldown ==
  pc \in {"warm", "fetch", "limit"} => cooldown = "none"

(* The worker holds no act while it searches for an address, sleeps or     *)
(* restarts its browser, which takes minutes: whatever branch of the loop  *)
(* sent it there gave the act back first, so that others can take it.      *)
IdleWithoutAct ==
  pc \in {"recover", "asleep", "breaker"} => ~held

(* Sleep is not for ever: the worker comes back to work or the run ends.   *)
SleepEnds == pc = "asleep" ~> pc \in {"warm", "recover"} \cup Ended

(* A worker whose browser could not be restarted does not hang on to its   *)
(* place: a later recovery starts a browser, or the exceptions end the     *)
(* worker and the supervisor restarts the pipeline.                        *)
LostBrowserNoticed == session = "none" ~> session # "none" \/ pc \in Ended

(* When the run is stopped the worker ends, wherever it is. *)
StopObserved == stop ~> pc \in Ended
=============================================================================
