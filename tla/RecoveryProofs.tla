--------------------------- MODULE RecoveryProofs ---------------------------
(***************************************************************************)
(* Proofs about one download worker, for any limits and thresholds         *)
(* (DownloadWorker), and about the search for a geo, for any workers,      *)
(* offers, homes and healthy geos (GeoRecovery).                           *)
(***************************************************************************)
EXTENDS DownloadWorker, GeoRecovery, WellFoundedInduction, TLAPS

-----------------------------------------------------------------------------
(* The download worker. *)

\* The check of the cool-down is skipped only where the cool-down was lifted,
\* and at most until the next claim.
CoolInv ==
  /\ skip => pc \in {"top", "ended"} /\ cooldown = "none"
  /\ NoFetchInCooldown

\* An act is held between its claim and the answer to its result.
HeldInv == held => pc \in {"warm", "fetch", "limit", "result"}

\* A counter that has reached its limit is about to be reset, or was the last.
LimitInv ==
  /\ gate = GateStreak => pc = "recover" /\ why = "gate"
  /\ unexpected = FailLimit => pc = "dead"

WorkerInv == TypeOK /\ CoolInv /\ HeldInv /\ LimitInv

\* The types in three parts, one at a time for the provers.
PhaseTypes ==
  /\ pc \in Phase /\ why \in Reason \cup {"none"} /\ res \in Result \cup {"none"}
  /\ session \in {"none", "cold", "ready", "fast"}
  /\ cooldown \in {"none", "infra", "451"}

BoolTypes ==
  /\ fastGeo \in BOOLEAN /\ single \in BOOLEAN /\ stop \in BOOLEAN
  /\ held \in BOOLEAN /\ saved \in BOOLEAN
  /\ skip \in BOOLEAN /\ slept \in BOOLEAN

CountTypes ==
  /\ attempt \in 1..PdfAttempts
  /\ infra \in 0..Breaker /\ gate \in 0..GateStreak /\ slow \in 0..SlowThreshold
  /\ unexpected \in 0..FailLimit /\ events \in Window

LEMMA WorkerParts == TypeOK <=> PhaseTypes /\ BoolTypes /\ CountTypes
BY DEF TypeOK, PhaseTypes, BoolTypes, CountTypes

\* WorkerInv, as its parts are kept.
WInv == /\ PhaseTypes /\ BoolTypes /\ CountTypes
        /\ CoolInv /\ HeldInv /\ LimitInv

LEMMA WorkerJoined == WorkerInv <=> WInv
BY WorkerParts DEF WorkerInv, WInv

LEMMA WorkerStart == ASSUME Init PROVE WInv
<1>1. PhaseTypes /\ BoolTypes
  BY DEF Init, PhaseTypes, BoolTypes, Phase
<1>2. CountTypes
  BY WorkerAssumption DEF Init, CountTypes, NoEvents, Window
<1>3. CoolInv /\ HeldInv /\ LimitInv
  BY WorkerAssumption DEF Init, CoolInv, NoFetchInCooldown, HeldInv, LimitInv
<1> QED
  BY <1>1, <1>2, <1>3 DEF WInv

\* The top of the loop: a claim lifts what let the worker skip the check.
LEMMA TopKeeps == ASSUME WInv, Top PROVE WInv'
<1> USE WorkerAssumption DEF WInv, config, loop, fetch, proxy
<1>1. CASE StopSeen
  <2>1. PhaseTypes' /\ BoolTypes' /\ CountTypes'
    BY <1>1
       DEF StopSeen, ShouldStop, PhaseTypes, Phase, Result, Reason, Ended,
           BoolTypes, CountTypes, Window
  <2>2. CoolInv' /\ HeldInv' /\ LimitInv'
    BY <1>1
       DEF StopSeen, ShouldStop, CoolInv, NoFetchInCooldown, HeldInv, LimitInv,
           CountTypes
  <2> QED
    BY <2>1, <2>2
<1>2. CASE BypassSleep
  <2>1. PhaseTypes' /\ BoolTypes' /\ CountTypes'
    BY <1>2
       DEF BypassSleep, Quarantined, Recover, PhaseTypes, Phase, Result, Reason,
           Ended, BoolTypes, CountTypes, Window
  <2>2. CoolInv' /\ HeldInv' /\ LimitInv'
    BY <1>2
       DEF BypassSleep, Quarantined, Recover, CoolInv, NoFetchInCooldown,
           HeldInv, LimitInv, CountTypes
  <2> QED
    BY <2>1, <2>2
<1>3. CASE FallAsleep
  <2>1. PhaseTypes' /\ BoolTypes' /\ CountTypes'
    BY <1>3
       DEF FallAsleep, Quarantined, PhaseTypes, Phase, Result, Reason, Ended,
           BoolTypes, CountTypes, Window
  <2>2. CoolInv' /\ HeldInv' /\ LimitInv'
    BY <1>3
       DEF FallAsleep, Quarantined, CoolInv, NoFetchInCooldown, HeldInv,
           LimitInv, CountTypes
  <2> QED
    BY <2>1, <2>2
<1>4. CASE Wake
  <2>1. PhaseTypes' /\ BoolTypes' /\ CountTypes'
    BY <1>4
       DEF Wake, PhaseTypes, Phase, Result, Reason, Ended, BoolTypes,
           CountTypes, Window
  <2>2. CoolInv' /\ HeldInv' /\ LimitInv'
    BY <1>4 DEF Wake, CoolInv, NoFetchInCooldown, HeldInv, LimitInv, CountTypes
  <2> QED
    BY <2>1, <2>2
<1>5. CASE Claim
  <2>1. PhaseTypes'
    BY <1>5
       DEF Claim, Released, Quarantined, PhaseTypes, Phase, Result, Reason,
           Ended
  <2>2. BoolTypes'
    BY <1>5 DEF Claim, Released, Quarantined, BoolTypes
  <2>3. CountTypes'
    BY <1>5 DEF Claim, Released, Quarantined, CountTypes, Window
  <2>4. CoolInv' /\ HeldInv' /\ LimitInv'
    BY <1>5
       DEF Claim, Released, Quarantined, CoolInv, NoFetchInCooldown, HeldInv,
           LimitInv, CountTypes
  <2> QED
    BY <2>1, <2>2, <2>3, <2>4
<1>6. CASE NothingToClaim
  <2>1. PhaseTypes'
    BY <1>6
       DEF NothingToClaim, Released, PhaseTypes, Phase, Result, Reason, Ended
  <2>2. BoolTypes'
    BY <1>6 DEF NothingToClaim, Released, BoolTypes
  <2>3. CountTypes'
    BY <1>6 DEF NothingToClaim, Released, CountTypes, Window
  <2>4. CoolInv' /\ HeldInv' /\ LimitInv'
    BY <1>6
       DEF NothingToClaim, Released, CoolInv, NoFetchInCooldown, HeldInv,
           LimitInv, CountTypes
  <2> QED
    BY <2>1, <2>2, <2>3, <2>4
<1>7. CASE ClaimThrows
  <2>1. PhaseTypes' /\ BoolTypes'
    BY <1>7
       DEF ClaimThrows, Released, Thrown, PhaseTypes, Phase, Result, Reason,
           Ended, BoolTypes
  <2>2. CountTypes'
    BY <1>7 DEF ClaimThrows, Released, Thrown, CountTypes, Window, LimitInv
  <2>3. CoolInv' /\ HeldInv' /\ LimitInv'
    BY <1>7
       DEF ClaimThrows, Released, Thrown, CoolInv, NoFetchInCooldown, HeldInv,
           LimitInv, CountTypes
  <2> QED
    BY <2>1, <2>2, <2>3
<1> QED
  BY <1>1, <1>2, <1>3, <1>4, <1>5, <1>6, <1>7 DEF Top

\* The browser session.
LEMMA SessionKeeps == ASSUME WInv, Session PROVE WInv'
<1> USE WorkerAssumption DEF WInv, config, loop, fetch, proxy
<1>1. CASE WarmUp
  <2>1. PhaseTypes' /\ BoolTypes' /\ CountTypes'
    BY <1>1
       DEF WarmUp, Warmed, WarmFails, KadSessionFailed, Return, PhaseTypes,
           Phase, Result, Reason, Ended, BoolTypes, CountTypes, Window
  <2>2. CoolInv' /\ HeldInv' /\ LimitInv'
    BY <1>1
       DEF WarmUp, Warmed, WarmFails, KadSessionFailed, Return, CoolInv,
           NoFetchInCooldown, HeldInv, LimitInv, CountTypes
  <2> QED
    BY <2>1, <2>2
<1>2. CASE NoPage
  <2>1. PhaseTypes' /\ BoolTypes'
    BY <1>2
       DEF NoPage, Thrown, PhaseTypes, Phase, Result, Reason, Ended, BoolTypes
  <2>2. CountTypes'
    BY <1>2 DEF NoPage, Thrown, CountTypes, Window, LimitInv
  <2>3. CoolInv' /\ HeldInv' /\ LimitInv'
    BY <1>2
       DEF NoPage, Thrown, CoolInv, NoFetchInCooldown, HeldInv, LimitInv,
           CountTypes
  <2> QED
    BY <2>1, <2>2, <2>3
<1>3. CASE RecycleThrows
  <2>1. PhaseTypes' /\ BoolTypes'
    BY <1>3
       DEF RecycleThrows, Thrown, PhaseTypes, Phase, Result, Reason, Ended,
           BoolTypes
  <2>2. CountTypes'
    BY <1>3 DEF RecycleThrows, Thrown, CountTypes, Window, LimitInv
  <2>3. CoolInv' /\ HeldInv' /\ LimitInv'
    BY <1>3
       DEF RecycleThrows, Thrown, CoolInv, NoFetchInCooldown, HeldInv, LimitInv,
           CountTypes
  <2> QED
    BY <2>1, <2>2, <2>3
<1>4. CASE Rewarmed
  <2>1. PhaseTypes' /\ BoolTypes' /\ CountTypes'
    BY <1>4
       DEF Rewarmed, Warmed, NextAttempt, Return, PhaseTypes, Phase, Result,
           Reason, Ended, BoolTypes, CountTypes, Window
  <2>2. CoolInv' /\ HeldInv' /\ LimitInv'
    BY <1>4
       DEF Rewarmed, Warmed, NextAttempt, Return, CoolInv, NoFetchInCooldown,
           HeldInv, LimitInv, CountTypes
  <2> QED
    BY <2>1, <2>2
<1>5. CASE SessionLost
  <2>1. PhaseTypes' /\ BoolTypes' /\ CountTypes'
    BY <1>5
       DEF SessionLost, RestartFails, WarmFails, Classified, Return, PhaseTypes,
           Phase, Result, Reason, Ended, BoolTypes, CountTypes, Window
  <2>2. CoolInv' /\ HeldInv' /\ LimitInv'
    BY <1>5
       DEF SessionLost, RestartFails, WarmFails, Classified, Return, CoolInv,
           NoFetchInCooldown, HeldInv, LimitInv, CountTypes
  <2> QED
    BY <2>1, <2>2
<1> QED
  BY <1>1, <1>2, <1>3, <1>4, <1>5 DEF Session

\* The attempts at the PDF.
LEMMA AttemptKeeps == ASSUME WInv, Attempt PROVE WInv'
<1> USE WorkerAssumption DEF WInv, config, loop, fetch, proxy
<1>1. CASE Saved
  <2>1. PhaseTypes' /\ BoolTypes' /\ CountTypes'
    BY <1>1
       DEF Saved, Written, Warmed, Return, PhaseTypes, Phase, Result, Reason,
           Ended, BoolTypes, CountTypes, Window
  <2>2. CoolInv' /\ HeldInv' /\ LimitInv'
    BY <1>1
       DEF Saved, Written, Warmed, Return, CoolInv, NoFetchInCooldown, HeldInv,
           LimitInv, CountTypes
  <2> QED
    BY <2>1, <2>2
<1>2. CASE SavedOverHttp
  <2>1. PhaseTypes' /\ BoolTypes' /\ CountTypes'
    BY <1>2
       DEF SavedOverHttp, Written, Warmed, Return, PhaseTypes, Phase, Result,
           Reason, Ended, BoolTypes, CountTypes, Window
  <2>2. CoolInv' /\ HeldInv' /\ LimitInv'
    BY <1>2
       DEF SavedOverHttp, Written, Warmed, Return, CoolInv, NoFetchInCooldown,
           HeldInv, LimitInv, CountTypes
  <2> QED
    BY <2>1, <2>2
<1>3. CASE Rewarm
  <2>1. PhaseTypes' /\ BoolTypes' /\ CountTypes'
    BY <1>3
       DEF Rewarm, SafeRewarmup, Warmed, WarmFails, Slow, NextAttempt, Return,
           PhaseTypes, Phase, Result, Reason, Ended, BoolTypes, CountTypes,
           Window
  <2>2. CoolInv' /\ HeldInv' /\ LimitInv'
    BY <1>3
       DEF Rewarm, SafeRewarmup, Warmed, WarmFails, Slow, NextAttempt, Return,
           CoolInv, NoFetchInCooldown, HeldInv, LimitInv, CountTypes
  <2> QED
    BY <2>1, <2>2
<1>4. CASE Deferred
  <2>1. PhaseTypes' /\ BoolTypes' /\ CountTypes'
    BY <1>4
       DEF Deferred, Slow, Return, PhaseTypes, Phase, Result, Reason, Ended,
           BoolTypes, CountTypes, Window
  <2>2. CoolInv' /\ HeldInv' /\ LimitInv'
    BY <1>4
       DEF Deferred, Slow, Return, CoolInv, NoFetchInCooldown, HeldInv,
           LimitInv, CountTypes
  <2> QED
    BY <2>1, <2>2
<1>5. CASE RateLimited
  <2>1. PhaseTypes' /\ BoolTypes' /\ CountTypes'
    BY <1>5
       DEF RateLimited, Slow, PhaseTypes, Phase, Result, Reason, Ended,
           BoolTypes, CountTypes, Window
  <2>2. CoolInv' /\ HeldInv' /\ LimitInv'
    BY <1>5
       DEF RateLimited, Slow, CoolInv, NoFetchInCooldown, HeldInv, LimitInv,
           CountTypes
  <2> QED
    BY <2>1, <2>2
<1>6. CASE Unrecoverable
  <2>1. PhaseTypes' /\ BoolTypes' /\ CountTypes'
    BY <1>6
       DEF Unrecoverable, Return, PhaseTypes, Phase, Result, Reason, Ended,
           BoolTypes, CountTypes, Window
  <2>2. CoolInv' /\ HeldInv' /\ LimitInv'
    BY <1>6
       DEF Unrecoverable, Return, CoolInv, NoFetchInCooldown, HeldInv, LimitInv,
           CountTypes
  <2> QED
    BY <2>1, <2>2
<1> QED
  BY <1>1, <1>2, <1>3, <1>4, <1>5, <1>6 DEF Attempt

\* What the loop makes of the result: the act is given back first.
LEMMA HandleKeeps == ASSUME WInv, Handle PROVE WInv'
<1> USE WorkerAssumption DEF WInv, config, loop, fetch, proxy
<1>1. CASE OnInfra
  <2>1. PhaseTypes' /\ BoolTypes'
    BY <1>1
       DEF OnInfra, DeferAct, Recover, PhaseTypes, Phase, Result, Reason, Ended,
           BoolTypes
  <2>2. CountTypes'
    BY <1>1 DEF OnInfra, DeferAct, Recover, CountTypes, Window
  <2>3. CoolInv' /\ HeldInv' /\ LimitInv'
    BY <1>1
       DEF OnInfra, DeferAct, Recover, CoolInv, NoFetchInCooldown, HeldInv,
           LimitInv, CountTypes
  <2> QED
    BY <2>1, <2>2, <2>3
<1>2. CASE OnInfraRecorded
  <2>1. PhaseTypes' /\ BoolTypes' /\ CountTypes'
    BY <1>2
       DEF OnInfraRecorded, RecordInfra, RecordEvent, Recover, PhaseTypes,
           Phase, Result, Reason, Ended, BoolTypes, CountTypes, Window
  <2>2. CoolInv' /\ HeldInv' /\ LimitInv'
    BY <1>2
       DEF OnInfraRecorded, RecordInfra, RecordEvent, Recover, CoolInv,
           NoFetchInCooldown, HeldInv, LimitInv, CountTypes
  <2> QED
    BY <2>1, <2>2
<1>3. CASE BreakerTrips
  <2>1. PhaseTypes' /\ BoolTypes' /\ CountTypes'
    BY <1>3
       DEF BreakerTrips, WorkerRecovery, Restarted, RestartFails, GoTop,
           PhaseTypes, Phase, Result, Reason, Ended, BoolTypes, CountTypes,
           Window
  <2>2. CoolInv' /\ HeldInv' /\ LimitInv'
    BY <1>3
       DEF BreakerTrips, WorkerRecovery, Restarted, RestartFails, GoTop,
           CoolInv, NoFetchInCooldown, HeldInv, LimitInv, CountTypes
  <2> QED
    BY <2>1, <2>2
<1>4. CASE OnGate
  <2>1. PhaseTypes' /\ BoolTypes'
    BY <1>4
       DEF OnGate, DeferAct, Recover, GoTop, PhaseTypes, Phase, Result, Reason,
           Ended, BoolTypes
  <2>2. CountTypes'
    BY <1>4 DEF OnGate, DeferAct, Recover, GoTop, CountTypes, Window, LimitInv
  <2>3. CoolInv' /\ HeldInv' /\ LimitInv'
    BY <1>4
       DEF OnGate, DeferAct, Recover, GoTop, CoolInv, NoFetchInCooldown,
           HeldInv, LimitInv, CountTypes
  <2> QED
    BY <2>1, <2>2, <2>3
<1>5. CASE On451
  <2>1. PhaseTypes' /\ BoolTypes'
    BY <1>5
       DEF On451, DeferAct, Recover, PhaseTypes, Phase, Result, Reason, Ended,
           BoolTypes
  <2>2. CountTypes'
    BY <1>5 DEF On451, DeferAct, Recover, CountTypes, Window
  <2>3. CoolInv' /\ HeldInv' /\ LimitInv'
    BY <1>5
       DEF On451, DeferAct, Recover, CoolInv, NoFetchInCooldown, HeldInv,
           LimitInv, CountTypes
  <2> QED
    BY <2>1, <2>2, <2>3
<1>6. CASE On451Recorded
  <2>1. PhaseTypes' /\ BoolTypes' /\ CountTypes'
    BY <1>6
       DEF On451Recorded, Record451, RecordEvent, Recover, GoTop, PhaseTypes,
           Phase, Result, Reason, Ended, BoolTypes, CountTypes, Window
  <2>2. CoolInv' /\ HeldInv' /\ LimitInv'
    BY <1>6
       DEF On451Recorded, Record451, RecordEvent, Recover, GoTop, CoolInv,
           NoFetchInCooldown, HeldInv, LimitInv, CountTypes
  <2> QED
    BY <2>1, <2>2
<1>7. CASE OnTriggerFirst
  <2>1. PhaseTypes' /\ BoolTypes' /\ CountTypes'
    BY <1>7
       DEF OnTriggerFirst, DeferAct, Recover, PhaseTypes, Phase, Result, Reason,
           Ended, BoolTypes, CountTypes, Window
  <2>2. CoolInv' /\ HeldInv' /\ LimitInv'
    BY <1>7
       DEF OnTriggerFirst, DeferAct, Recover, CoolInv, NoFetchInCooldown,
           HeldInv, LimitInv, CountTypes
  <2> QED
    BY <2>1, <2>2
<1>8. CASE OnTriggerSlow
  <2>1. PhaseTypes' /\ BoolTypes'
    BY <1>8
       DEF OnTriggerSlow, DeferAct, Recover, GoTop, PhaseTypes, Phase, Result,
           Reason, Ended, BoolTypes
  <2>2. CountTypes'
    BY <1>8 DEF OnTriggerSlow, DeferAct, Recover, GoTop, CountTypes, Window
  <2>3. CoolInv' /\ HeldInv' /\ LimitInv'
    BY <1>8
       DEF OnTriggerSlow, DeferAct, Recover, GoTop, CoolInv, NoFetchInCooldown,
           HeldInv, LimitInv, CountTypes
  <2> QED
    BY <2>1, <2>2, <2>3
<1>9. CASE OnSkipOrFail
  <2>1. PhaseTypes' /\ BoolTypes'
    BY <1>9
       DEF OnSkipOrFail, GoTop, PhaseTypes, Phase, Result, Reason, Ended,
           BoolTypes
  <2>2. CountTypes'
    BY <1>9 DEF OnSkipOrFail, GoTop, CountTypes, Window
  <2>3. CoolInv' /\ HeldInv' /\ LimitInv'
    BY <1>9
       DEF OnSkipOrFail, GoTop, CoolInv, NoFetchInCooldown, HeldInv, LimitInv,
           CountTypes
  <2> QED
    BY <2>1, <2>2, <2>3
<1>10. CASE OnOk
  <2>1. PhaseTypes' /\ BoolTypes'
    BY <1>10
       DEF OnOk, RecordSuccess, NoEvents, PhaseTypes, Phase, Result, Reason,
           Ended, BoolTypes
  <2>2. CountTypes'
    BY <1>10 DEF OnOk, RecordSuccess, NoEvents, CountTypes, Window
  <2>3. CoolInv' /\ HeldInv' /\ LimitInv'
    BY <1>10
       DEF OnOk, RecordSuccess, NoEvents, CoolInv, NoFetchInCooldown, HeldInv,
           LimitInv, CountTypes
  <2> QED
    BY <2>1, <2>2, <2>3
<1> QED
  BY <1>1, <1>2, <1>3, <1>4, <1>5, <1>6, <1>7, <1>8, <1>9, <1>10 DEF Handle

\* The end of a recovery: the cool-down is lifted with the check.
LEMMA RecoveredKeeps ==
  ASSUME WInv, RecoverOk \/ RecoverFails \/ CooldownExpires \/ StopRequested
  PROVE  WInv'
<1> USE WorkerAssumption DEF WInv, config, loop, fetch, proxy
<1>1. CASE RecoverOk
  <2>1. PhaseTypes' /\ BoolTypes' /\ CountTypes'
    BY <1>1
       DEF RecoverOk, Restarted, MarkRecovered, NoEvents, GoTop, PhaseTypes,
           Phase, Result, Reason, Ended, BoolTypes, CountTypes, Window
  <2>2. CoolInv' /\ HeldInv' /\ LimitInv'
    BY <1>1
       DEF RecoverOk, Restarted, MarkRecovered, NoEvents, GoTop, CoolInv,
           NoFetchInCooldown, HeldInv, LimitInv, CountTypes
  <2> QED
    BY <2>1, <2>2
<1>2. CASE RecoverFails
  <2>1. PhaseTypes' /\ BoolTypes' /\ CountTypes'
    BY <1>2
       DEF RecoverFails, RestartFails, GoTop, PhaseTypes, Phase, Result, Reason,
           Ended, BoolTypes, CountTypes, Window
  <2>2. CoolInv' /\ HeldInv' /\ LimitInv'
    BY <1>2
       DEF RecoverFails, RestartFails, GoTop, CoolInv, NoFetchInCooldown,
           HeldInv, LimitInv, CountTypes
  <2> QED
    BY <2>1, <2>2
<1>3. CASE CooldownExpires
  <2>1. PhaseTypes' /\ BoolTypes' /\ CountTypes'
    BY <1>3
       DEF CooldownExpires, PhaseTypes, Phase, Result, Reason, Ended, BoolTypes,
           CountTypes, Window
  <2>2. CoolInv' /\ HeldInv' /\ LimitInv'
    BY <1>3
       DEF CooldownExpires, CoolInv, NoFetchInCooldown, HeldInv, LimitInv,
           CountTypes
  <2> QED
    BY <2>1, <2>2
<1>4. CASE StopRequested
  <2>1. PhaseTypes' /\ BoolTypes' /\ CountTypes'
    BY <1>4
       DEF StopRequested, PhaseTypes, Phase, Result, Reason, Ended, BoolTypes,
           CountTypes, Window
  <2>2. CoolInv' /\ HeldInv' /\ LimitInv'
    BY <1>4
       DEF StopRequested, CoolInv, NoFetchInCooldown, HeldInv, LimitInv,
           CountTypes
  <2> QED
    BY <2>1, <2>2
<1> QED
  BY <1>1, <1>2, <1>3, <1>4

LEMMA WorkerKeeps == ASSUME WInv, [Next]_vars PROVE WInv'
<1>1. CASE UNCHANGED vars
  <2> USE <1>1 DEF vars, config, loop, fetch, proxy
  <2>1. PhaseTypes' /\ BoolTypes' /\ CountTypes'
    BY DEF WInv, PhaseTypes, BoolTypes, CountTypes
  <2>2. CoolInv' /\ HeldInv' /\ LimitInv'
    BY DEF WInv, CoolInv, NoFetchInCooldown, HeldInv, LimitInv
  <2> QED
    BY <2>1, <2>2 DEF WInv
<1> QED
  BY <1>1, TopKeeps, SessionKeeps, AttemptKeeps, HandleKeeps, RecoveredKeeps
     DEF Next, WorkerStep, Finished

\* The inductive invariant of the worker.
THEOREM WorkerInvariant == Spec => []WorkerInv
<1>1. Spec => []WInv
  BY WorkerStart, WorkerKeeps, PTL DEF Spec
<1> QED
  BY <1>1, WorkerJoined, PTL

\* Type correctness of the worker.
THEOREM WorkerTyping == Spec => []TypeOK
<1>1. WorkerInv => TypeOK
  BY DEF WorkerInv
<1> QED
  BY <1>1, WorkerInvariant, PTL

\* No page is opened and no PDF asked for through a proxy that cools down
\* (_downloadWorker, skipQuarantineCheckOnce).
THEOREM CoolingLeftAlone == Spec => []NoFetchInCooldown
<1>1. WorkerInv => NoFetchInCooldown
  BY DEF WorkerInv, CoolInv
<1> QED
  BY <1>1, WorkerInvariant, PTL

\* The worker gives its act back before it recovers, sleeps or restarts its
\* browser (_deferAct comes first in every branch).
THEOREM ActGivenBack == Spec => []IdleWithoutAct
<1>1. WorkerInv => IdleWithoutAct
  BY DEF WorkerInv, HeldInv, IdleWithoutAct
<1> QED
  BY <1>1, WorkerInvariant, PTL

-----------------------------------------------------------------------------
(* The choice of an offer. *)

LEMMA LeastNumber ==
  ASSUME NEW N \in SUBSET Nat, N # {}
  PROVE  \E m \in N : \A k \in N : m =< k
<1> DEFINE R == OpToRel(<, Nat)
<1>1. \E m \in N : \A k \in N : ~ (<<k, m>> \in R)
  <2>1. IsWellFoundedOn(R, Nat)
    BY NatLessThanWellFounded
  <2> HIDE DEF R
  <2> QED
    BY <2>1, WFMin
<1>2. \A m, k \in N : k < m => <<k, m>> \in R
  BY DEF OpToRel
<1>3. \E m \in N : \A k \in N : ~ (k < m)
  BY <1>1, <1>2
<1> QED
  BY <1>3

\* changeGeo takes an offer that its filters allow, or none.
LEMMA PickAllowed ==
  ASSUME NEW h, NEW G, NEW P, Pick(h, G, P) # NoOffer
  PROVE  Pick(h, G, P) \in Offer /\ Allowed(Pick(h, G, P), h, G, P)
<1> DEFINE left == {i \in DOMAIN Offers : Allowed(Offers[i], h, G, P)}
<1>1. left # {} /\ Pick(h, G, P) = Offers[Min(left)]
  BY DEF Pick
<1>2. Min(left) \in left
  <2>1. left \in SUBSET Nat
    BY GeoAssumption
  <2> HIDE DEF left
  <2>2. \E i \in left : \A j \in left : i =< j
    BY <1>1, <2>1, LeastNumber
  <2> QED
    BY <2>2 DEF Min
<1>3. Offers[Min(left)] \in Offer
  BY <1>2 DEF Offer, ToSet
<1> QED
  BY <1>1, <1>2, <1>3

LEMMA OfferType == ASSUME NEW o \in Offer
  PROVE  /\ o \in [geo : Geo \cup {Unknown}, op : Op] /\ o # NoOffer
         /\ o.geo \in Geo /\ o.op \in Op
<1>1. o \in [geo : Geo, op : Op]
  <2>1. PICK i \in DOMAIN Offers : o = Offers[i]
    BY DEF Offer, ToSet
  <2> DEFINE S == [geo : Geo, op : Op]
  <2>2. Offers \in Seq(S)
    BY GeoAssumption
  <2> HIDE DEF S
  <2>3. Offers[i] \in S
    BY <2>1, <2>2
  <2> QED
    BY <2>1, <2>3 DEF S
<1>2. NoOffer \notin [geo : Geo \cup {Unknown}, op : Op]
  BY GeoAssumption
<1> QED
  BY <1>1, <1>2

\* Every operator of a geo is one of the provider's.
LEMMA OperatorsOffered == ASSUME NEW here, NEW p \in OperatorsOf(here) PROVE p \in Op
BY DEF OperatorsOf, Op

-----------------------------------------------------------------------------
(* The search for a geo. *)

\* The offer of a change is one of the provider's; behind it the offer names
\* the geo the proxy is in, unless the answer named none.
TargetInv ==
  \A w \in Worker :
    /\ loc[w] = "change" => target[w] \in Offer
    /\ loc[w] \in {"arrive", "restart"} =>
         target[w] # NoOffer /\ target[w].geo \in {geo[w], Unknown}

\* A rotation is tried while its budget lasts.
BudgetInv == \A w \in Worker : loc[w] = "rotate" => used[w] < RotateBudget

\* What failed is marked: the search marks the geo its proxy is in.
BurntMarked == burnt \subseteq badGeo

GeoInv == /\ GeoTypeOK /\ TargetInv /\ BudgetInv
          /\ BurntMarked /\ SignatureIsCurrent

\* The types in three parts: the shared ones, those of the search, the rest.
SharedTypes ==
  /\ badGeo \subseteq Geo /\ badOp \subseteq Op /\ burnt \subseteq Geo
  /\ waiting \subseteq Worker /\ stopping \in BOOLEAN /\ faults \in 0..MaxFaults

SearchTypes ==
  /\ loc \in [Worker -> {"idle"} \cup Searching]
  /\ until \in [Worker -> BOOLEAN] /\ round \in [Worker -> 1..MaxRounds]
  /\ target \in [Worker -> [geo : Geo \cup {Unknown}, op : Op] \cup {NoOffer}]

ProxyTypes ==
  /\ geo \in [Worker -> Geo] /\ sig \in [Worker -> Geo \cup {Unread, Unknown}]
  /\ used \in [Worker -> 0..RotateBudget] /\ moved \in [Worker -> BOOLEAN]

\* GeoInv, as its parts are kept.
GInv == /\ SharedTypes /\ SearchTypes /\ ProxyTypes /\ TargetInv /\ BudgetInv
        /\ BurntMarked /\ SignatureIsCurrent

LEMMA GeoJoined == GeoInv <=> GInv
BY DEF GeoInv, GInv, GeoTypeOK, SharedTypes, SearchTypes, ProxyTypes

LEMMA GeoStart == ASSUME GeoInit PROVE GInv
<1>1. SharedTypes
  <2>1. 0 \in 0..MaxFaults
    BY GeoAssumption
  <2> QED
    BY <2>1 DEF GeoInit, SharedTypes
<1>4. SearchTypes
  BY GeoAssumption DEF GeoInit, SearchTypes
<1>3. ProxyTypes
  BY GeoAssumption DEF GeoInit, ProxyTypes
<1>2. TargetInv /\ BudgetInv /\ BurntMarked /\ SignatureIsCurrent
  BY DEF GeoInit, TargetInv, BudgetInv, BurntMarked, SignatureIsCurrent
<1> QED
  BY <1>1, <1>2, <1>3, <1>4 DEF GInv

\* The start of a search: the signature is read, and marked or rotated.
LEMMA SearchKeeps ==
  ASSUME GInv, NEW w \in Worker, NEW first \in BOOLEAN, NEW always \in BOOLEAN,
         Search(w, first, always), stopping' = stopping
  PROVE  GInv'
<1>1. SharedTypes'
  BY GeoAssumption
     DEF GInv, Search, ReadSig, MarkCurrent, MarkBad, Fault, SharedTypes,
         SearchTypes, TargetInv, shared, search, history
<1>2. SearchTypes'
  BY GeoAssumption
     DEF GInv, Search, ReadSig, MarkCurrent, MarkBad, Fault, SearchTypes,
         Searching, shared, search, history
<1>3. ProxyTypes'
  <2>1. geo' = geo /\ used' = used /\ moved' = moved
    BY DEF Search, history
  <2>2. sig' \in [Worker -> Geo \cup {Unread, Unknown}]
    <3>1. ReadSig(w) /\ geo[w] \in Geo
      BY DEF GInv, ProxyTypes, Search
    <3> QED
      BY <3>1 DEF GInv, ProxyTypes, ReadSig
  <2> QED
    BY <2>1, <2>2 DEF GInv, ProxyTypes
<1>4. TargetInv' /\ BudgetInv'
  BY GeoAssumption
     DEF GInv, Search, ReadSig, MarkCurrent, MarkBad, Fault, TargetInv,
         SearchTypes, ProxyTypes, BudgetInv, shared, search, history
<1>5. BurntMarked' /\ SignatureIsCurrent'
  BY GeoAssumption
     DEF GInv, Search, ReadSig, MarkCurrent, MarkBad, Fault,
         BurntMarked, SharedTypes, SignatureIsCurrent, ProxyTypes,
         TargetInv, shared, search, history
<1> QED
  BY <1>1, <1>2, <1>3, <1>4, <1>5 DEF GInv

LEMMA SearchStartsKeeps ==
  ASSUME GInv, NEW w \in Worker, Preflight(w) \/ RecoverByGeo(w) PROVE GInv'
<1>1. CASE \E first, always \in BOOLEAN : Search(w, first, always)
  <2>1. PICK first \in BOOLEAN, always \in BOOLEAN : Search(w, first, always)
    BY <1>1
  <2>2. stopping' = stopping
    BY <2>1 DEF Search
  <2> QED
    BY <2>1, <2>2, SearchKeeps
<1>2. ASSUME Preflight(w), ~ \E first, always \in BOOLEAN : Search(w, first, always)
      PROVE  GInv'
  <2>1. /\ waiting' \subseteq waiting /\ (faults' = faults \/ Fault)
        /\ UNCHANGED <<shared, search, geo, sig, used, stopping, history>>
    BY <1>2 DEF Preflight
  <2> USE <2>1 DEF GInv, shared, search, history
  <2>2. SharedTypes'
    BY GeoAssumption DEF Fault, SharedTypes
  <2>4. SearchTypes' /\ ProxyTypes'
    BY DEF SearchTypes, ProxyTypes
  <2>3. TargetInv' /\ BudgetInv' /\ BurntMarked' /\ SignatureIsCurrent'
    BY DEF TargetInv, BudgetInv, BurntMarked, SignatureIsCurrent
  <2> QED
    BY <2>2, <2>3, <2>4
<1> QED
  BY <1>1, <1>2 DEF RecoverByGeo

\* The rotation in the geo at hand, and the end of a search that is stopped.
LEMMA RotateKeeps ==
  ASSUME GInv, NEW w \in Worker,
         SearchStopped(w) \/ RotateFails(w) \/ RotateOk(w)
  PROVE  GInv'
<1>1. CASE SearchStopped(w)
  <2>1. SharedTypes' /\ SearchTypes' /\ ProxyTypes'
    BY <1>1, GeoAssumption
       DEF GInv, SearchStopped, End, SharedTypes, SearchTypes, TargetInv,
           Searching, ProxyTypes, BudgetInv, shared, search, history
  <2>2. TargetInv' /\ BudgetInv'
    BY <1>1, GeoAssumption
       DEF GInv, SearchStopped, End, TargetInv, SearchTypes, ProxyTypes,
           BudgetInv, shared, search, history
  <2>3. BurntMarked' /\ SignatureIsCurrent'
    BY <1>1, GeoAssumption
       DEF GInv, SearchStopped, End, BurntMarked, SharedTypes,
           SignatureIsCurrent, ProxyTypes, TargetInv, shared, search, history
  <2> QED
    BY <2>1, <2>2, <2>3 DEF GInv
<1>2. CASE RotateFails(w)
  <2>1. SharedTypes'
    BY <1>2, GeoAssumption
       DEF GInv, RotateFails, MarkCurrent, MarkBad, Unusable, Fault,
           SharedTypes, SearchTypes, TargetInv, shared, search, history
  <2>2. SearchTypes'
    BY <1>2, GeoAssumption
       DEF GInv, RotateFails, MarkCurrent, MarkBad, Unusable, Fault,
           SearchTypes, Searching, shared, search, history
  <2>3. ProxyTypes'
    BY <1>2, GeoAssumption
       DEF GInv, RotateFails, MarkCurrent, MarkBad, Unusable, Fault, ProxyTypes,
           SearchTypes, TargetInv, BudgetInv, shared, search, history
  <2>4. TargetInv' /\ BudgetInv'
    BY <1>2, GeoAssumption
       DEF GInv, RotateFails, MarkCurrent, MarkBad, Unusable, Fault, TargetInv,
           SearchTypes, ProxyTypes, BudgetInv, shared, search, history
  <2>5. BurntMarked' /\ SignatureIsCurrent'
    BY <1>2, GeoAssumption
       DEF GInv, RotateFails, MarkCurrent, MarkBad, Unusable, Fault,
           BurntMarked, SharedTypes, SignatureIsCurrent, ProxyTypes,
           TargetInv, shared, search, history
  <2> QED
    BY <2>1, <2>2, <2>3, <2>4, <2>5 DEF GInv
<1>3. CASE RotateOk(w)
  <2>1. SharedTypes' /\ SearchTypes' /\ ProxyTypes'
    BY <1>3, GeoAssumption
       DEF GInv, RotateOk, End, SharedTypes, SearchTypes, TargetInv, Searching,
           ProxyTypes, BudgetInv, shared, search, history
  <2>2. TargetInv' /\ BudgetInv'
    BY <1>3, GeoAssumption
       DEF GInv, RotateOk, End, TargetInv, SearchTypes, ProxyTypes, BudgetInv,
           shared, search, history
  <2>3. BurntMarked' /\ SignatureIsCurrent'
    BY <1>3, GeoAssumption
       DEF GInv, RotateOk, End, BurntMarked, SharedTypes,
           SignatureIsCurrent, ProxyTypes, TargetInv, shared, search, history
  <2> QED
    BY <2>1, <2>2, <2>3 DEF GInv
<1> QED
  BY <1>1, <1>2, <1>3

\* A round takes the first offer that is not blacklisted.
LEMMA RoundKeeps ==
  ASSUME GInv, NEW w \in Worker,
         RoundPick(w) \/ RoundNone(w) \/ RoundFallsBack(w)
  PROVE  GInv'
<1>1. CASE RoundPick(w)
  <2>1. SharedTypes' /\ SearchTypes' /\ ProxyTypes'
    BY <1>1, GeoAssumption, PickAllowed, OfferType
       DEF GInv, RoundPick, Goto, SharedTypes, SearchTypes, TargetInv,
           Searching, ProxyTypes, BudgetInv, shared, search, history
  <2>2. TargetInv' /\ BudgetInv'
    BY <1>1, GeoAssumption, PickAllowed, OfferType
       DEF GInv, RoundPick, Goto, TargetInv, SearchTypes, ProxyTypes, BudgetInv,
           shared, search, history
  <2>3. BurntMarked' /\ SignatureIsCurrent'
    BY <1>1, GeoAssumption, PickAllowed
       DEF GInv, RoundPick, Goto, BurntMarked, SharedTypes,
           SignatureIsCurrent, ProxyTypes, TargetInv, shared, search, history
  <2> QED
    BY <2>1, <2>2, <2>3 DEF GInv
<1>2. CASE RoundNone(w)
  <2>1. SharedTypes' /\ SearchTypes' /\ ProxyTypes'
    BY <1>2, GeoAssumption, OfferType
       DEF GInv, RoundNone, ClearBlacklist, NextRound, Goto, SharedTypes,
           SearchTypes, TargetInv, Searching, ProxyTypes, BudgetInv, shared,
           search
  <2>2. TargetInv' /\ BudgetInv'
    BY <1>2, GeoAssumption, OfferType
       DEF GInv, RoundNone, ClearBlacklist, NextRound, Goto, TargetInv,
           SearchTypes, ProxyTypes, BudgetInv, shared, search, history
  <2>3. BurntMarked' /\ SignatureIsCurrent'
    BY <1>2, GeoAssumption
       DEF GInv, RoundNone, ClearBlacklist, NextRound, Goto,
           BurntMarked, SharedTypes, SignatureIsCurrent, ProxyTypes,
           TargetInv, shared, search, history
  <2> QED
    BY <2>1, <2>2, <2>3 DEF GInv
<1>3. CASE RoundFallsBack(w)
  <2>1. SharedTypes'
    BY <1>3, GeoAssumption, OfferType
       DEF GInv, RoundFallsBack, NextRound, Goto, Fault, OperatorsOf, Op,
           SharedTypes, SearchTypes, TargetInv, shared, search, history
  <2>2. SearchTypes'
    <3>1. CASE NextRound(w)
      BY <1>3, <3>1, GeoAssumption
         DEF GInv, RoundFallsBack, NextRound, Goto, SearchTypes, Searching
    <3>2. ASSUME NEW p \in OperatorsOf(geo[w]), Goto(w, "arrive"), round' = round,
                 target' = [target EXCEPT ![w] = [geo |-> Unknown, op |-> p]]
          PROVE  SearchTypes'
      <4>1. [geo |-> Unknown, op |-> p] \in [geo : Geo \cup {Unknown}, op : Op]
        BY OperatorsOffered
      <4> QED
        BY <3>2, <4>1 DEF GInv, Goto, SearchTypes, Searching
    <3> QED
      BY <1>3, <3>1, <3>2 DEF RoundFallsBack
  <2>3. ProxyTypes'
    BY <1>3, GeoAssumption, OfferType
       DEF GInv, RoundFallsBack, NextRound, Goto, Fault, OperatorsOf, Op,
           ProxyTypes, SearchTypes, TargetInv, BudgetInv, shared, search, history
  <2>4. TargetInv' /\ BudgetInv'
    <3>1. CASE NextRound(w)
      BY <1>3, <3>1, GeoAssumption
         DEF GInv, RoundFallsBack, NextRound, Goto, TargetInv, BudgetInv,
             SearchTypes, ProxyTypes, shared, history
    <3>2. ASSUME NEW p \in OperatorsOf(geo[w]), Goto(w, "arrive"), round' = round,
                 target' = [target EXCEPT ![w] = [geo |-> Unknown, op |-> p]]
          PROVE  TargetInv' /\ BudgetInv'
      <4>1. [geo |-> Unknown, op |-> p] # NoOffer
        <5>1. [geo |-> Unknown, op |-> p] \in [geo : Geo \cup {Unknown}, op : Op]
          BY OperatorsOffered
        <5> QED
          BY <5>1, GeoAssumption
      <4> QED
        BY <1>3, <3>2, <4>1
           DEF GInv, RoundFallsBack, Goto, TargetInv, BudgetInv, SearchTypes,
               ProxyTypes
    <3> QED
      BY <1>3, <3>1, <3>2 DEF RoundFallsBack
  <2>5. BurntMarked' /\ SignatureIsCurrent'
    BY <1>3, GeoAssumption
       DEF GInv, RoundFallsBack, NextRound, Goto, Fault, OperatorsOf, Op,
           BurntMarked, SharedTypes, SignatureIsCurrent, ProxyTypes,
           TargetInv, shared, search, history
  <2> QED
    BY <2>1, <2>2, <2>3, <2>4, <2>5 DEF GInv
<1> QED
  BY <1>1, <1>2, <1>3

\* The change of geo, and the address it brings.
LEMMA ChangeKeeps ==
  ASSUME GInv, NEW w \in Worker,
         ChangeOk(w) \/ ChangeFails(w) \/ ArriveOk(w) \/ ArriveBad(w)
  PROVE  GInv'
<1>1. CASE ChangeOk(w)
  <2>1. SharedTypes' /\ SearchTypes' /\ ProxyTypes'
    BY <1>1, GeoAssumption, OfferType
       DEF GInv, ChangeOk, Goto, SharedTypes, SearchTypes, TargetInv, Searching,
           ProxyTypes, BudgetInv, shared, search, history
  <2>2. TargetInv' /\ BudgetInv'
    BY <1>1, GeoAssumption, OfferType
       DEF GInv, ChangeOk, Goto, TargetInv, SearchTypes, ProxyTypes, BudgetInv,
           shared, search, history
  <2>3. BurntMarked' /\ SignatureIsCurrent'
    BY <1>1, GeoAssumption
       DEF GInv, ChangeOk, Goto, BurntMarked, SharedTypes,
           SignatureIsCurrent, ProxyTypes, TargetInv, shared, search, history
  <2> QED
    BY <2>1, <2>2, <2>3 DEF GInv
<1>2. CASE ChangeFails(w)
  <2>1. SharedTypes'
    BY <1>2, GeoAssumption, OfferType
       DEF GInv, ChangeFails, MarkFailed, MarkBad, NextRound, Goto, Fault,
           SharedTypes, SearchTypes, TargetInv, shared, search, history
  <2>2. SearchTypes'
    BY <1>2, GeoAssumption, OfferType
       DEF GInv, ChangeFails, MarkFailed, MarkBad, NextRound, Goto, Fault,
           SearchTypes, Searching, shared, search, history
  <2>3. ProxyTypes'
    BY <1>2, GeoAssumption, OfferType
       DEF GInv, ChangeFails, MarkFailed, MarkBad, NextRound, Goto, Fault,
           ProxyTypes, SearchTypes, TargetInv, BudgetInv, shared, search, history
  <2>4. TargetInv'
    BY <1>2, GeoAssumption, OfferType
       DEF GInv, ChangeFails, MarkFailed, MarkBad, NextRound, Goto, Fault,
           TargetInv, SearchTypes, ProxyTypes, shared, search, history
  <2>5. BudgetInv'
    BY <1>2, GeoAssumption
       DEF GInv, ChangeFails, MarkFailed, MarkBad, NextRound, Goto, Fault,
           BudgetInv, ProxyTypes, SearchTypes, shared, search, history
  <2>6. BurntMarked'
    <3>1. target[w].geo \in Geo
      BY <1>2, OfferType DEF GInv, ChangeFails, TargetInv
    <3> QED
      BY <1>2, <3>1
         DEF GInv, ChangeFails, MarkFailed, MarkBad, BurntMarked, shared, history
  <2>7. SignatureIsCurrent'
    BY <1>2, GeoAssumption
       DEF GInv, ChangeFails, MarkFailed, MarkBad, NextRound, Goto, Fault,
           SignatureIsCurrent, ProxyTypes, TargetInv, shared, search, history
  <2> QED
    BY <2>1, <2>2, <2>3, <2>4, <2>5, <2>6, <2>7 DEF GInv
<1>3. CASE ArriveOk(w)
  <2>1. SharedTypes' /\ SearchTypes' /\ ProxyTypes'
    BY <1>3, GeoAssumption, OfferType
       DEF GInv, ArriveOk, Goto, SharedTypes, SearchTypes, TargetInv, Searching,
           ProxyTypes, BudgetInv, shared, search, history
  <2>2. TargetInv' /\ BudgetInv'
    BY <1>3, GeoAssumption, OfferType
       DEF GInv, ArriveOk, Goto, TargetInv, SearchTypes, ProxyTypes, BudgetInv,
           shared, search, history
  <2>3. BurntMarked' /\ SignatureIsCurrent'
    BY <1>3, GeoAssumption
       DEF GInv, ArriveOk, Goto, BurntMarked, SharedTypes,
           SignatureIsCurrent, ProxyTypes, TargetInv, shared, search, history
  <2> QED
    BY <2>1, <2>2, <2>3 DEF GInv
<1>4. CASE ArriveBad(w)
  <2>1. SharedTypes' /\ SearchTypes' /\ ProxyTypes'
    BY <1>4, GeoAssumption, OfferType
       DEF GInv, ArriveBad, Burn, MarkFailed, MarkBad, NextRound, Goto, Unusable,
           Fault, SharedTypes, SearchTypes, TargetInv, Searching, ProxyTypes,
           BudgetInv, shared, search, history
  <2>2. TargetInv' /\ BudgetInv'
    BY <1>4, GeoAssumption, OfferType
       DEF GInv, ArriveBad, Burn, MarkFailed, MarkBad, NextRound, Goto, Unusable,
           Fault, TargetInv, SearchTypes, ProxyTypes, BudgetInv, shared, search, history
  <2>3. BurntMarked' /\ SignatureIsCurrent'
    BY <1>4, GeoAssumption
       DEF GInv, ArriveBad, Burn, MarkFailed, MarkBad, NextRound, Goto, Unusable,
           Fault, BurntMarked, SharedTypes, SignatureIsCurrent,
           ProxyTypes, TargetInv, shared, search, history
  <2> QED
    BY <2>1, <2>2, <2>3 DEF GInv
<1> QED
  BY <1>1, <1>2, <1>3, <1>4

\* The browser starts on the new address.
LEMMA RestartKeeps ==
  ASSUME GInv, NEW w \in Worker,
         RestartOk(w) \/ RestartBad(w) \/ PauseEnds(w)
  PROVE  GInv'
<1>1. CASE RestartOk(w)
  <2>1. SharedTypes' /\ SearchTypes' /\ ProxyTypes'
    BY <1>1, GeoAssumption, OfferType
       DEF GInv, RestartOk, End, SharedTypes, SearchTypes, TargetInv, Searching,
           ProxyTypes, BudgetInv, shared, search, history
  <2>2. TargetInv' /\ BudgetInv'
    BY <1>1, GeoAssumption, OfferType
       DEF GInv, RestartOk, End, TargetInv, SearchTypes, ProxyTypes, BudgetInv,
           shared, search, history
  <2>3. BurntMarked' /\ SignatureIsCurrent'
    BY <1>1, GeoAssumption
       DEF GInv, RestartOk, End, BurntMarked, SharedTypes,
           SignatureIsCurrent, ProxyTypes, TargetInv, shared, search, history
  <2> QED
    BY <2>1, <2>2, <2>3 DEF GInv
<1>2. CASE RestartBad(w)
  <2>1. SharedTypes' /\ SearchTypes' /\ ProxyTypes'
    BY <1>2, GeoAssumption, OfferType
       DEF GInv, RestartBad, Burn, MarkFailed, MarkBad, NextRound, Goto, Fault,
           SharedTypes, SearchTypes, TargetInv, Searching, ProxyTypes,
           BudgetInv, shared, search, history
  <2>2. TargetInv' /\ BudgetInv'
    BY <1>2, GeoAssumption, OfferType
       DEF GInv, RestartBad, Burn, MarkFailed, MarkBad, NextRound, Goto, Fault,
           TargetInv, SearchTypes, ProxyTypes, BudgetInv, shared, search, history
  <2>3. BurntMarked' /\ SignatureIsCurrent'
    BY <1>2, GeoAssumption
       DEF GInv, RestartBad, Burn, MarkFailed, MarkBad, NextRound, Goto, Fault,
           BurntMarked, SharedTypes, SignatureIsCurrent, ProxyTypes,
           TargetInv, shared, search, history
  <2> QED
    BY <2>1, <2>2, <2>3 DEF GInv
<1>3. CASE PauseEnds(w)
  <2>1. SharedTypes'
    BY <1>3, GeoAssumption
       DEF GInv, PauseEnds, Goto, End, SharedTypes, SearchTypes, TargetInv,
           shared, search, history
  <2>2. SearchTypes'
    <3>1. CASE until[w]
      <4>1. /\ loc' = [loc EXCEPT ![w] = "round"] /\ until' = until
            /\ round' = [round EXCEPT ![w] = 1] /\ target' = target
        BY <1>3, <3>1 DEF PauseEnds, Goto
      <4> QED
        BY <4>1, GeoAssumption DEF GInv, SearchTypes, Searching
    <3>2. CASE ~ until[w]
      <4>1. End(w)
        BY <1>3, <3>2 DEF PauseEnds
      <4> QED
        BY <4>1, GeoAssumption DEF GInv, End, SearchTypes, Searching
    <3> QED
      BY <3>1, <3>2
  <2>3. ProxyTypes'
    BY <1>3, GeoAssumption
       DEF GInv, PauseEnds, Goto, End, ProxyTypes, SearchTypes, TargetInv,
           BudgetInv, shared, search, history
  <2>4. TargetInv'
    BY <1>3, GeoAssumption
       DEF GInv, PauseEnds, Goto, End, TargetInv, SearchTypes, ProxyTypes,
           shared, search, history
  <2>5. BudgetInv'
    BY <1>3, GeoAssumption
       DEF GInv, PauseEnds, Goto, End, BudgetInv, ProxyTypes, SearchTypes,
           shared, search, history
  <2>6. BurntMarked'
    BY <1>3 DEF GInv, PauseEnds, BurntMarked, shared, history
  <2>7. SignatureIsCurrent'
    BY <1>3, GeoAssumption
       DEF GInv, PauseEnds, Goto, End, SignatureIsCurrent, ProxyTypes,
           TargetInv, shared, search, history
  <2> QED
    BY <2>1, <2>2, <2>3, <2>4, <2>5, <2>6, <2>7 DEF GInv
<1> QED
  BY <1>1, <1>2, <1>3

\* What the download loop does besides.
LEMMA LadderKeeps ==
  ASSUME GInv, NEW w \in Worker,
         LadderMoves(w) \/ PdfSaved(w)
  PROVE  GInv'
<1>1. CASE LadderMoves(w)
  <2>1. SharedTypes' /\ SearchTypes' /\ ProxyTypes'
    BY <1>1, GeoAssumption, PickAllowed, OfferType
       DEF GInv, LadderMoves, SharedTypes, SearchTypes, TargetInv, Searching,
           ProxyTypes, BudgetInv, shared, search, history
  <2>2. TargetInv' /\ BudgetInv'
    BY <1>1, GeoAssumption, PickAllowed, OfferType
       DEF GInv, LadderMoves, TargetInv, SearchTypes, ProxyTypes, BudgetInv,
           shared, search, history
  <2>3. BurntMarked' /\ SignatureIsCurrent'
    BY <1>1, GeoAssumption, PickAllowed, OfferType
       DEF GInv, LadderMoves, BurntMarked, SharedTypes,
           SignatureIsCurrent, ProxyTypes, TargetInv, shared, search, history
  <2> QED
    BY <2>1, <2>2, <2>3 DEF GInv
<1>2. CASE PdfSaved(w)
  <2>1. SharedTypes' /\ SearchTypes' /\ ProxyTypes'
    BY <1>2, GeoAssumption
       DEF GInv, PdfSaved, SharedTypes, SearchTypes, TargetInv, Searching,
           ProxyTypes, BudgetInv, shared, search, history
  <2>2. TargetInv' /\ BudgetInv'
    BY <1>2, GeoAssumption
       DEF GInv, PdfSaved, TargetInv, SearchTypes, ProxyTypes, BudgetInv,
           shared, search, history
  <2>3. BurntMarked' /\ SignatureIsCurrent'
    BY <1>2, GeoAssumption
       DEF GInv, PdfSaved, BurntMarked, SharedTypes, SignatureIsCurrent,
           ProxyTypes, TargetInv, shared, search, history
  <2> QED
    BY <2>1, <2>2, <2>3 DEF GInv
<1> QED
  BY <1>1, <1>2

\* An entry of the blacklist expires, and with it what burnt the geo.
LEMMA ExpiryKeeps == ASSUME GInv, EntryExpires \/ StopSignal PROVE GInv'
<1>1. CASE EntryExpires
  <2>1. SharedTypes'
    BY <1>1, GeoAssumption DEF GInv, EntryExpires, Fault, SharedTypes
  <2>2. SearchTypes' /\ ProxyTypes'
    BY <1>1 DEF GInv, EntryExpires, search, SearchTypes, ProxyTypes
  <2>3. TargetInv' /\ BudgetInv' /\ SignatureIsCurrent'
    BY <1>1 DEF GInv, EntryExpires, search, TargetInv, BudgetInv, SignatureIsCurrent
  <2>4. BurntMarked'
    BY <1>1 DEF GInv, EntryExpires, SharedTypes, BurntMarked
  <2> QED
    BY <2>1, <2>2, <2>3, <2>4 DEF GInv
<1>2. CASE StopSignal
  <2> USE <1>2 DEF GInv, StopSignal, shared, search, history
  <2>1. SharedTypes' /\ SearchTypes' /\ ProxyTypes'
    BY DEF SharedTypes, SearchTypes, ProxyTypes
  <2>2. TargetInv' /\ BudgetInv' /\ BurntMarked' /\ SignatureIsCurrent'
    BY DEF TargetInv, BudgetInv, BurntMarked, SignatureIsCurrent
  <2> QED
    BY <2>1, <2>2
<1> QED
  BY <1>1, <1>2

LEMMA GeoKeeps == ASSUME GInv, [GeoNext]_geoVars PROVE GInv'
<1>1. CASE UNCHANGED geoVars
  <2> USE <1>1 DEF GInv, geoVars, shared, search, history
  <2>1. SharedTypes' /\ SearchTypes' /\ ProxyTypes'
    BY DEF SharedTypes, SearchTypes, ProxyTypes
  <2>2. TargetInv' /\ BudgetInv' /\ BurntMarked' /\ SignatureIsCurrent'
    BY DEF TargetInv, BudgetInv, BurntMarked, SignatureIsCurrent
  <2> QED
    BY <2>1, <2>2
<1>2. ASSUME NEW w \in Worker, Preflight(w) \/ SearchStep(w) \/ Download(w)
      PROVE  GInv'
  BY <1>2, SearchStartsKeeps, RotateKeeps, RoundKeeps, ChangeKeeps, RestartKeeps,
     LadderKeeps DEF SearchStep, Download
<1> QED
  BY <1>1, <1>2, ExpiryKeeps DEF GeoNext

\* The inductive invariant of the searches.
THEOREM GeoInvariant == GeoSpec => []GeoInv
<1>1. GeoSpec => []GInv
  BY GeoStart, GeoKeeps, PTL DEF GeoSpec
<1> QED
  BY <1>1, GeoJoined, PTL

\* Type correctness of the searches.
THEOREM GeoTyping == GeoSpec => []GeoTypeOK
<1>1. GeoInv => GeoTypeOK
  BY DEF GeoInv
<1> QED
  BY <1>1, GeoInvariant, PTL

\* The signature a search marks as bad names the geo the proxy is in, or none,
\* while neither the ladder nor an unfinished search has moved the proxy.
THEOREM SignatureKept == GeoSpec => []SignatureIsCurrent
<1>1. GeoInv => SignatureIsCurrent
  BY DEF GeoInv
<1> QED
  BY <1>1, GeoInvariant, PTL

\* Only a round asks for a geo, and not for one that is marked.
LEMMA AskedIsUnmarked ==
  ASSUME GInv, [GeoNext]_geoVars, NEW w \in Worker, loc'[w] = "change", loc[w] # "change"
  PROVE  target'[w].geo \notin badGeo
<1>1. CASE UNCHANGED geoVars
  BY <1>1 DEF geoVars, search
<1>2. CASE EntryExpires \/ StopSignal
  BY <1>2 DEF EntryExpires, StopSignal, search
<1>3. ASSUME NEW v \in Worker, Preflight(v) \/ SearchStep(v) \/ Download(v)
      PROVE  target'[w].geo \notin badGeo
  <2>1. CASE RoundPick(v)
    <3>1. v = w
      BY <2>1 DEF RoundPick, Goto, GInv, SearchTypes
    <3>2. target'[w] = Pick(geo[w], badGeo, badOp) /\ Pick(geo[w], badGeo, badOp) # NoOffer
      BY <2>1, <3>1 DEF RoundPick, GInv, SearchTypes
    <3> QED
      BY <3>2, PickAllowed DEF Allowed
  <2>2. CASE Preflight(v) \/ RecoverByGeo(v) \/ LadderMoves(v) \/ PdfSaved(v)
    BY <2>2 DEF Preflight, RecoverByGeo, LadderMoves, PdfSaved, Search, search,
                GInv, SearchTypes
  <2>3. CASE SearchStopped(v) \/ RotateFails(v) \/ RotateOk(v) \/ RoundNone(v)
               \/ RoundFallsBack(v) \/ PauseEnds(v)
    BY <2>3 DEF SearchStopped, RotateFails, RotateOk, RoundNone, RoundFallsBack,
                PauseEnds, End, Goto, NextRound, search, GInv, SearchTypes
  <2>4. CASE ChangeOk(v) \/ ChangeFails(v) \/ ArriveOk(v) \/ ArriveBad(v)
               \/ RestartOk(v) \/ RestartBad(v)
    BY <2>4 DEF ChangeOk, ChangeFails, ArriveOk, ArriveBad, RestartOk, RestartBad,
                End, Goto, NextRound, search, GInv, SearchTypes
  <2> QED
    BY <1>3, <2>1, <2>2, <2>3, <2>4 DEF SearchStep, Download
<1> QED
  BY <1>1, <1>2, <1>3 DEF GeoNext

\* No worker asks for a geo in which a worker failed, or the change to which
\* was refused, before its entry expires or the list is emptied.
THEOREM BurntStayUnasked == GeoSpec => BurntNotAsked
<1>1. GInv /\ [GeoNext]_geoVars =>
        \A w \in Worker :
          loc'[w] = "change" /\ loc[w] # "change" => target'[w].geo \notin burnt
  BY AskedIsUnmarked DEF GInv, BurntMarked
<1> QED
  BY <1>1, GeoJoined, GeoInvariant, PTL DEF GeoSpec, BurntNotAsked
===============================================================================
