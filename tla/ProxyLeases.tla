----------------------------- MODULE ProxyLeases -----------------------------
(***************************************************************************)
(* The proxy_leases table (backend/db/proxyLeases.js) and the life cycle   *)
(* of the runs that coordinate through it: parser.js (role "parser") and   *)
(* the PDF pipeline started by tools/download-acts.js (role "pdf").        *)
(*                                                                         *)
(* A holder is ONE value of makeHolderId(), that is one runPipeline() or   *)
(* one acquire attempt of the parser: the supervisor restarts the pipeline *)
(* inside the same operating-system process under a fresh holder id.       *)
(* The absolute expires_at of a row is represented by what is left of it,  *)
(* expires_at - NOW(), cut off at -1, because the statements only ask      *)
(* whether it is < 0, <= 0 or > 0.                                         *)
(***************************************************************************)
EXTENDS Integers, FiniteSets

CONSTANTS
  Key,          \* MP_PROXY_KEYs
  Proc,         \* operating-system processes
  Holder,       \* holder ids, one per run
  NoHolder,     \* "no row": the key has no row in the table
  ProcOf,       \* the process that made a holder id
  HostOf,       \* the host of a process
  RoleOf,       \* "parser" or "pdf", the role of a holder
  TTL,          \* RAS_PROXY_LEASE_TTL_SEC, in ticks
  MaxAttempts   \* leaseAcquireMaxAttempts of the parser

ASSUME LeaseAssumption ==
  /\ NoHolder \notin Holder
  /\ ProcOf \in [Holder -> Proc]
  /\ RoleOf \in [Holder -> {"parser", "pdf"}]
  /\ TTL \in Nat \ {0} /\ MaxAttempts \in Nat

VARIABLES
  row,       \* the table: for each key its holder_id and the time left
  alive,     \* is the process running (process.kill(pid, 0))
  pc,        \* where each run is
  todo,      \* keys acquireMany has not tried yet
  claimed,   \* keys acquireMany returned as ours: the pool of the run
  using,     \* keys through which browsers of the run send traffic
  unbacked,  \* keys in use without a row, by decision (outage, operator)
  doomed,    \* deadHolders computed by releaseDeadLocalLeases
  busy,      \* keys acquireMany found taken by somebody else
  lapsed,    \* history: keys whose row ran out while the run was active
  inflight   \* a renewAll statement is on its way to Postgres

vars == <<row, alive, pc, todo, claimed, using, unbacked, doomed, busy, lapsed, inflight>>

Phase  == {"idle", "sweep", "list", "purge", "claim", "setup", "run",
           "release", "ended"}
Active == {"claim", "setup", "run"}
Row    == [holder : Holder \cup {NoHolder}, left : -1..TTL]
NoRow  == [holder |-> NoHolder, left |-> -1]

Live(h) == alive[ProcOf[h]]

TypeOK ==
  /\ row \in [Key -> Row]
  /\ alive \in [Proc -> BOOLEAN]
  /\ pc \in [Holder -> Phase]
  /\ todo \in [Holder -> SUBSET Key]
  /\ claimed \in [Holder -> SUBSET Key]
  /\ using \in [Holder -> SUBSET Key]
  /\ unbacked \in [Holder -> SUBSET Key]
  /\ doomed \in [Holder -> SUBSET Holder]
  /\ busy \in [Holder -> SUBSET Key]
  /\ lapsed \in [Holder -> SUBSET Key]
  /\ inflight \in [Holder -> BOOLEAN]

Init ==
  /\ row = [k \in Key |-> NoRow]
  /\ alive = [p \in Proc |-> TRUE]
  /\ pc = [h \in Holder |-> "idle"]
  /\ todo = [h \in Holder |-> {}]
  /\ claimed = [h \in Holder |-> {}]
  /\ using = [h \in Holder |-> {}]
  /\ unbacked = [h \in Holder |-> {}]
  /\ doomed = [h \in Holder |-> {}]
  /\ busy = [h \in Holder |-> {}]
  /\ lapsed = [h \in Holder |-> {}]
  /\ inflight = [h \in Holder |-> FALSE]
-----------------------------------------------------------------------------
(* The statements on the table. *)

\* Mistakes the properties must notice: an UPSERT without its WHERE, a renewal
\* of every row, a clean-up that does not ask whether the pid is alive.
AcquirableAlways(r, h) == TRUE
RenewedAnyHolder(r, h) == IF r.holder # NoHolder THEN [r EXCEPT !.left = TTL] ELSE r
DeadLocalAnyPid(h) ==
  {g \in Holder : /\ \E k \in Key : row[k].holder = g
                  /\ HostOf[ProcOf[g]] = HostOf[ProcOf[h]]
                  /\ RoleOf[h] = "parser" \/ RoleOf[g] = "pdf"
                  /\ ProcOf[g] # ProcOf[h]}

\* tryAcquire: the UPSERT takes the row unless somebody else's is unexpired.
Acquirable(r, h) == r.holder = NoHolder \/ r.left < 0 \/ r.holder = h

\* The table after tryAcquire(k) of h.
Upsert(h, k) == IF Acquirable(row[k], h)
                  THEN [row EXCEPT ![k] = [holder |-> h, left |-> TTL]]
                  ELSE row

\* releaseExpiredGlobalLeases deletes rows with expires_at <= NOW().
Lapsed(r) == r.left <= 0

\* renewAll extends every row of the holder, an expired one too.
Renewed(r, h) == IF r.holder = h THEN [r EXCEPT !.left = TTL] ELSE r

\* The rows releaseDeadLocalLeases finds dead: this host, the role asked for
\* (the parser asks for every role), not this process, and no such pid.
DeadLocal(h) ==
  {g \in Holder : /\ \E k \in Key : row[k].holder = g
                  /\ HostOf[ProcOf[g]] = HostOf[ProcOf[h]]
                  /\ RoleOf[h] = "parser" \/ RoleOf[g] = "pdf"
                  /\ ProcOf[g] # ProcOf[h]
                  /\ ~Live(g)}

Drop(r, S) == IF r.holder \in S THEN NoRow ELSE r
-----------------------------------------------------------------------------
(* Start of a run: clean up, then claim. *)

Ended(p) == {g \in Holder : ProcOf[g] = p /\ pc[g] = "ended"}

\* The supervisor starts the next run when the previous one has returned; the
\* parser makes at most MaxAttempts attempts and runs once.
Start(h) ==
  /\ Live(h) /\ pc[h] = "idle"
  /\ \A g \in Holder : ProcOf[g] = ProcOf[h] => pc[g] \in {"idle", "ended"}
  /\ RoleOf[h] = "parser" =>
       /\ Cardinality(Ended(ProcOf[h])) < MaxAttempts
       /\ \A g \in Ended(ProcOf[h]) : claimed[g] = {}
  /\ pc' = [pc EXCEPT ![h] = IF RoleOf[h] = "pdf" THEN "sweep" ELSE "list"]
  /\ UNCHANGED <<row, alive, todo, claimed, using, unbacked, doomed, busy, lapsed, inflight>>

SweepExpired(h) ==
  /\ pc[h] = "sweep"
  /\ row' = [k \in Key |-> IF Lapsed(row[k]) THEN NoRow ELSE row[k]]
  /\ pc' = [pc EXCEPT ![h] = "list"]
  /\ UNCHANGED <<alive, todo, claimed, using, unbacked, doomed, busy, lapsed, inflight>>

\* SELECT, then isPidAlive row by row. A pid that was given to another process
\* meanwhile counts as alive, hence the subset.
ListDead(h) ==
  /\ pc[h] = "list"
  /\ \E S \in SUBSET DeadLocal(h) : doomed' = [doomed EXCEPT ![h] = S]
  /\ pc' = [pc EXCEPT ![h] = "purge"]
  /\ UNCHANGED <<row, alive, todo, claimed, using, unbacked, busy, lapsed, inflight>>

\* The keys a run may ask for: those the provider lists for the countries of
\* the run, or the one of the environment, up to the cap on workers.  The
\* parser has one key.  Without any proxy the run does not get here.
Discovered(h) == IF RoleOf[h] = "pdf" THEN SUBSET Key \ {{}} ELSE {{k} : k \in Key}

BeginClaim(h) ==
  /\ pc' = [pc EXCEPT ![h] = "claim"]
  /\ \E S \in Discovered(h) : todo' = [todo EXCEPT ![h] = S]
  /\ doomed' = [doomed EXCEPT ![h] = {}]

\* DELETE ... WHERE holder_id = ANY(deadHolders), a separate statement.
PurgeDead(h) ==
  /\ pc[h] = "purge"
  /\ row' = [k \in Key |-> Drop(row[k], doomed[h])]
  /\ BeginClaim(h)
  /\ UNCHANGED <<alive, claimed, using, unbacked, busy, lapsed, inflight>>

\* A failing clean-up is logged and the claim goes ahead.
CleanupFails(h) ==
  /\ pc[h] \in {"sweep", "list", "purge"}
  /\ IF pc[h] = "sweep"
       THEN pc' = [pc EXCEPT ![h] = "list"] /\ UNCHANGED <<todo, doomed>>
       ELSE BeginClaim(h)
  /\ UNCHANGED <<row, alive, claimed, using, unbacked, busy, lapsed, inflight>>

\* One tryAcquire of acquireMany: ours, or busy.
Claim(h, k) ==
  /\ pc[h] = "claim" /\ k \in todo[h]
  /\ todo' = [todo EXCEPT ![h] = @ \ {k}]
  /\ row' = Upsert(h, k)
  /\ IF Acquirable(row[k], h)
       THEN claimed' = [claimed EXCEPT ![h] = @ \cup {k}] /\ UNCHANGED busy
       ELSE busy' = [busy EXCEPT ![h] = @ \cup {k}] /\ UNCHANGED claimed
  /\ UNCHANGED <<alive, pc, using, unbacked, doomed, lapsed, inflight>>

\* Postgres fails inside acquireMany and its answer is lost whole. The pipeline
\* goes on with every key it asked for, those already found busy included; the
\* parser gives the attempt up. The statement that failed may have been applied.
ClaimFails(h, k) ==
  /\ pc[h] = "claim" /\ k \in todo[h]
  /\ row' \in {row, Upsert(h, k)}
  /\ todo' = [todo EXCEPT ![h] = {}]
  /\ busy' = [busy EXCEPT ![h] = {}]
  /\ IF RoleOf[h] = "pdf"
       THEN /\ pc' = [pc EXCEPT ![h] = "setup"]
            /\ claimed' = [claimed EXCEPT ![h] = @ \cup todo[h] \cup busy[h]]
            /\ unbacked' = [unbacked EXCEPT ![h] = @ \cup todo[h] \cup busy[h]]
            /\ using' = [using EXCEPT ![h] = claimed'[h]]
       ELSE pc' = [pc EXCEPT ![h] = "ended"] /\ UNCHANGED <<claimed, unbacked, using>>
  /\ UNCHANGED <<alive, doomed, lapsed, inflight>>

\* All keys tried: POOL_ALL_LEASED if none is ours, otherwise raise the pool.
Claimed(h) ==
  /\ pc[h] = "claim" /\ todo[h] = {}
  /\ IF claimed[h] = {}
       THEN pc' = [pc EXCEPT ![h] = "ended"] /\ UNCHANGED using
       ELSE /\ pc' = [pc EXCEPT ![h] = IF RoleOf[h] = "pdf" THEN "setup" ELSE "run"]
            /\ using' = [using EXCEPT ![h] = claimed[h]]
  /\ busy' = [busy EXCEPT ![h] = {}]
  /\ UNCHANGED <<row, alive, todo, claimed, unbacked, doomed, lapsed, inflight>>

\* The pre-flight (browsers, country, probe) is over, however long it took:
\* startHeartbeat. Nothing renewed the rows until now.
HeartbeatStarts(h) ==
  /\ pc[h] = "setup"
  /\ pc' = [pc EXCEPT ![h] = "run"]
  /\ UNCHANGED <<row, alive, todo, claimed, using, unbacked, doomed, busy, lapsed, inflight>>

\* No worker came up: createPdfPool throws and nothing releases its rows.
SetupFails(h) ==
  /\ pc[h] = "setup"
  /\ pc' = [pc EXCEPT ![h] = "ended"]
  /\ using' = [using EXCEPT ![h] = {}]
  /\ UNCHANGED <<row, alive, todo, claimed, unbacked, doomed, busy, lapsed, inflight>>
-----------------------------------------------------------------------------
(* While running: the heartbeat. *)

BeatSent(h) ==
  /\ pc[h] = "run" /\ ~inflight[h]
  /\ inflight' = [inflight EXCEPT ![h] = TRUE]
  /\ UNCHANGED <<row, alive, pc, todo, claimed, using, unbacked, doomed, busy, lapsed>>

\* A statement already sent is executed whatever became of its sender.
BeatLands(h) ==
  /\ inflight[h]
  /\ inflight' = [inflight EXCEPT ![h] = FALSE]
  /\ row' = [k \in Key |-> Renewed(row[k], h)]
  /\ lapsed' = [lapsed EXCEPT ![h] = {k \in @ : row[k].holder # h}]
  /\ UNCHANGED <<alive, pc, todo, claimed, using, unbacked, doomed, busy>>

BeatLost(h) ==
  /\ inflight[h]
  /\ inflight' = [inflight EXCEPT ![h] = FALSE]
  /\ UNCHANGED <<row, alive, pc, todo, claimed, using, unbacked, doomed, busy, lapsed>>
-----------------------------------------------------------------------------
(* End of a run. *)

\* finally: the browsers are closed (closeAll), then the heartbeat is stopped,
\* with no await in between.
Shutdown(h) ==
  /\ pc[h] = "run"
  /\ using' = [using EXCEPT ![h] = {}]
  /\ pc' = [pc EXCEPT ![h] = "release"]
  /\ UNCHANGED <<row, alive, todo, claimed, unbacked, doomed, busy, lapsed, inflight>>

\* The no-progress watchdog wins the race against the pool: the finally block
\* runs while download workers are still in their loops, and a worker in a
\* recovery loop opens its browser again.
WatchdogFatal(h) ==
  /\ pc[h] = "run" /\ RoleOf[h] = "pdf"
  /\ \E S \in SUBSET using[h] : using' = [using EXCEPT ![h] = S]
  /\ pc' = [pc EXCEPT ![h] = "release"]
  /\ UNCHANGED <<row, alive, todo, claimed, unbacked, doomed, busy, lapsed, inflight>>

LeftoverStops(h) ==
  /\ pc[h] \in {"release", "ended"} /\ using[h] # {}
  /\ using' = [using EXCEPT ![h] = {}]
  /\ UNCHANGED <<row, alive, pc, todo, claimed, unbacked, doomed, busy, lapsed, inflight>>

ReleaseAll(h) ==
  /\ pc[h] = "release"
  /\ row' = [k \in Key |-> Drop(row[k], {h})]
  /\ pc' = [pc EXCEPT ![h] = "ended"]
  /\ UNCHANGED <<alive, todo, claimed, using, unbacked, doomed, busy, lapsed, inflight>>

\* releaseAll threw: logged, the rows stay until they expire.
ReleaseFails(h) ==
  /\ pc[h] = "release"
  /\ pc' = [pc EXCEPT ![h] = "ended"]
  /\ UNCHANGED <<row, alive, todo, claimed, using, unbacked, doomed, busy, lapsed, inflight>>

\* kill -9, or the process exits.
Crash(p) ==
  /\ alive[p]
  /\ alive' = [alive EXCEPT ![p] = FALSE]
  /\ using' = [h \in Holder |-> IF ProcOf[h] = p THEN {} ELSE using[h]]
  /\ pc' = [h \in Holder |-> IF ProcOf[h] = p THEN "ended" ELSE pc[h]]
  /\ todo' = [h \in Holder |-> IF ProcOf[h] = p THEN {} ELSE todo[h]]
  /\ doomed' = [h \in Holder |-> IF ProcOf[h] = p THEN {} ELSE doomed[h]]
  /\ busy' = [h \in Holder |-> IF ProcOf[h] = p THEN {} ELSE busy[h]]
  /\ UNCHANGED <<row, claimed, unbacked, lapsed, inflight>>
-----------------------------------------------------------------------------
\* proxy-leases.js release <key>: the operator takes the row away by hand.
OperatorRelease(k) ==
  /\ row[k].holder # NoHolder
  /\ unbacked' = [unbacked EXCEPT ![row[k].holder] = @ \cup {k}]
  /\ row' = [row EXCEPT ![k] = NoRow]
  /\ UNCHANGED <<alive, pc, todo, claimed, using, doomed, busy, lapsed, inflight>>

\* Time passes, however long a run is without a renewal. A row with nothing
\* left protects its key no more: the clean-up of anybody may delete it.
Tick ==
  /\ row' = [k \in Key |-> [row[k] EXCEPT !.left = IF @ > -1 THEN @ - 1 ELSE -1]]
  /\ lapsed' = [h \in Holder |->
       IF pc[h] \in Active
         THEN lapsed[h] \cup {k \in claimed[h] : row[k].holder = h /\ row[k].left <= 1}
         ELSE lapsed[h]]
  /\ UNCHANGED <<alive, pc, todo, claimed, using, unbacked, doomed, busy, inflight>>

Run(h) ==
  \/ Start(h) \/ SweepExpired(h) \/ ListDead(h) \/ PurgeDead(h) \/ CleanupFails(h)
  \/ \E k \in Key : Claim(h, k) \/ ClaimFails(h, k)
  \/ Claimed(h) \/ HeartbeatStarts(h) \/ SetupFails(h)
  \/ BeatSent(h) \/ BeatLands(h) \/ BeatLost(h)
  \/ Shutdown(h) \/ WatchdogFatal(h) \/ LeftoverStops(h)
  \/ ReleaseAll(h) \/ ReleaseFails(h)

Next ==
  \/ \E h \in Holder : Run(h)
  \/ \E p \in Proc : Crash(p)
  \/ \E k \in Key : OperatorRelease(k)
  \/ Tick

Spec == Init /\ [][Next]_vars

\* Time goes on. No run is assumed to get on, and no renewal to land.
FairSpec == Spec /\ WF_vars(Tick)
-----------------------------------------------------------------------------
(* Properties. *)

\* An active run sends traffic through a key that it claimed and that neither
\* an outage nor the operator took out of the protection of the table.
Sends(h, k) == k \in using[h] \ unbacked[h] /\ pc[h] \in Active

\* It does so with the right to: its row has not run out since it was taken or
\* last renewed.
Uses(h, k) == Sends(h, k) /\ k \notin lapsed[h]

\* Two runs whose rows did not run out never send traffic through one proxy at
\* the same time (otherwise they rotate each other's IP and operator): only time
\* takes a key from an active run, no clean-up of another run, no competing
\* claim, no crash, no late renewal. PreflightKeepsKeys says what time may do.
MutualExclusion ==
  \A k \in Key, g, h \in Holder : Uses(g, k) /\ Uses(h, k) => g = h

\* What the header of proxyLeases.js says of a run whose process neither fell
\* nor was killed: the table gives nobody else the key of a pipeline that is in
\* its pre-flight. The code does not keep it: the heartbeat starts only after
\* the pre-flight, which may take longer than the lease (README, section 5).
PreflightKeepsKeys ==
  [][\A k \in Key, g, h \in Holder :
       /\ g # h /\ pc[h] = "setup" /\ Sends(h, k)
       /\ k \in claimed'[g] \ unbacked'[g]
       => k \in claimed[g] ]_vars

\* The same as a refinement: who uses a key changes as in ProxyExclusion.
UserOf == [k \in Key |-> IF \E h \in Holder : Uses(h, k)
                           THEN CHOOSE h \in Holder : Uses(h, k)
                           ELSE NoHolder]
Exclusion == INSTANCE ProxyExclusion WITH user <- UserOf
ExclusionSpec == Exclusion!Spec

\* A row left behind by an ended run (a crash, a failed set-up, a failed
\* release) does not block its key for ever: nobody else's heartbeat keeps it.
LeakedLeaseLapses ==
  \A k \in Key, h \in Holder :
    row[k].holder = h /\ pc[h] = "ended" ~> row[k].holder # h \/ row[k].left <= 0

\* What the table promises without any assumption on punctuality: nobody but
\* its holder (or the operator) removes the unexpired row of a live process,
\* neither a competing tryAcquire nor any of the clean-ups.
LiveLeaseKept ==
  [][\A k \in Key, g \in Holder :
       /\ row[k].holder = g /\ row[k].left > 0 /\ Live(g)
       /\ row'[k].holder # g
       => \/ pc[g] = "release" /\ pc'[g] = "ended"
          \/ k \in unbacked'[g] ]_vars

\* An ended run has no browsers left on its proxies. download-acts.js restarts
\* the pipeline relying on it; the code does not keep it (README, section 5).
EndedRunIsQuiet == \A h \in Holder : pc[h] = "ended" => using[h] = {}

\* The strengthening that makes MutualExclusion inductive: every key of an
\* active run whose row did not run out has an unexpired row of its own.
Backed ==
  \A h \in Holder : pc[h] \in Active =>
     \A k \in claimed[h] \ (unbacked[h] \cup lapsed[h]) :
        row[k].holder = h /\ row[k].left > 0

\* A run has no pool before it claims one, and no browser before it has a pool.
FreshPool ==
  \A h \in Holder :
    /\ pc[h] \in {"idle", "sweep", "list", "purge"} => claimed[h] = {}
    /\ pc[h] \in {"idle", "sweep", "list", "purge", "claim"} => using[h] = {}

\* Only keys of the pool are in use.
UseIsClaimed == \A h \in Holder : using[h] \subseteq claimed[h]

\* A dead process has no run under way.
DeadIsEnded == \A h \in Holder : ~Live(h) => pc[h] = "ended" /\ using[h] = {}

\* A holder condemned by the clean-up stays dead until the DELETE.
DoomedIsDead == \A h, g \in Holder : g \in doomed[h] => ~Live(g)

LeaseInv == TypeOK /\ Backed /\ FreshPool /\ UseIsClaimed /\ DeadIsEnded /\ DoomedIsDead
=============================================================================
