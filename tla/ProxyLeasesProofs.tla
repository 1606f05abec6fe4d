-------------------------- MODULE ProxyLeasesProofs --------------------------
(***************************************************************************)
(* Proofs about ProxyLeases, for any keys, processes, holders, hosts and   *)
(* any TTL, whatever time the runs take and whatever renewals are lost.     *)
(***************************************************************************)
EXTENDS ProxyLeases, TLAPS

\* The initial table is empty and every run idle.
LEMMA InitInv == Init => LeaseInv
  BY LeaseAssumption DEF Init, LeaseInv, TypeOK, Backed, FreshPool, UseIsClaimed,
     DeadIsEnded, DoomedIsDead, NoRow, Row, Phase, Active, Live

\* What beginning to claim assigns is of its type.
LEMMA BeginClaimType ==
  ASSUME TypeOK, NEW h \in Holder, BeginClaim(h)
  PROVE  /\ pc' \in [Holder -> Phase]
         /\ todo' \in [Holder -> SUBSET Key]
         /\ doomed' \in [Holder -> SUBSET Holder]
<1>1. PICK S \in SUBSET Key : todo' = [todo EXCEPT ![h] = S]
  BY DEF BeginClaim, Discovered
<1>2. QED
  BY <1>1, LeaseAssumption DEF BeginClaim, TypeOK, Phase

\* The table after an UPSERT is of its type.
LEMMA UpsertType ==
  ASSUME TypeOK, NEW h \in Holder, NEW k \in Key
  PROVE  Upsert(h, k) \in [Key -> Row]
<1>1. [holder |-> h, left |-> TTL] \in Row
  BY LeaseAssumption DEF Row
<1>2. QED
  BY <1>1 DEF Upsert, TypeOK

\* Every step of the runs, of time and of the operator keeps the types.
LEMMA TypeStep == TypeOK /\ [Next]_vars => TypeOK'
<1> SUFFICES ASSUME TypeOK, [Next]_vars PROVE TypeOK'
  OBVIOUS
<1> USE LeaseAssumption DEF TypeOK, Row, NoRow, Phase
<1>1. ASSUME NEW h \in Holder, Run(h) PROVE TypeOK'
  <2>1. CASE Start(h)
    BY <2>1 DEF Start
  <2>2. CASE SweepExpired(h)
    BY <2>2 DEF SweepExpired
  <2>3. CASE ListDead(h)
    <3>1. DeadLocal(h) \subseteq Holder
      BY DEF DeadLocal
    <3>2. QED
      BY <2>3, <3>1 DEF ListDead
  <2>4. CASE PurgeDead(h)
    BY <2>4, BeginClaimType DEF PurgeDead, Drop
  <2>5. CASE CleanupFails(h)
    <3>1. CASE pc[h] = "sweep"
      BY <2>5, <3>1 DEF CleanupFails
    <3>2. CASE pc[h] # "sweep"
      BY <2>5, <3>2, BeginClaimType DEF CleanupFails
    <3>3. QED
      BY <3>1, <3>2
  <2>6. ASSUME NEW k \in Key, Claim(h, k) PROVE TypeOK'
    <3>1. row' \in [Key -> Row]
      BY <2>6, UpsertType DEF Claim
    <3>2. CASE Acquirable(row[k], h)
      BY <2>6, <3>1, <3>2 DEF Claim
    <3>3. CASE ~Acquirable(row[k], h)
      BY <2>6, <3>1, <3>3 DEF Claim
    <3>4. QED
      BY <3>2, <3>3
  <2>7. ASSUME NEW k \in Key, ClaimFails(h, k) PROVE TypeOK'
    <3>1. row' \in [Key -> Row]
      BY <2>7, UpsertType DEF ClaimFails
    <3>2. CASE RoleOf[h] = "pdf"
      <4>1. /\ claimed' = [claimed EXCEPT ![h] = @ \cup todo[h] \cup busy[h]]
            /\ unbacked' = [unbacked EXCEPT ![h] = @ \cup todo[h] \cup busy[h]]
            /\ using' = [using EXCEPT ![h] = claimed'[h]]
        BY <2>7, <3>2 DEF ClaimFails
      <4>2. claimed' \in [Holder -> SUBSET Key]
        BY <4>1
      <4>3. using' \in [Holder -> SUBSET Key]
        BY <4>1, <4>2
      <4>4. QED
        BY <2>7, <3>1, <3>2, <4>1, <4>2, <4>3 DEF ClaimFails
    <3>3. CASE RoleOf[h] # "pdf"
      BY <2>7, <3>1, <3>3 DEF ClaimFails
    <3>4. QED
      BY <3>2, <3>3
  <2>8. CASE Claimed(h)
    <3>1. CASE claimed[h] = {}
      BY <2>8, <3>1 DEF Claimed
    <3>2. CASE claimed[h] # {}
      <4>1. pc' \in [Holder -> Phase]
        BY <2>8, <3>2 DEF Claimed
      <4>2. using' \in [Holder -> SUBSET Key] /\ busy' \in [Holder -> SUBSET Key]
        BY <2>8, <3>2 DEF Claimed
      <4>3. QED
        BY <2>8, <4>1, <4>2 DEF Claimed
    <3>3. QED
      BY <3>1, <3>2
  <2>9. CASE HeartbeatStarts(h)
    BY <2>9 DEF HeartbeatStarts
  <2>10. CASE SetupFails(h)
    BY <2>10 DEF SetupFails
  <2>11. CASE BeatSent(h)
    BY <2>11 DEF BeatSent
  <2>12. CASE BeatLands(h)
    BY <2>12 DEF BeatLands, Renewed
  <2>13. CASE BeatLost(h)
    BY <2>13 DEF BeatLost
  <2>14. CASE Shutdown(h)
    BY <2>14 DEF Shutdown
  <2>15. CASE WatchdogFatal(h)
    BY <2>15 DEF WatchdogFatal
  <2>16. CASE LeftoverStops(h)
    BY <2>16 DEF LeftoverStops
  <2>17. CASE ReleaseAll(h)
    BY <2>17 DEF ReleaseAll, Drop
  <2>18. CASE ReleaseFails(h)
    BY <2>18 DEF ReleaseFails
  <2>19. QED
    BY <1>1, <2>1, <2>2, <2>3, <2>4, <2>5, <2>6, <2>7, <2>8, <2>9, <2>10, <2>11,
       <2>12, <2>13, <2>14, <2>15, <2>16, <2>17, <2>18 DEF Run
<1>2. ASSUME NEW p \in Proc, Crash(p) PROVE TypeOK'
  BY <1>2 DEF Crash
<1>3. ASSUME NEW k \in Key, OperatorRelease(k) PROVE TypeOK'
  BY <1>3 DEF OperatorRelease
<1>4. CASE Tick
  <2>1. row' \in [Key -> Row]
    BY <1>4 DEF Tick
  <2>2. lapsed' \in [Holder -> SUBSET Key]
    BY <1>4 DEF Tick
  <2>3. QED
    BY <1>4, <2>1, <2>2 DEF Tick
<1>5. CASE UNCHANGED vars
  BY <1>5 DEF vars
<1>6. QED
  BY <1>1, <1>2, <1>3, <1>4, <1>5 DEF Next

\* No step but time takes the row of a key from an active run.
LEMMA BackedStep == LeaseInv /\ [Next]_vars => Backed'
<1> SUFFICES ASSUME LeaseInv, [Next]_vars PROVE Backed'
  OBVIOUS
<1> USE LeaseAssumption DEF LeaseInv, TypeOK, Backed, Active, Row, NoRow
<1>1. ASSUME NEW h \in Holder, Run(h) PROVE Backed'
  <2>1. CASE Start(h)
    BY <2>1 DEF Start
  <2>2. CASE SweepExpired(h)
    BY <2>2 DEF SweepExpired, Lapsed
  <2>3. CASE ListDead(h)
    BY <2>3 DEF ListDead
  <2>4. CASE PurgeDead(h)
    BY <2>4 DEF PurgeDead, BeginClaim, Drop, FreshPool, DoomedIsDead, DeadIsEnded
  <2>5. CASE CleanupFails(h)
    BY <2>5 DEF CleanupFails, BeginClaim, FreshPool
  <2>6. ASSUME NEW k \in Key, Claim(h, k) PROVE Backed'
    BY <2>6 DEF Claim, Upsert, Acquirable
  <2>7. ASSUME NEW k \in Key, ClaimFails(h, k) PROVE Backed'
    <3>1. ASSUME NEW g \in Holder, NEW j \in Key, row[j].holder = g, row[j].left > 0
          PROVE  \/ row'[j].holder = g /\ row'[j].left > 0
                 \/ g = h
      BY <2>7, <3>1 DEF ClaimFails, Upsert, Acquirable
    <3>2. /\ lapsed' = lapsed
          /\ \A g \in Holder : g # h => /\ pc'[g] = pc[g]
                                       /\ claimed'[g] = claimed[g]
                                       /\ unbacked'[g] = unbacked[g]
      BY <2>7 DEF ClaimFails
    <3>3. ASSUME NEW j \in claimed'[h] \ (unbacked'[h] \cup lapsed'[h]), pc'[h] \in Active
          PROVE  row'[j].holder = h /\ row'[j].left > 0
      <4>1. j \in claimed[h] \ (unbacked[h] \cup lapsed[h]) /\ j \in Key
        BY <2>7, <3>3 DEF ClaimFails
      <4>2. row[j].holder = h /\ row[j].left > 0
        BY <2>7, <4>1 DEF ClaimFails
      <4>3. CASE row' = row
        BY <4>2, <4>3
      <4>4. CASE row' = Upsert(h, k)
        BY <4>1, <4>2, <4>4 DEF Upsert
      <4>5. QED
        BY <2>7, <4>3, <4>4 DEF ClaimFails
    <3>4. ASSUME NEW g \in Holder, g # h, pc'[g] \in Active,
                 NEW j \in claimed'[g] \ (unbacked'[g] \cup lapsed'[g])
          PROVE  row'[j].holder = g /\ row'[j].left > 0
      <4>1. row[j].holder = g /\ row[j].left > 0 /\ j \in Key
        BY <3>2, <3>4
      <4>2. QED
        BY <3>1, <3>4, <4>1
    <3>5. QED
      BY <3>3, <3>4
  <2>8. CASE Claimed(h)
    BY <2>8 DEF Claimed
  <2>9. CASE HeartbeatStarts(h)
    BY <2>9 DEF HeartbeatStarts
  <2>10. CASE SetupFails(h)
    BY <2>10 DEF SetupFails
  <2>11. CASE BeatSent(h)
    BY <2>11 DEF BeatSent
  <2>12. CASE BeatLands(h)
    BY <2>12 DEF BeatLands, Renewed
  <2>13. CASE BeatLost(h)
    BY <2>13 DEF BeatLost
  <2>14. CASE Shutdown(h)
    BY <2>14 DEF Shutdown
  <2>15. CASE WatchdogFatal(h)
    BY <2>15 DEF WatchdogFatal
  <2>16. CASE LeftoverStops(h)
    BY <2>16 DEF LeftoverStops
  <2>17. CASE ReleaseAll(h)
    BY <2>17 DEF ReleaseAll, Drop
  <2>18. CASE ReleaseFails(h)
    BY <2>18 DEF ReleaseFails
  <2>19. QED
    BY <1>1, <2>1, <2>2, <2>3, <2>4, <2>5, <2>6, <2>7, <2>8, <2>9, <2>10, <2>11,
       <2>12, <2>13, <2>14, <2>15, <2>16, <2>17, <2>18 DEF Run
<1>2. ASSUME NEW p \in Proc, Crash(p) PROVE Backed'
  BY <1>2 DEF Crash
<1>3. ASSUME NEW k \in Key, OperatorRelease(k) PROVE Backed'
  BY <1>3 DEF OperatorRelease
<1>4. CASE Tick
  BY <1>4 DEF Tick
<1>5. CASE UNCHANGED vars
  BY <1>5 DEF vars
<1>6. QED
  BY <1>1, <1>2, <1>3, <1>4, <1>5 DEF Next

\* A pool is claimed only after the clean-up.
LEMMA FreshPoolStep == LeaseInv /\ [Next]_vars => FreshPool'
<1> SUFFICES ASSUME LeaseInv, [Next]_vars PROVE FreshPool'
  OBVIOUS
<1> USE LeaseAssumption DEF LeaseInv, TypeOK, FreshPool
<1>1. ASSUME NEW h \in Holder, Run(h) PROVE FreshPool'
  <2>1. CASE Start(h)
    BY <2>1 DEF Start
  <2>2. CASE SweepExpired(h)
    BY <2>2 DEF SweepExpired
  <2>3. CASE ListDead(h)
    BY <2>3 DEF ListDead
  <2>4. CASE PurgeDead(h)
    BY <2>4 DEF PurgeDead, BeginClaim
  <2>5. CASE CleanupFails(h)
    BY <2>5 DEF CleanupFails, BeginClaim
  <2>6. ASSUME NEW k \in Key, Claim(h, k) PROVE FreshPool'
    BY <2>6 DEF Claim
  <2>7. ASSUME NEW k \in Key, ClaimFails(h, k) PROVE FreshPool'
    BY <2>7 DEF ClaimFails
  <2>8. CASE Claimed(h)
    BY <2>8 DEF Claimed
  <2>9. CASE HeartbeatStarts(h)
    BY <2>9 DEF HeartbeatStarts
  <2>10. CASE SetupFails(h)
    BY <2>10 DEF SetupFails
  <2>11. CASE BeatSent(h)
    BY <2>11 DEF BeatSent
  <2>12. CASE BeatLands(h)
    BY <2>12 DEF BeatLands
  <2>13. CASE BeatLost(h)
    BY <2>13 DEF BeatLost
  <2>14. CASE Shutdown(h)
    BY <2>14 DEF Shutdown
  <2>15. CASE WatchdogFatal(h)
    BY <2>15 DEF WatchdogFatal
  <2>16. CASE LeftoverStops(h)
    BY <2>16 DEF LeftoverStops
  <2>17. CASE ReleaseAll(h)
    BY <2>17 DEF ReleaseAll
  <2>18. CASE ReleaseFails(h)
    BY <2>18 DEF ReleaseFails
  <2>19. QED
    BY <1>1, <2>1, <2>2, <2>3, <2>4, <2>5, <2>6, <2>7, <2>8, <2>9, <2>10, <2>11,
       <2>12, <2>13, <2>14, <2>15, <2>16, <2>17, <2>18 DEF Run
<1>2. ASSUME NEW p \in Proc, Crash(p) PROVE FreshPool'
  BY <1>2 DEF Crash
<1>3. ASSUME NEW k \in Key, OperatorRelease(k) PROVE FreshPool'
  BY <1>3 DEF OperatorRelease
<1>4. CASE Tick
  BY <1>4 DEF Tick
<1>5. CASE UNCHANGED vars
  BY <1>5 DEF vars
<1>6. QED
  BY <1>1, <1>2, <1>3, <1>4, <1>5 DEF Next

\* Browsers are raised on claimed keys only.
LEMMA UseIsClaimedStep == LeaseInv /\ [Next]_vars => UseIsClaimed'
<1> SUFFICES ASSUME LeaseInv, [Next]_vars PROVE UseIsClaimed'
  OBVIOUS
<1> USE LeaseAssumption DEF LeaseInv, TypeOK, UseIsClaimed
<1>1. ASSUME NEW h \in Holder, Run(h) PROVE UseIsClaimed'
  <2>1. CASE Start(h)
    BY <2>1 DEF Start
  <2>2. CASE SweepExpired(h)
    BY <2>2 DEF SweepExpired
  <2>3. CASE ListDead(h)
    BY <2>3 DEF ListDead
  <2>4. CASE PurgeDead(h)
    BY <2>4 DEF PurgeDead, BeginClaim
  <2>5. CASE CleanupFails(h)
    BY <2>5 DEF CleanupFails, BeginClaim
  <2>6. ASSUME NEW k \in Key, Claim(h, k) PROVE UseIsClaimed'
    BY <2>6 DEF Claim
  <2>7. ASSUME NEW k \in Key, ClaimFails(h, k) PROVE UseIsClaimed'
    BY <2>7 DEF ClaimFails
  <2>8. CASE Claimed(h)
    BY <2>8 DEF Claimed
  <2>9. CASE HeartbeatStarts(h)
    BY <2>9 DEF HeartbeatStarts
  <2>10. CASE SetupFails(h)
    BY <2>10 DEF SetupFails
  <2>11. CASE BeatSent(h)
    BY <2>11 DEF BeatSent
  <2>12. CASE BeatLands(h)
    BY <2>12 DEF BeatLands
  <2>13. CASE BeatLost(h)
    BY <2>13 DEF BeatLost
  <2>14. CASE Shutdown(h)
    BY <2>14 DEF Shutdown
  <2>15. CASE WatchdogFatal(h)
    BY <2>15 DEF WatchdogFatal
  <2>16. CASE LeftoverStops(h)
    BY <2>16 DEF LeftoverStops
  <2>17. CASE ReleaseAll(h)
    BY <2>17 DEF ReleaseAll
  <2>18. CASE ReleaseFails(h)
    BY <2>18 DEF ReleaseFails
  <2>19. QED
    BY <1>1, <2>1, <2>2, <2>3, <2>4, <2>5, <2>6, <2>7, <2>8, <2>9, <2>10, <2>11,
       <2>12, <2>13, <2>14, <2>15, <2>16, <2>17, <2>18 DEF Run
<1>2. ASSUME NEW p \in Proc, Crash(p) PROVE UseIsClaimed'
  BY <1>2 DEF Crash
<1>3. ASSUME NEW k \in Key, OperatorRelease(k) PROVE UseIsClaimed'
  BY <1>3 DEF OperatorRelease
<1>4. CASE Tick
  BY <1>4 DEF Tick
<1>5. CASE UNCHANGED vars
  BY <1>5 DEF vars
<1>6. QED
  BY <1>1, <1>2, <1>3, <1>4, <1>5 DEF Next

\* A dead process takes no step of a run.
LEMMA DeadIsEndedStep == LeaseInv /\ [Next]_vars => DeadIsEnded'
<1> SUFFICES ASSUME LeaseInv, [Next]_vars PROVE DeadIsEnded'
  OBVIOUS
<1> USE LeaseAssumption DEF LeaseInv, TypeOK, DeadIsEnded, Live
<1>1. ASSUME NEW h \in Holder, Run(h) PROVE DeadIsEnded'
  <2>1. CASE Start(h)
    BY <2>1 DEF Start
  <2>2. CASE SweepExpired(h)
    BY <2>2 DEF SweepExpired
  <2>3. CASE ListDead(h)
    BY <2>3 DEF ListDead
  <2>4. CASE PurgeDead(h)
    BY <2>4 DEF PurgeDead, BeginClaim
  <2>5. CASE CleanupFails(h)
    BY <2>5 DEF CleanupFails, BeginClaim
  <2>6. ASSUME NEW k \in Key, Claim(h, k) PROVE DeadIsEnded'
    BY <2>6 DEF Claim
  <2>7. ASSUME NEW k \in Key, ClaimFails(h, k) PROVE DeadIsEnded'
    BY <2>7 DEF ClaimFails
  <2>8. CASE Claimed(h)
    BY <2>8 DEF Claimed
  <2>9. CASE HeartbeatStarts(h)
    BY <2>9 DEF HeartbeatStarts
  <2>10. CASE SetupFails(h)
    BY <2>10 DEF SetupFails
  <2>11. CASE BeatSent(h)
    BY <2>11 DEF BeatSent
  <2>12. CASE BeatLands(h)
    BY <2>12 DEF BeatLands
  <2>13. CASE BeatLost(h)
    BY <2>13 DEF BeatLost
  <2>14. CASE Shutdown(h)
    BY <2>14 DEF Shutdown
  <2>15. CASE WatchdogFatal(h)
    BY <2>15 DEF WatchdogFatal
  <2>16. CASE LeftoverStops(h)
    BY <2>16 DEF LeftoverStops
  <2>17. CASE ReleaseAll(h)
    BY <2>17 DEF ReleaseAll
  <2>18. CASE ReleaseFails(h)
    BY <2>18 DEF ReleaseFails
  <2>19. QED
    BY <1>1, <2>1, <2>2, <2>3, <2>4, <2>5, <2>6, <2>7, <2>8, <2>9, <2>10, <2>11,
       <2>12, <2>13, <2>14, <2>15, <2>16, <2>17, <2>18 DEF Run
<1>2. ASSUME NEW p \in Proc, Crash(p) PROVE DeadIsEnded'
  BY <1>2 DEF Crash
<1>3. ASSUME NEW k \in Key, OperatorRelease(k) PROVE DeadIsEnded'
  BY <1>3 DEF OperatorRelease
<1>4. CASE Tick
  BY <1>4 DEF Tick
<1>5. CASE UNCHANGED vars
  BY <1>5 DEF vars
<1>6. QED
  BY <1>1, <1>2, <1>3, <1>4, <1>5 DEF Next

\* The dead stay dead until the DELETE.
LEMMA DoomedIsDeadStep == LeaseInv /\ [Next]_vars => DoomedIsDead'
<1> SUFFICES ASSUME LeaseInv, [Next]_vars PROVE DoomedIsDead'
  OBVIOUS
<1> USE LeaseAssumption DEF LeaseInv, TypeOK, DoomedIsDead, DeadLocal, Live
<1>1. ASSUME NEW h \in Holder, Run(h) PROVE DoomedIsDead'
  <2>1. CASE Start(h)
    BY <2>1 DEF Start
  <2>2. CASE SweepExpired(h)
    BY <2>2 DEF SweepExpired
  <2>3. CASE ListDead(h)
    BY <2>3 DEF ListDead
  <2>4. CASE PurgeDead(h)
    BY <2>4 DEF PurgeDead, BeginClaim
  <2>5. CASE CleanupFails(h)
    BY <2>5 DEF CleanupFails, BeginClaim
  <2>6. ASSUME NEW k \in Key, Claim(h, k) PROVE DoomedIsDead'
    BY <2>6 DEF Claim
  <2>7. ASSUME NEW k \in Key, ClaimFails(h, k) PROVE DoomedIsDead'
    BY <2>7 DEF ClaimFails
  <2>8. CASE Claimed(h)
    BY <2>8 DEF Claimed
  <2>9. CASE HeartbeatStarts(h)
    BY <2>9 DEF HeartbeatStarts
  <2>10. CASE SetupFails(h)
    BY <2>10 DEF SetupFails
  <2>11. CASE BeatSent(h)
    BY <2>11 DEF BeatSent
  <2>12. CASE BeatLands(h)
    BY <2>12 DEF BeatLands
  <2>13. CASE BeatLost(h)
    BY <2>13 DEF BeatLost
  <2>14. CASE Shutdown(h)
    BY <2>14 DEF Shutdown
  <2>15. CASE WatchdogFatal(h)
    BY <2>15 DEF WatchdogFatal
  <2>16. CASE LeftoverStops(h)
    BY <2>16 DEF LeftoverStops
  <2>17. CASE ReleaseAll(h)
    BY <2>17 DEF ReleaseAll
  <2>18. CASE ReleaseFails(h)
    BY <2>18 DEF ReleaseFails
  <2>19. QED
    BY <1>1, <2>1, <2>2, <2>3, <2>4, <2>5, <2>6, <2>7, <2>8, <2>9, <2>10, <2>11,
       <2>12, <2>13, <2>14, <2>15, <2>16, <2>17, <2>18 DEF Run
<1>2. ASSUME NEW p \in Proc, Crash(p) PROVE DoomedIsDead'
  BY <1>2 DEF Crash
<1>3. ASSUME NEW k \in Key, OperatorRelease(k) PROVE DoomedIsDead'
  BY <1>3 DEF OperatorRelease
<1>4. CASE Tick
  BY <1>4 DEF Tick
<1>5. CASE UNCHANGED vars
  BY <1>5 DEF vars
<1>6. QED
  BY <1>1, <1>2, <1>3, <1>4, <1>5 DEF Next

\* The invariant is inductive.
LEMMA LeaseInvStep == LeaseInv /\ [Next]_vars => LeaseInv'
  BY TypeStep, BackedStep, FreshPoolStep, UseIsClaimedStep, DeadIsEndedStep,
     DoomedIsDeadStep DEF LeaseInv

\* In every state of every behaviour an active run's keys are backed by unexpired
\* rows of its own unless these ran out, and the clean-ups condemn only the dead.
THEOREM LeaseInvariant == Spec => []LeaseInv
<1>1. LeaseInv /\ [Next]_vars => LeaseInv'
  BY LeaseInvStep
<1>2. QED
  BY InitInv, <1>1, PTL DEF Spec

\* The variables keep their types.
THEOREM Typing == Spec => []TypeOK
<1>1. LeaseInv => TypeOK
  BY DEF LeaseInv
<1>2. QED
  BY LeaseInvariant, <1>1, PTL

\* Two runs that use one key would both be the holder of its one row.
LEMMA InvExclusion == LeaseInv => MutualExclusion
<1> SUFFICES ASSUME LeaseInv, NEW k \in Key, NEW g \in Holder, NEW h \in Holder,
                    Uses(g, k), Uses(h, k)
             PROVE  g = h
  BY DEF MutualExclusion
<1>1. row[k].holder = g
  BY DEF LeaseInv, UseIsClaimed, Backed, Uses, Sends
<1>2. row[k].holder = h
  BY DEF LeaseInv, UseIsClaimed, Backed, Uses, Sends
<1>3. QED
  BY <1>1, <1>2

\* Two active runs use one proxy only if the row of one of them ran out, whatever
\* the number of keys, runs, processes and hosts, and whoever cleans up meanwhile.
THEOREM ProxiesExclusive == Spec => []MutualExclusion
  BY LeaseInvariant, InvExclusion, PTL

\* One step of the table: the unexpired row of a live run goes only with it.
LEMMA LiveLeaseStep ==
  ASSUME LeaseInv, [Next]_vars, NEW k \in Key, NEW g \in Holder,
         row[k].holder = g, row[k].left > 0, Live(g), row'[k].holder # g
  PROVE  (pc[g] = "release" /\ pc'[g] = "ended") \/ k \in unbacked'[g]
<1> DEFINE Goal == (pc[g] = "release" /\ pc'[g] = "ended") \/ k \in unbacked'[g]
<1> USE LeaseAssumption DEF LeaseInv, TypeOK, Row, NoRow
<1>1. ASSUME NEW h \in Holder, Run(h) PROVE Goal
  <2>1. CASE Start(h)
    BY <2>1 DEF Start
  <2>2. CASE SweepExpired(h)
    BY <2>2 DEF SweepExpired, Lapsed
  <2>3. CASE ListDead(h)
    BY <2>3 DEF ListDead
  <2>4. CASE PurgeDead(h)
    BY <2>4 DEF PurgeDead, Drop, DoomedIsDead
  <2>5. CASE CleanupFails(h)
    BY <2>5 DEF CleanupFails
  <2>6. ASSUME NEW j \in Key, Claim(h, j) PROVE Goal
    BY <2>6 DEF Claim, Upsert, Acquirable
  <2>7. ASSUME NEW j \in Key, ClaimFails(h, j) PROVE Goal
    <3>1. CASE row' = row
      BY <3>1
    <3>2. CASE row' = Upsert(h, j)
      BY <3>2 DEF Upsert, Acquirable
    <3>3. QED
      BY <2>7, <3>1, <3>2 DEF ClaimFails
  <2>8. CASE Claimed(h)
    BY <2>8 DEF Claimed
  <2>9. CASE HeartbeatStarts(h)
    BY <2>9 DEF HeartbeatStarts
  <2>10. CASE SetupFails(h)
    BY <2>10 DEF SetupFails
  <2>11. CASE BeatSent(h)
    BY <2>11 DEF BeatSent
  <2>12. CASE BeatLands(h)
    BY <2>12 DEF BeatLands, Renewed
  <2>13. CASE BeatLost(h)
    BY <2>13 DEF BeatLost
  <2>14. CASE Shutdown(h)
    BY <2>14 DEF Shutdown
  <2>15. CASE WatchdogFatal(h)
    BY <2>15 DEF WatchdogFatal
  <2>16. CASE LeftoverStops(h)
    BY <2>16 DEF LeftoverStops
  <2>17. CASE ReleaseAll(h)
    BY <2>17 DEF ReleaseAll, Drop
  <2>18. CASE ReleaseFails(h)
    BY <2>18 DEF ReleaseFails
  <2>19. QED
    BY <1>1, <2>1, <2>2, <2>3, <2>4, <2>5, <2>6, <2>7, <2>8, <2>9, <2>10, <2>11,
       <2>12, <2>13, <2>14, <2>15, <2>16, <2>17, <2>18 DEF Run
<1>2. ASSUME NEW p \in Proc, Crash(p) PROVE Goal
  BY <1>2 DEF Crash
<1>3. ASSUME NEW j \in Key, OperatorRelease(j) PROVE Goal
  BY <1>3 DEF OperatorRelease
<1>4. CASE Tick
  BY <1>4 DEF Tick
<1>5. CASE UNCHANGED vars
  BY <1>5 DEF vars
<1>6. QED
  BY <1>1, <1>2, <1>3, <1>4, <1>5 DEF Next

\* Without any assumption on punctuality: nobody but its holder or the operator
\* removes the unexpired row of a live process.
THEOREM LiveLeases == Spec => LiveLeaseKept
<1>1. LeaseInv /\ [Next]_vars =>
        [\A k \in Key, g \in Holder :
           /\ row[k].holder = g /\ row[k].left > 0 /\ Live(g)
           /\ row'[k].holder # g
           => \/ pc[g] = "release" /\ pc'[g] = "ended"
              \/ k \in unbacked'[g] ]_vars
  BY LiveLeaseStep
<1>2. QED
  BY LeaseInvariant, <1>1, PTL DEF Spec, LiveLeaseKept
-----------------------------------------------------------------------------
(* Refinement: ProxyLeases implements ProxyExclusion. *)

\* UserOf names the one user of a key.
LEMMA TheUser ==
  ASSUME LeaseInv, NEW k \in Key, NEW h \in Holder, Uses(h, k)
  PROVE  UserOf[k] = h
  BY InvExclusion DEF MutualExclusion, UserOf

\* Nobody starts to use a key: the abstract Yield.
LEMMA YieldStep ==
  ASSUME LeaseInv, LeaseInv', \A g \in Holder, k \in Key : Uses(g, k)' => Uses(g, k)
  PROVE  Exclusion!Next
<1> DEFINE Given == {k \in Key : \A g \in Holder : ~Uses(g, k)'}
<1>1. ASSUME NEW k \in Given PROVE UserOf'[k] = NoHolder
  BY <1>1 DEF UserOf
<1>2. ASSUME NEW k \in Key, k \notin Given PROVE UserOf'[k] = UserOf[k]
  <2>1. PICK g \in Holder : Uses(g, k)'
    BY <1>2
  <2>2. UserOf[k] = g
    <3>1. Uses(g, k)
      BY <2>1
    <3>2. QED
      BY <3>1, TheUser
  <2>3. \A h \in Holder : Uses(h, k)' <=> h = g
    BY <2>1, InvExclusion DEF MutualExclusion
  <2>4. UserOf'[k] = g
    BY <2>3 DEF UserOf
  <2>5. QED
    BY <2>2, <2>4
<1>3. UserOf' = [k \in Key |-> IF k \in Given THEN NoHolder ELSE UserOf[k]]
  <2>1. UserOf' = [k \in Key |-> UserOf'[k]]
    BY DEF UserOf
  <2>2. QED
    BY <1>1, <1>2, <2>1
<1>4. Exclusion!Yield(Given)
  BY <1>3 DEF Exclusion!Yield
<1>5. QED
  BY <1>4 DEF Exclusion!Next

\* One run uses more keys, the others what they used: the abstract Take.
LEMMA TakeStep ==
  ASSUME LeaseInv, LeaseInv', NEW h \in Holder,
         \A k \in Key : Uses(h, k) => Uses(h, k)',
         \A g \in Holder \ {h}, k \in Key : Uses(g, k)' <=> Uses(g, k)
  PROVE  Exclusion!Next
<1> DEFINE Taken == {k \in Key : Uses(h, k)' /\ ~Uses(h, k)}
<1>0. \A k \in Key, f, g \in Holder : Uses(f, k)' /\ Uses(g, k)' => f = g
  <2>1. MutualExclusion'
    BY InvExclusion, PTL
  <2>2. QED
    BY <2>1 DEF MutualExclusion
<1>1. ASSUME NEW k \in Taken PROVE UserOf[k] = NoHolder /\ UserOf'[k] = h
  <2>1. \A g \in Holder : ~Uses(g, k)
    BY <1>0, <1>1
  <2>2. \A g \in Holder : Uses(g, k)' <=> g = h
    BY <1>0, <1>1
  <2>3. QED
    BY <2>1, <2>2 DEF UserOf
<1>2. ASSUME NEW k \in Key, k \notin Taken PROVE UserOf'[k] = UserOf[k]
  <2>1. \A g \in Holder : Uses(g, k)' <=> Uses(g, k)
    BY <1>2
  <2>2. QED
    BY <2>1 DEF UserOf
<1>3. UserOf' = [k \in Key |-> IF k \in Taken THEN h ELSE UserOf[k]]
  <2>1. UserOf' = [k \in Key |-> UserOf'[k]]
    BY DEF UserOf
  <2>2. QED
    BY <1>1, <1>2, <2>1
<1>4. Exclusion!Take(h, Taken)
  BY <1>1, <1>3 DEF Exclusion!Take
<1>5. QED
  BY <1>4 DEF Exclusion!Next

\* The initial states and the steps of the lease table map to ProxyExclusion.
LEMMA ExclusionStep == LeaseInv /\ LeaseInv' /\ [Next]_vars => Exclusion!Next
<1> SUFFICES ASSUME LeaseInv, LeaseInv', [Next]_vars PROVE Exclusion!Next
  OBVIOUS
<1> DEFINE Fewer == \A g \in Holder, k \in Key : Uses(g, k)' => Uses(g, k)
<1> USE DEF LeaseInv, TypeOK, Uses, Sends, Active
<1>1. ASSUME NEW h \in Holder, Run(h) PROVE Exclusion!Next
  <2>1. ASSUME Start(h) PROVE Fewer
    BY <2>1 DEF Start
  <2>2. ASSUME SweepExpired(h) PROVE Fewer
    BY <2>2 DEF SweepExpired
  <2>3. ASSUME ListDead(h) PROVE Fewer
    BY <2>3 DEF ListDead
  <2>4. ASSUME PurgeDead(h) PROVE Fewer
    BY <2>4 DEF PurgeDead, BeginClaim, FreshPool
  <2>5. ASSUME CleanupFails(h) PROVE Fewer
    BY <2>5 DEF CleanupFails, BeginClaim, FreshPool
  <2>6. ASSUME NEW j \in Key, Claim(h, j) PROVE Fewer
    BY <2>6 DEF Claim
  <2>7. ASSUME HeartbeatStarts(h) PROVE Fewer
    BY <2>7 DEF HeartbeatStarts
  <2>8. ASSUME SetupFails(h) PROVE Fewer
    BY <2>8 DEF SetupFails
  <2>9. ASSUME BeatSent(h) PROVE Fewer
    BY <2>9 DEF BeatSent
  <2>10. ASSUME BeatLands(h) PROVE Exclusion!Next
    <3>1. \A k \in Key : Uses(h, k) => Uses(h, k)'
      BY <2>10 DEF BeatLands
    <3>2. \A g \in Holder \ {h}, k \in Key : Uses(g, k)' <=> Uses(g, k)
      BY <2>10 DEF BeatLands
    <3>3. QED
      BY <3>1, <3>2, TakeStep
  <2>11. ASSUME BeatLost(h) PROVE Fewer
    BY <2>11 DEF BeatLost
  <2>12. ASSUME Shutdown(h) PROVE Fewer
    BY <2>12 DEF Shutdown
  <2>13. ASSUME WatchdogFatal(h) PROVE Fewer
    BY <2>13 DEF WatchdogFatal
  <2>14. ASSUME LeftoverStops(h) PROVE Fewer
    BY <2>14 DEF LeftoverStops
  <2>15. ASSUME ReleaseAll(h) PROVE Fewer
    BY <2>15 DEF ReleaseAll
  <2>16. ASSUME ReleaseFails(h) PROVE Fewer
    BY <2>16 DEF ReleaseFails
  <2>17. ASSUME NEW j \in Key, ClaimFails(h, j) PROVE Exclusion!Next
    <3>1. \A k \in Key : ~Uses(h, k)
      BY <2>17 DEF ClaimFails, FreshPool
    <3>2. \A g \in Holder \ {h}, k \in Key : Uses(g, k)' <=> Uses(g, k)
      BY <2>17 DEF ClaimFails
    <3>3. QED
      BY <3>1, <3>2, TakeStep
  <2>18. ASSUME Claimed(h) PROVE Exclusion!Next
    <3>1. \A k \in Key : ~Uses(h, k)
      BY <2>18 DEF Claimed, FreshPool
    <3>2. \A g \in Holder \ {h}, k \in Key : Uses(g, k)' <=> Uses(g, k)
      BY <2>18 DEF Claimed
    <3>3. QED
      BY <3>1, <3>2, TakeStep
  <2>19. Fewer \/ Exclusion!Next
    BY <1>1, <2>1, <2>2, <2>3, <2>4, <2>5, <2>6, <2>7, <2>8, <2>9, <2>10, <2>11,
       <2>12, <2>13, <2>14, <2>15, <2>16, <2>17, <2>18 DEF Run
  <2>20. QED
    BY <2>19, YieldStep
<1>2. ASSUME NEW p \in Proc, Crash(p) PROVE Exclusion!Next
  <2>1. Fewer
    BY <1>2 DEF Crash
  <2>2. QED
    BY <2>1, YieldStep
<1>3. ASSUME NEW j \in Key, OperatorRelease(j) PROVE Exclusion!Next
  <2>1. Fewer
    BY <1>3 DEF OperatorRelease, Row
  <2>2. QED
    BY <2>1, YieldStep
<1>4. CASE Tick
  <2>1. Fewer
    BY <1>4 DEF Tick
  <2>2. QED
    BY <2>1, YieldStep
<1>5. CASE UNCHANGED vars
  <2>1. Fewer
    BY <1>5 DEF vars
  <2>2. QED
    BY <2>1, YieldStep
<1>6. QED
  BY <1>1, <1>2, <1>3, <1>4, <1>5 DEF Next

\* The lease table and its runs implement ProxyExclusion.
THEOREM ImplementsExclusion == Spec => ExclusionSpec
<1>1. Init => Exclusion!Init
  BY DEF Init, Exclusion!Init, UserOf, Uses, Sends
<1>2. LeaseInv /\ LeaseInv' /\ [Next]_vars => [Exclusion!Next]_UserOf
  BY ExclusionStep
<1>3. QED
  BY <1>1, <1>2, LeaseInvariant, PTL DEF Spec, ExclusionSpec, Exclusion!Spec
=============================================================================
