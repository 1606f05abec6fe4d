--------------------------- MODULE TelegramBotProofs ---------------------------
(* What the bot confirms to Telegram was taken up, for any number of chats, *)
(* slots, updates, failed calls and crashes.                                *)
EXTENDS TelegramBot, FiniteSetTheorems, TLAPS

(* The messages kept by Telegram are a sequence, whatever is in them. *)
Kept == \E S : updates \in Seq(S)

IInv == Kept /\ PollInv

LEMMA Start == Init => IInv
<1> SUFFICES ASSUME Init PROVE IInv
  OBVIOUS
<1>1. updates \in Seq({}) /\ Len(updates) = 0
  BY DEF Init
<1>2. \A u \in Update : u \in Nat /\ u > 0
  BY BotAssumption DEF Update
<1>3. PollInv
  BY <1>1, <1>2, BotAssumption DEF Init, PollInv, Loop, Places, Over, Running, Later
<1> QED
  BY <1>1, <1>3 DEF IInv, Kept

(* A user's message is appended and disturbs nothing else. *)
LEMMA SendKeeps == ASSUME IInv, NEW m, Send(m) PROVE IInv'
<1>1. PICK S : updates \in Seq(S)
  BY DEF IInv, Kept
<1>2. updates' \in Seq(S \cup {m}) /\ Len(updates') = Len(updates) + 1
  BY <1>1 DEF Send
<1>3. Len(updates) \in Nat
  BY <1>1
<1>4. PollInv'
  BY <1>2, <1>3, BotAssumption
  DEF IInv, PollInv, Send, pollVars, lifeVars, Loop, Later, Update
<1> QED
  BY <1>2, <1>4 DEF IInv, Kept

(* getUpdates: with no update in hand, all below its offset is taken up. *)
LEMMA PollKeeps == ASSUME IInv, NEW n \in 0..MaxUpdates, Poll(n) PROVE IInv'
<1>1. PICK S : updates \in Seq(S)
  BY DEF IInv, Kept
<1>2. Len(updates) \in Nat
  BY <1>1
<1> DEFINE from == Later(confirmed, lastOffset)
<1>3. /\ from \in 0..Len(updates) /\ n \in from..Len(updates)
      /\ confirmed' = from /\ lastOffset' = n /\ taken' = taken
      /\ updates' = updates /\ crashes' = crashes
      /\ at' = [u \in Update |-> IF u \in (from + 1)..n THEN "got" ELSE at[u]]
  BY <1>2 DEF Poll, Later, IInv, PollInv, lifeVars
<1>4. Loop = {}
  BY DEF Poll
<1>5. Loop' = {u \in Update : u \in (from + 1)..n}
  BY <1>3, <1>4 DEF Loop
<1>6. from = confirmed \/ from = lastOffset
  BY DEF Later
<1>7. Update \subseteq Nat
  BY DEF Update
<1>8. at' \in [Update -> Places]
  BY <1>3 DEF IInv, PollInv, Places
<1>9. \A u \in 1..from : u \in Update /\ taken[u] >= 1
  BY <1>2, <1>4, <1>6, BotAssumption DEF IInv, PollInv, Update
<1>10. \A u \in 1..n : u \in Loop' \/ taken[u] >= 1
  BY <1>2, <1>3, <1>5, <1>9, BotAssumption DEF IInv, PollInv, Update
<1>11. \A u \in Update : u > from => taken[u] <= crashes
  BY DEF IInv, PollInv
<1>12. Later(from, n) = n
  BY <1>2, <1>3 DEF Later
<1>13. PollInv'
  BY <1>2, <1>3, <1>5, <1>7, <1>8, <1>9, <1>10, <1>11, <1>12
  DEF IInv, PollInv
<1> QED
  BY <1>1, <1>3, <1>13 DEF IInv, Kept

(* pollLoop takes one update up: once more, and it leaves the loop. *)
LEMMA DispatchKeeps == ASSUME IInv, NEW u \in Update, Dispatch(u) PROVE IInv'
<1>1. PICK S : updates \in Seq(S)
  BY DEF IInv, Kept
<1>2. Len(updates) \in Nat
  BY <1>1
<1>3. PICK p \in Places \ {"got"} : at' = [at EXCEPT ![u] = p]
  BY DEF Dispatch, EnqueueSearch, Places, Running, Over
<1>4. /\ updates' = updates /\ confirmed' = confirmed /\ lastOffset' = lastOffset
      /\ crashes' = crashes /\ taken' = [taken EXCEPT ![u] = @ + 1] /\ u \in Loop
  BY DEF Dispatch, lifeVars
<1>5. Loop' = Loop \ {u}
  BY <1>3 DEF Loop, IInv, PollInv
<1>6. u <= lastOffset /\ taken[u] <= crashes
  BY <1>4 DEF IInv, PollInv
<1>7. u <= Later(confirmed, lastOffset)
  BY <1>2, <1>6 DEF Later, IInv, PollInv, Update
<1>8. at' \in [Update -> Places] /\ taken' \in [Update -> Nat]
  BY <1>3, <1>4 DEF IInv, PollInv
<1>9. \A v \in Update : taken'[v] = IF v = u THEN taken[u] + 1 ELSE taken[v]
  BY <1>4 DEF IInv, PollInv
<1>10. \A v \in 1..lastOffset : v \in Update
  BY <1>2, BotAssumption DEF IInv, PollInv, Update
<1>11. \A v \in 1..confirmed : v \in Update
  BY <1>2, BotAssumption DEF IInv, PollInv, Update
<1>12. \A v \in Update : v \in Nat /\ taken[v] \in Nat
  BY DEF IInv, PollInv, Update
<1>13. Later(confirmed, lastOffset) \in Nat
  BY <1>2 DEF IInv, PollInv, Later
<1>14. (\A v \in 1..confirmed : taken[v] >= 1)'
  BY <1>4, <1>9, <1>11, <1>12 DEF IInv, PollInv
<1>15. (\A v \in 1..lastOffset : v \in Loop \/ taken[v] >= 1)'
  BY <1>4, <1>5, <1>9, <1>10, <1>12 DEF IInv, PollInv
<1>16. (\A v \in Update : taken[v] <= 1 + crashes)'
  BY <1>4, <1>6, <1>9, <1>12 DEF IInv, PollInv
<1>17. (\A v \in Update :
          v > Later(confirmed, lastOffset) \/ v \in Loop => taken[v] <= crashes)'
  BY <1>4, <1>5, <1>7, <1>9, <1>12, <1>13 DEF IInv, PollInv, Later, Update
<1>18. PollInv'
  BY <1>4, <1>5, <1>8, <1>14, <1>15, <1>16, <1>17 DEF IInv, PollInv
<1> QED
  BY <1>1, <1>4, <1>18 DEF IInv, Kept

(* What keeps the offsets and the loop keeps the invariant. *)
LEMMA Rests ==
  ASSUME IInv, UNCHANGED <<updates, confirmed, lastOffset, taken, crashes>>,
         at' \in [Update -> Places], Loop' = Loop
  PROVE  IInv'
BY DEF IInv, Kept, PollInv, Later

(* The end of a job starts jobs and takes nothing into the loop. *)
LEMMA JobEndsPlaces ==
  ASSUME IInv, Loop = {}, NEW u \in Update, NEW next \in {"done", "reply"},
         JobEnds(u, next)
  PROVE  at' \in [Update -> Places] /\ Loop' = {}
BY DEF JobEnds, IInv, PollInv, Places, Loop, Over, Running

(* A handler that goes on from an await moves updates that were taken up. *)
LEMMA HandlerKeeps ==
  ASSUME IInv, Loop = {}, NEW u \in Update, Handler(u) PROVE IInv'
<1>1. UNCHANGED <<updates, confirmed, lastOffset, taken, crashes>>
  <2> USE DEF pollVars, lifeVars
  <2>1. CASE Transcribed(u) \/ AckConfirm(u) \/ ResolveVoiceConfirmQuery(u)
    BY <2>1 DEF Transcribed, AckConfirm, ResolveVoiceConfirmQuery
  <2>2. CASE ConfirmedSearch(u) \/ WaitShown(u) \/ WaitReturned(u)
    BY <2>2 DEF ConfirmedSearch, WaitShown, WaitReturned
  <2>3. CASE CancelQueuedJob(u) \/ NotifyStart(u)
    BY <2>3 DEF CancelQueuedJob, NotifyStart
  <2>4. CASE Searched(u) \/ ResultsSent(u) \/ ResultsHang(u) \/ Reply(u)
    BY <2>4 DEF Searched, ResultsSent, ResultsHang, Reply
  <2> QED
    BY <2>1, <2>2, <2>3, <2>4 DEF Handler
<1>2. at \in [Update -> Places] /\ \A v \in Update : at[v] # "got"
  BY DEF IInv, PollInv, Loop
<1>3. at' \in [Update -> Places] /\ Loop' = {}
  <2> USE <1>2 DEF Places, Over, Running, Loop
  <2>1. CASE Transcribed(u) \/ AckConfirm(u) \/ ResolveVoiceConfirmQuery(u)
    BY <2>1 DEF Transcribed, AckConfirm, ResolveVoiceConfirmQuery
  <2>2. CASE ConfirmedSearch(u)
    BY <2>2 DEF ConfirmedSearch, EnqueueSearch
  <2>3. CASE WaitShown(u) \/ WaitReturned(u)
    BY <2>3 DEF WaitShown, WaitReturned
  <2>4. CASE CancelQueuedJob(u)
    BY <2>4 DEF CancelQueuedJob
  <2>5. CASE NotifyStart(u) \/ ResultsHang(u) \/ Reply(u)
    BY <2>5 DEF NotifyStart, ResultsHang, Reply
  <2>6. CASE Searched(u) \/ ResultsSent(u)
    <3>1. CASE \E next \in {"done", "reply"} : JobEnds(u, next)
      BY <3>1, JobEndsPlaces
    <3>2. CASE at' = [at EXCEPT ![u] = "results"]
      BY <3>2
    <3> QED
      BY <2>6, <3>1, <3>2 DEF Searched, Streamed, ResultsSent
  <2> QED
    BY <2>1, <2>2, <2>3, <2>4, <2>5, <2>6 DEF Handler
<1> QED
  BY <1>1, <1>3, Rests

(* A crash puts what was not confirmed back into Telegram's hands. *)
LEMMA CrashKeeps == ASSUME IInv, Crash PROVE IInv'
<1>1. PICK S : updates \in Seq(S)
  BY DEF IInv, Kept
<1>2. Len(updates) \in Nat
  BY <1>1
<1>3. /\ updates' = updates /\ confirmed' = confirmed /\ lastOffset' = 0
      /\ taken' = taken /\ crashes' = crashes + 1
  BY DEF Crash
<1>4. at' \in [Update -> Places] /\ Loop' = {}
  BY DEF Crash, IInv, PollInv, Loop, Places, Over
<1>5. \A u \in Update : taken[u] \in Nat /\ taken[u] <= 1 + crashes
  BY DEF IInv, PollInv
<1>6. PollInv'
  BY <1>2, <1>3, <1>4, <1>5 DEF IInv, PollInv
<1> QED
  BY <1>1, <1>3, <1>6 DEF IInv, Kept

(* What the users do is a message each. *)
LEMMA UsersKeep ==
  ASSUME IInv,
         \/ \E c \in Chat : Writes(c) \/ Speaks(c) \/ Confirms(c)
         \/ \E b \in buttons : Cancels(b)
  PROVE  IInv'
BY SendKeeps DEF Writes, Speaks, Confirms, Cancels

LEMMA Step == IInv /\ [Next]_vars => IInv'
<1> SUFFICES ASSUME IInv, [Next]_vars PROVE IInv'
  OBVIOUS
<1>1. ASSUME NEW n \in 0..MaxUpdates, Poll(n) PROVE IInv'
  BY <1>1, PollKeeps
<1>2. ASSUME NEW u \in Update, Dispatch(u) PROVE IInv'
  BY <1>2, DispatchKeeps
<1>3. ASSUME NEW u \in Update, Loop = {}, Handler(u) PROVE IInv'
  BY <1>3, HandlerKeeps
<1>4. CASE Crash
  BY <1>4, CrashKeeps
<1>5. CASE \/ \E c \in Chat : PendingExpires(c)
           \/ Restart
           \/ UNCHANGED vars
  <2>1. UNCHANGED <<updates, confirmed, lastOffset, taken, crashes, at>>
    BY <1>5 DEF PendingExpires, Restart, vars, pollVars, lifeVars
  <2>2. at' \in [Update -> Places] /\ Loop' = Loop
    BY <2>1 DEF Loop, IInv, PollInv
  <2> QED
    BY <2>1, <2>2, Rests
<1> QED
  BY <1>1, <1>2, <1>3, <1>4, <1>5, UsersKeep DEF Next

(* pollLoop: what it will confirm is taken up or in hand, and what it will *)
(* be given again was taken up at most once per crash.                     *)
THEOREM PollInvariant == Spec => []PollInv
<1>1. IInv => PollInv
  BY DEF IInv
<1> QED
  BY Start, Step, <1>1, PTL DEF Spec

(* No update is confirmed that no process took up, and none is taken up    *)
(* twice without a crash in between.                                       *)
THEOREM UpdatesTakenUp == Spec => []TakenUp
<1>1. PollInv => TakenUp
  BY DEF PollInv, TakenUp
<1> QED
  BY PollInvariant, <1>1, PTL

-----------------------------------------------------------------------------
(* The search queue. *)

(* Where an update is that has no search of its own. *)
Idle == Places \ (Running \cup {"queued"})

Placed ==
  /\ at \in [Update -> Places]
  /\ waitMsg \in [Update -> {"none", "sending", "shown", "known"}]
  /\ \A u \in Update : at[u] # "sent" => u <= Len(updates)
  /\ \A u \in Update : u > Later(confirmed, lastOffset) => at[u] \in {"sent", "done"}

Counted == active = Cardinality(RunningJobs) /\ active <= Slots

BusyChats ==
  /\ busy = {chat(u) : u \in Jobs}
  /\ \A u, v \in Jobs : chat(u) = chat(v) => u = v

(* The jobs wait in the order of their numbers. *)
QueueOrdered ==
  /\ queue \in Seq(Update) /\ jobOf \in [Update -> Nat] /\ counter \in Nat
  /\ \A u \in Update : jobOf[u] <= counter
  /\ {queue[i] : i \in DOMAIN queue} = {u \in Update : at[u] = "queued"}
  /\ \A i, j \in DOMAIN queue : i < j => jobOf[queue[i]] < jobOf[queue[j]]

QueueOnFull == queue # <<>> => active = Slots

SearchInv == Placed /\ Counted /\ BusyChats /\ QueueOrdered /\ QueueOnFull

LEMMA BotInvHolds == SearchInv => BotInv
BY DEF SearchInv, Placed, Counted, BusyChats, QueueOrdered, QueueOnFull, BotInv

LEMMA FiniteJobs == IsFiniteSet(RunningJobs) /\ Cardinality(RunningJobs) \in Nat
<1>1. IsFiniteSet(Update)
  BY FS_Interval, BotAssumption DEF Update
<1> QED
  BY <1>1, FS_Subset, FS_CardinalityType DEF RunningJobs

LEMMA ActiveInNat == ASSUME Counted PROVE active \in 0..Slots
BY FiniteJobs, BotAssumption DEF Counted

(* No job waits twice, and the jobs that wait are at "queued". *)
LEMMA QueueFacts ==
  ASSUME QueueOrdered
  PROVE  /\ Len(queue) \in Nat /\ DOMAIN queue = 1..Len(queue)
         /\ \A i \in DOMAIN queue : queue[i] \in Update /\ at[queue[i]] = "queued"
         /\ \A i, j \in DOMAIN queue : queue[i] = queue[j] => i = j
<1>1. Len(queue) \in Nat /\ DOMAIN queue = 1..Len(queue)
  BY DEF QueueOrdered
<1>2. \A i \in DOMAIN queue : queue[i] \in Update /\ at[queue[i]] = "queued"
  BY DEF QueueOrdered
<1>3. ASSUME NEW i \in DOMAIN queue, NEW j \in DOMAIN queue, queue[i] = queue[j]
      PROVE  i = j
  <2>1. ~ (i < j) /\ ~ (j < i)
    BY <1>2, <1>3 DEF QueueOrdered
  <2> QED
    BY <1>1, <2>1
<1> QED
  BY <1>1, <1>2, <1>3

LEMMA SearchStart == Init => SearchInv
<1> SUFFICES ASSUME Init PROVE SearchInv
  OBVIOUS
<1>1. Jobs = {} /\ RunningJobs = {}
  BY DEF Init, Jobs, RunningJobs, Running
<1>2. Placed
  BY DEF Init, Placed, Places
<1>3. Counted
  BY <1>1, FS_EmptySet, BotAssumption DEF Init, Counted
<1>4. BusyChats
  BY <1>1 DEF Init, BusyChats
<1>5. QueueOrdered
  BY DEF Init, QueueOrdered
<1> QED
  BY <1>2, <1>3, <1>4, <1>5 DEF SearchInv, QueueOnFull, Init

(* A step that starts no search and ends none. *)
Quiet ==
  /\ UNCHANGED <<updates, confirmed, lastOffset, queueVars>>
  /\ waitMsg' \in [Update -> {"none", "sending", "shown", "known"}]
  /\ at' \in [Update -> Places]
  /\ \A v \in Update :
       \/ at'[v] = at[v]
       \/ at[v] \in Running /\ at'[v] \in Running
       \/ at[v] \in Idle \ {"sent", "done"} /\ at'[v] \in Idle

LEMMA QuietKeeps == ASSUME SearchInv, Quiet PROVE SearchInv'
<1> USE DEF SearchInv
<1>1. /\ Jobs' = Jobs /\ RunningJobs' = RunningJobs
      /\ {u \in Update : at[u] = "queued"}' = {u \in Update : at[u] = "queued"}
  BY DEF Quiet, Placed, Jobs, RunningJobs, Idle, Running, Places
<1>2. Placed'
  BY DEF Quiet, Placed, Idle, Running, Later
<1>3. Counted' /\ QueueOnFull'
  BY <1>1 DEF Quiet, Counted, QueueOnFull, queueVars
<1>4. BusyChats'
  BY <1>1 DEF Quiet, BusyChats, queueVars, chat
<1>5. QueueOrdered'
  BY <1>1 DEF Quiet, QueueOrdered, queueVars
<1> QED
  BY <1>2, <1>3, <1>4, <1>5

(* A message that arrives is of no search yet. *)
LEMMA SendSearch == ASSUME Kept, SearchInv, NEW m, Send(m) PROVE SearchInv'
<1>1. PICK S : updates \in Seq(S)
  BY DEF Kept
<1>2. Len(updates) \in Nat /\ Len(updates') = Len(updates) + 1
  BY <1>1 DEF Send
<1>3. \A u \in Update : u <= Len(updates) => chat(u)' = chat(u)
  BY <1>1, <1>2 DEF Send, chat, Update
<1>4. /\ UNCHANGED <<at, waitMsg, confirmed, lastOffset>>
      /\ UNCHANGED <<counter, jobOf, queue, active, busy>>
  BY DEF Send, pollVars, queueVars
<1>5. Jobs' = Jobs /\ RunningJobs' = RunningJobs
  BY <1>4 DEF Jobs, RunningJobs
<1>6. \A u \in Jobs : chat(u)' = chat(u)
  BY <1>3 DEF SearchInv, Placed, Jobs, Running
<1>7. Placed'
  <2>1. \A u \in Update : u \in Nat
    BY DEF Update
  <2> QED
    BY <1>2, <1>4, <2>1 DEF SearchInv, Placed, Later
<1>8. Counted' /\ QueueOrdered' /\ QueueOnFull'
  BY <1>4, <1>5 DEF SearchInv, Counted, QueueOrdered, QueueOnFull
<1>9. BusyChats'
  BY <1>4, <1>5, <1>6 DEF SearchInv, BusyChats
<1> QED
  BY <1>7, <1>8, <1>9 DEF SearchInv

(* The updates of an answer are new, or were answered before a crash. *)
LEMMA PollSearch ==
  ASSUME IInv, SearchInv, NEW n \in 0..MaxUpdates, Poll(n) PROVE SearchInv'
<1> DEFINE from == Later(confirmed, lastOffset)
<1>1. PICK S : updates \in Seq(S)
  BY DEF IInv, Kept
<1>2. Len(updates) \in Nat
  BY <1>1
<1>3. /\ from \in 0..Len(updates) /\ n \in from..Len(updates)
      /\ confirmed' = from /\ lastOffset' = n /\ updates' = updates
      /\ UNCHANGED <<waitMsg, counter, jobOf, queue, active, busy>>
      /\ at' = [u \in Update |-> IF u \in (from + 1)..n THEN "got" ELSE at[u]]
  BY <1>2 DEF Poll, Later, IInv, PollInv, queueVars
<1>4. \A u \in (from + 1)..n : u \in Update => at[u] \in {"sent", "done"}
  BY <1>2, <1>3 DEF SearchInv, Placed
<1>5. /\ Jobs' = Jobs /\ RunningJobs' = RunningJobs
      /\ {u \in Update : at[u] = "queued"}' = {u \in Update : at[u] = "queued"}
  BY <1>3, <1>4 DEF Jobs, RunningJobs, Running
<1>6. Placed'
  <2>1. Later(from, n) = n
    BY <1>2, <1>3 DEF Later
  <2>2. \A u \in Update : u \in Nat
    BY DEF Update
  <2>3. \A u \in Update : u > n => u > from /\ u \notin (from + 1)..n
    BY <1>2, <1>3, <2>2
  <2>4. at' \in [Update -> Places]
    BY <1>3 DEF SearchInv, Placed, Places
  <2>5. \A u \in Update : at'[u] # "sent" => u <= Len(updates)
    BY <1>2, <1>3, <2>2 DEF SearchInv, Placed
  <2>6. \A u \in Update : u > n => at'[u] \in {"sent", "done"}
    BY <1>3, <2>3 DEF SearchInv, Placed
  <2> QED
    BY <1>3, <2>1, <2>4, <2>5, <2>6 DEF SearchInv, Placed
<1>7. Counted' /\ QueueOnFull'
  BY <1>3, <1>5 DEF SearchInv, Counted, QueueOnFull
<1>8. BusyChats'
  BY <1>3, <1>5 DEF SearchInv, BusyChats, chat
<1>9. QueueOrdered'
  BY <1>3, <1>5 DEF SearchInv, QueueOrdered
<1> QED
  BY <1>6, <1>7, <1>8, <1>9 DEF SearchInv

(* enqueueSearch: refused, started at once, or last in the queue. *)
LEMMA EnqueueSearchKeeps ==
  ASSUME SearchInv, NEW u \in Update, at[u] \in {"got", "edit"}, EnqueueSearch(u),
         UNCHANGED <<updates, confirmed, lastOffset>>
  PROVE  SearchInv'
<1> USE DEF SearchInv
<1>1. CASE chat(u) \in busy
  <2>1. at' = [at EXCEPT ![u] = "reply"] /\ UNCHANGED <<queueVars, waitMsg>>
    BY <1>1 DEF EnqueueSearch
  <2>2. Quiet
    BY <2>1 DEF Quiet, Placed, Idle, Places, Running, queueVars
  <2> QED
    BY <2>2, QuietKeeps
<1>2. CASE chat(u) \notin busy
  <2> DEFINE p == IF active < Slots THEN "notify" ELSE "queued"
  <2>1. /\ busy' = busy \cup {chat(u)} /\ counter' = counter + 1
        /\ jobOf' = [jobOf EXCEPT ![u] = counter + 1]
        /\ at' = [at EXCEPT ![u] = p]
        /\ waitMsg' \in [Update -> {"none", "sending", "shown", "known"}]
        /\ active < Slots => active' = active + 1 /\ queue' = queue
        /\ ~ (active < Slots) => active' = active /\ queue' = Append(queue, u)
    BY <1>2, ActiveInNat, BotAssumption DEF EnqueueSearch, Placed
  <2>2. at[u] \notin Running \cup {"queued", "sent", "done"}
    BY DEF Running
  <2>3. Jobs' = Jobs \cup {u} /\ u \notin Jobs /\ u \notin RunningJobs
    BY <2>1, <2>2 DEF Jobs, RunningJobs, Placed, Running
  <2>4. Placed'
    BY <2>1, <2>2 DEF Placed, Places, Running
  <2>5. BusyChats'
    <3>1. \A v \in Update : chat(v)' = chat(v)
      BY DEF chat
    <3>2. \A v \in Jobs : v \in Update /\ chat(v) # chat(u)
      BY <1>2 DEF BusyChats, Jobs
    <3> QED
      BY <2>1, <2>3, <3>1, <3>2 DEF BusyChats
  <2>6. CASE active < Slots
    <3>1. queue = <<>> /\ queue' = <<>>
      BY <2>1, <2>6, ActiveInNat, BotAssumption DEF QueueOnFull
    <3>2. RunningJobs' = RunningJobs \cup {u}
      BY <2>1, <2>6 DEF RunningJobs, Placed, Running
    <3>3. Cardinality(RunningJobs') = Cardinality(RunningJobs) + 1
      BY <2>3, <3>2, FiniteJobs, FS_AddElement
    <3>4. Counted'
      BY <2>1, <2>6, <3>3, ActiveInNat, BotAssumption DEF Counted
    <3>5. QueueOrdered'
      <4>1. {v \in Update : at[v] = "queued"}' = {v \in Update : at[v] = "queued"}
        BY <2>1, <2>2, <2>6 DEF Placed
      <4>2. jobOf' \in [Update -> Nat] /\ counter' \in Nat
        BY <2>1 DEF QueueOrdered
      <4>3. \A v \in Update : jobOf'[v] <= counter'
        BY <2>1 DEF QueueOrdered
      <4> QED
        BY <3>1, <4>1, <4>2, <4>3 DEF QueueOrdered
    <3> QED
      BY <2>4, <2>5, <3>1, <3>4, <3>5 DEF QueueOnFull
  <2>7. CASE ~ (active < Slots)
    <3>1. active = Slots /\ active' = active
      BY <2>1, <2>7, ActiveInNat, BotAssumption
    <3>2. RunningJobs' = RunningJobs
      BY <2>1, <2>2, <2>7 DEF RunningJobs, Placed, Running
    <3>3. Counted' /\ QueueOnFull'
      BY <3>1, <3>2 DEF Counted, QueueOnFull
    <3>4. /\ queue' \in Seq(Update) /\ Len(queue') = Len(queue) + 1
          /\ DOMAIN queue' = 1..(Len(queue) + 1) /\ queue'[Len(queue) + 1] = u
          /\ \A i \in DOMAIN queue : queue'[i] = queue[i]
      <4>1. queue \in Seq(Update) /\ queue' = Append(queue, u)
        BY <2>1, <2>7 DEF QueueOrdered
      <4>2. Len(queue) \in Nat /\ DOMAIN queue = 1..Len(queue)
        BY QueueFacts
      <4> QED
        BY <4>1, <4>2
    <3>5. \A i \in DOMAIN queue : queue[i] # u
      BY <2>2, QueueFacts
    <3>6. \A v \in Update : jobOf'[v] \in Nat /\ jobOf'[v] <= counter'
      BY <2>1 DEF QueueOrdered
    <3>7. jobOf' \in [Update -> Nat] /\ counter' \in Nat
      BY <2>1 DEF QueueOrdered
    <3>8. {queue'[i] : i \in DOMAIN queue'} = {queue[i] : i \in DOMAIN queue} \cup {u}
      BY <3>4, QueueFacts
    <3>9. {v \in Update : at'[v] = "queued"} = {v \in Update : at[v] = "queued"} \cup {u}
      BY <2>1, <2>7 DEF Placed
    <3>10. ASSUME NEW i \in DOMAIN queue', NEW j \in DOMAIN queue', i < j
           PROVE  jobOf'[queue'[i]] < jobOf'[queue'[j]]
      <4>1. i \in DOMAIN queue /\ queue'[i] = queue[i] /\ jobOf'[queue[i]] = jobOf[queue[i]]
        BY <2>1, <3>4, <3>5, <3>10, QueueFacts DEF QueueOrdered
      <4>2. CASE j \in DOMAIN queue
        <5>1. queue'[j] = queue[j] /\ jobOf'[queue[j]] = jobOf[queue[j]]
          BY <2>1, <3>4, <3>5, <4>2, QueueFacts DEF QueueOrdered
        <5> QED
          BY <3>10, <4>1, <4>2, <5>1 DEF QueueOrdered
      <4>3. CASE j = Len(queue) + 1
        <5>1. jobOf'[queue'[j]] = counter + 1
          BY <2>1, <3>4, <4>3 DEF QueueOrdered
        <5>2. jobOf[queue[i]] <= counter /\ jobOf[queue[i]] \in Nat /\ counter \in Nat
          BY <4>1, QueueFacts DEF QueueOrdered
        <5> QED
          BY <4>1, <5>1, <5>2
      <4> QED
        BY <3>4, <4>2, <4>3, QueueFacts
    <3>11. QueueOrdered'
      BY <3>4, <3>6, <3>7, <3>8, <3>9, <3>10 DEF QueueOrdered
    <3> QED
      BY <2>4, <2>5, <3>3, <3>11
  <2> QED
    BY <2>6, <2>7
<1> QED
  BY <1>1, <1>2

(* cancelQueuedJob takes one job out of the queue, wherever it stands. *)
LEMMA CancelKeeps ==
  ASSUME SearchInv, NEW u \in Update, CancelQueuedJob(u) PROVE SearchInv'
<1> USE DEF SearchInv
<1>1. CASE Waiting(updates[u].job) = {} /\ at' = [at EXCEPT ![u] = "done"]
           /\ UNCHANGED <<queue, busy>>
  <2>1. Quiet
    <3>1. /\ at[u] = "ack" /\ UNCHANGED waitMsg
          /\ UNCHANGED <<updates, confirmed, lastOffset, counter, jobOf, active>>
      BY DEF CancelQueuedJob, pollVars
    <3>2. at' \in [Update -> Places]
      BY <1>1 DEF Placed, Places, Over
    <3>3. \A v \in Update : at'[v] = IF v = u THEN "done" ELSE at[v]
      BY <1>1 DEF Placed
    <3>4. at[u] \in Idle \ {"sent", "done"} /\ "done" \in Idle
      BY <3>1 DEF Idle, Places, Over, Running
    <3> QED
      BY <1>1, <3>1, <3>2, <3>3, <3>4 DEF Quiet, Placed, queueVars
  <2> QED
    BY <2>1, QuietKeeps
<1>2. ASSUME NEW k \in Waiting(updates[u].job), queue' = RemoveAt(queue, k),
             busy' = busy \ {chat(queue[k])},
             at' = [at EXCEPT ![u] = "done", ![queue[k]] = "reply"]
      PROVE  SearchInv'
  <2> DEFINE q == queue[k]
  <2> DEFINE L == Len(queue)
  <2>1. k \in 1..L /\ L \in Nat /\ q \in Update /\ at[q] = "queued" /\ q # u
    BY QueueFacts DEF Waiting, CancelQueuedJob
  <2>2. /\ UNCHANGED <<updates, confirmed, lastOffset, counter, jobOf, active, waitMsg>>
        /\ at[u] = "ack"
    BY DEF CancelQueuedJob, pollVars
  <2>3. \A v \in Update : at'[v] = IF v = q THEN "reply" ELSE IF v = u THEN "done" ELSE at[v]
    BY <1>2, <2>1 DEF Placed
  <2>4. Jobs' = Jobs \ {q} /\ RunningJobs' = RunningJobs /\ q \in Jobs
    BY <2>1, <2>2, <2>3 DEF Jobs, RunningJobs, Running
  <2>5. Placed'
    <3>1. at' \in [Update -> Places]
      <4>1. "done" \in Places /\ "reply" \in Places
        BY DEF Places, Over
      <4> QED
        BY <1>2, <4>1 DEF Placed
    <3> QED
      BY <2>1, <2>2, <2>3, <3>1 DEF Placed, Later
  <2>6. Counted'
    BY <2>2, <2>4 DEF Counted
  <2>7. BusyChats'
    <3>1. \A v \in Update : chat(v)' = chat(v)
      BY <2>2 DEF chat
    <3>2. \A v \in Jobs : v \in Update
      BY DEF Jobs
    <3> QED
      BY <1>2, <2>4, <3>1, <3>2 DEF BusyChats
  <2>8. /\ queue' \in Seq(Update) /\ Len(queue') = L - 1 /\ DOMAIN queue' = 1..(L - 1)
        /\ \A i \in 1..(L - 1) : queue'[i] = queue[IF i < k THEN i ELSE i + 1]
    <3> DEFINE a == SubSeq(queue, 1, k - 1)
    <3> DEFINE b == SubSeq(queue, k + 1, L)
    <3>1. queue \in Seq(Update)
      BY DEF QueueOrdered
    <3>2. /\ a \in Seq(Update) /\ Len(a) = k - 1
          /\ \A i \in 1..(k - 1) : a[i] = queue[i]
      BY <2>1, <3>1
    <3>3. /\ b \in Seq(Update) /\ Len(b) = L - k
          /\ \A i \in 1..(L - k) : b[i] = queue[k + i]
      BY <2>1, <3>1
    <3>4. queue' = a \o b
      BY <1>2 DEF RemoveAt
    <3> HIDE DEF a, b
    <3>5. queue' \in Seq(Update) /\ Len(queue') = L - 1
      <4>1. a \o b \in Seq(Update) /\ Len(a \o b) = Len(a) + Len(b)
        BY <3>2, <3>3
      <4> QED
        BY <2>1, <3>2, <3>3, <3>4, <4>1
    <3>6. ASSUME NEW i \in 1..(L - 1)
          PROVE  queue'[i] = queue[IF i < k THEN i ELSE i + 1]
      <4>1. CASE i < k
        BY <2>1, <3>2, <3>3, <3>4, <4>1
      <4>2. CASE ~ (i < k)
        <5>1. queue'[i] = b[i - (k - 1)] /\ i - (k - 1) \in 1..(L - k)
          BY <2>1, <3>2, <3>3, <3>4, <4>2
        <5> QED
          BY <2>1, <3>3, <4>2, <5>1
      <4> QED
        BY <4>1, <4>2
    <3> QED
      BY <2>1, <3>5, <3>6
  <2>9. {queue'[i] : i \in DOMAIN queue'} = {queue[i] : i \in DOMAIN queue} \ {q}
    <3>1. ASSUME NEW i \in DOMAIN queue'
          PROVE  queue'[i] \in {queue[j] : j \in DOMAIN queue} \ {q}
      BY <2>1, <2>8, QueueFacts
    <3>2. ASSUME NEW j \in DOMAIN queue, queue[j] # q
          PROVE  queue[j] \in {queue'[i] : i \in DOMAIN queue'}
      <4>1. CASE j < k
        <5>1. j \in 1..(L - 1) /\ queue'[j] = queue[j]
          BY <2>1, <2>8, <4>1, QueueFacts
        <5> QED
          BY <2>8, <5>1
      <4>2. CASE j > k
        <5>1. j - 1 \in 1..(L - 1) /\ ~ (j - 1 < k) /\ (j - 1) + 1 = j
          BY <2>1, <4>2, QueueFacts
        <5>2. queue'[j - 1] = queue[j]
          BY <2>8, <5>1
        <5> QED
          BY <2>8, <5>1, <5>2
      <4> QED
        BY <2>1, <3>2, <4>1, <4>2, QueueFacts
    <3> QED
      BY <3>1, <3>2
  <2>10. QueueOrdered'
    <3>1. {v \in Update : at'[v] = "queued"} = {v \in Update : at[v] = "queued"} \ {q}
      BY <2>2, <2>3
    <3>2. ASSUME NEW i \in DOMAIN queue', NEW j \in DOMAIN queue', i < j
          PROVE  jobOf[queue'[i]] < jobOf[queue'[j]]
      <4> DEFINE ii == IF i < k THEN i ELSE i + 1
      <4> DEFINE jj == IF j < k THEN j ELSE j + 1
      <4>1. ii \in DOMAIN queue /\ jj \in DOMAIN queue /\ ii < jj
        BY <2>1, <2>8, <3>2, QueueFacts
      <4>2. queue'[i] = queue[ii] /\ queue'[j] = queue[jj]
        BY <2>8
      <4> HIDE DEF ii, jj
      <4> QED
        BY <4>1, <4>2 DEF QueueOrdered
    <3> QED
      BY <2>2, <2>8, <2>9, <3>1, <3>2 DEF QueueOrdered
  <2>11. QueueOnFull'
    BY <2>1, <2>2, <2>8 DEF QueueOnFull
  <2> QED
    BY <2>5, <2>6, <2>7, <2>10, <2>11
<1> QED
  BY <1>1, <1>2 DEF CancelQueuedJob

(* The end of a job gives its slot to the first that waits. *)
LEMMA JobEndsKeeps ==
  ASSUME SearchInv, NEW u \in Update, at[u] \in Running,
         NEW next \in {"done", "reply"}, JobEnds(u, next),
         UNCHANGED <<updates, confirmed, lastOffset, waitMsg>>
  PROVE  SearchInv'
<1> USE DEF SearchInv
<1>1. /\ busy' = busy \ {chat(u)} /\ counter' = counter /\ jobOf' = jobOf
      /\ u \in Jobs /\ u \in RunningJobs /\ at[u] # "queued"
  BY DEF JobEnds, Jobs, RunningJobs, Running
<1>2. active \in 1..Slots /\ active \in Nat /\ Slots \in Nat /\ active - 1 \in Nat
  <2>1. RunningJobs # {}
    BY <1>1
  <2>2. Cardinality(RunningJobs) # 0
    BY <2>1, FiniteJobs, FS_EmptySet
  <2> QED
    BY <2>2, FiniteJobs, BotAssumption DEF Counted
<1>3. Cardinality(RunningJobs \ {u}) = active - 1 /\ IsFiniteSet(RunningJobs \ {u})
  BY <1>1, <1>2, FiniteJobs, FS_RemoveElement DEF Counted
<1>4. \A v \in Update : chat(v)' = chat(v)
  BY DEF chat
<1>5. CASE queue = <<>>
  <2>1. Earlier(Slots - (active - 1), Len(queue)) = 0
    BY <1>2, <1>5 DEF Earlier
  <2>2. /\ active' = active - 1 /\ queue' = <<>>
        /\ at' = [v \in Update |-> IF v = u THEN next ELSE at[v]]
    BY <1>2, <1>5, <2>1 DEF JobEnds
  <2>3. /\ Jobs' = Jobs \ {u} /\ RunningJobs' = RunningJobs \ {u}
        /\ {v \in Update : at'[v] = "queued"} = {v \in Update : at[v] = "queued"}
    BY <1>1, <2>2 DEF Jobs, RunningJobs, Running
  <2>4. Placed'
    <3>1. next \in Places /\ at[u] # "sent" /\ at[u] # "done"
      BY DEF Places, Over, Running
    <3>2. at' \in [Update -> Places]
      BY <2>2, <3>1 DEF Placed
    <3>3. \A v \in Update : at'[v] = IF v = u THEN next ELSE at[v]
      BY <2>2
    <3> QED
      BY <3>1, <3>2, <3>3 DEF Placed, Later
  <2>5. Counted'
    BY <1>2, <1>3, <2>2, <2>3 DEF Counted
  <2>6. BusyChats'
    BY <1>1, <1>4, <2>3 DEF BusyChats, Jobs
  <2>7. QueueOrdered'
    BY <1>1, <1>5, <2>2, <2>3 DEF QueueOrdered
  <2> QED
    BY <2>2, <2>4, <2>5, <2>6, <2>7 DEF QueueOnFull
<1>6. CASE queue # <<>>
  <2> DEFINE q == queue[1]
  <2> DEFINE L == Len(queue)
  <2>1. active = Slots /\ L \in Nat /\ L >= 1 /\ 1 \in DOMAIN queue
    BY <1>6, QueueFacts DEF QueueOnFull, QueueOrdered
  <2>2. Earlier(Slots - (active - 1), L) = 1
    <3>1. Slots - (active - 1) = 1
      BY <1>2, <2>1
    <3>2. L \in Nat /\ L >= 1
      BY <2>1
    <3> HIDE DEF L
    <3>3. ~ (1 < L) => L = 1
      BY <3>2
    <3> QED
      BY <3>1, <3>3 DEF Earlier
  <2>3. {queue[i] : i \in 1..1} = {q}
    OBVIOUS
  <2>4. /\ active' = active /\ queue' = SubSeq(queue, 2, L)
        /\ at' = [v \in Update |-> IF v = u THEN next
                                   ELSE IF v = q THEN "notify" ELSE at[v]]
    BY <1>2, <2>1, <2>2, <2>3 DEF JobEnds
  <2>5. q \in Update /\ at[q] = "queued" /\ q # u
    BY <1>1, <2>1, QueueFacts
  <2>6. /\ Jobs' = Jobs \ {u} /\ RunningJobs' = (RunningJobs \ {u}) \cup {q}
        /\ {v \in Update : at'[v] = "queued"} = {v \in Update : at[v] = "queued"} \ {q}
    BY <1>1, <2>4, <2>5 DEF Jobs, RunningJobs, Running
  <2>7. Placed'
    <3>1. /\ at[u] # "sent" /\ at[u] # "done" /\ at[q] # "sent" /\ at[q] # "done"
          /\ next \in Places /\ "notify" \in Places
      BY <2>5 DEF Places, Over, Running
    <3>2. at' \in [Update -> Places]
      BY <2>4, <3>1 DEF Placed
    <3>3. \A v \in Update : at'[v] = IF v = u THEN next
                                     ELSE IF v = q THEN "notify" ELSE at[v]
      BY <2>4
    <3> HIDE DEF q
    <3> QED
      BY <2>5, <3>1, <3>2, <3>3 DEF Placed, Later
  <2>8. Counted'
    <3>1. q \notin RunningJobs
      BY <2>5 DEF RunningJobs, Running
    <3>2. Cardinality(RunningJobs') = active
      <4> DEFINE R == RunningJobs \ {u}
      <4>1. q \notin R /\ IsFiniteSet(R) /\ Cardinality(R) = active - 1
        BY <1>3, <3>1
      <4> HIDE DEF R
      <4>2. Cardinality(R \cup {q}) = (active - 1) + 1
        BY <4>1, FS_AddElement
      <4> QED
        BY <1>2, <2>6, <4>2 DEF R
    <3> QED
      BY <2>4, <3>2 DEF Counted
  <2>9. BusyChats'
    BY <1>1, <1>4, <2>6 DEF BusyChats, Jobs
  <2>10. /\ queue' \in Seq(Update) /\ Len(queue') = L - 1 /\ DOMAIN queue' = 1..(L - 1)
         /\ \A i \in 1..(L - 1) : queue'[i] = queue[i + 1] /\ i + 1 \in DOMAIN queue
    <3>1. queue \in Seq(Update)
      BY DEF QueueOrdered
    <3>2. queue' = Tail(queue)
      BY <2>1, <2>4, <3>1
    <3>3. queue' \in Seq(Update) /\ Len(queue') = L - 1
      BY <1>6, <2>1, <3>1, <3>2
    <3>4. \A i \in 1..(L - 1) : queue'[i] = queue[i + 1]
      BY <1>6, <2>1, <3>1, <3>2
    <3> QED
      BY <2>1, <3>3, <3>4, QueueFacts
  <2>11. {queue'[i] : i \in DOMAIN queue'} = {queue[i] : i \in DOMAIN queue} \ {q}
    <3>1. ASSUME NEW i \in DOMAIN queue'
          PROVE  queue'[i] \in {queue[j] : j \in DOMAIN queue} \ {q}
      BY <2>1, <2>10, QueueFacts
    <3>2. ASSUME NEW j \in DOMAIN queue, queue[j] # q
          PROVE  queue[j] \in {queue'[i] : i \in DOMAIN queue'}
      <4>1. j - 1 \in 1..(L - 1) /\ (j - 1) + 1 = j
        BY <2>1, <3>2, QueueFacts
      <4> QED
        BY <2>10, <4>1
    <3> QED
      BY <3>1, <3>2
  <2>12. QueueOrdered'
    <3>1. ASSUME NEW i \in DOMAIN queue', NEW j \in DOMAIN queue', i < j
          PROVE  jobOf[queue'[i]] < jobOf[queue'[j]]
      <4>1. i + 1 \in DOMAIN queue /\ j + 1 \in DOMAIN queue /\ i + 1 < j + 1
        BY <2>1, <2>10, <3>1
      <4> QED
        BY <2>10, <4>1 DEF QueueOrdered
    <3> QED
      BY <1>1, <2>6, <2>10, <2>11, <3>1 DEF QueueOrdered
  <2> QED
    BY <2>1, <2>4, <2>7, <2>8, <2>9, <2>12 DEF QueueOnFull
<1> QED
  BY <1>5, <1>6

LEMMA DispatchSearch ==
  ASSUME IInv, SearchInv, NEW u \in Update, Dispatch(u) PROVE SearchInv'
<1>1. at[u] = "got" /\ UNCHANGED <<updates, confirmed, lastOffset>>
  BY DEF Dispatch, Loop
<1>2. CASE EnqueueSearch(u)
  BY <1>1, <1>2, EnqueueSearchKeeps
<1>3. CASE ~ EnqueueSearch(u)
  <2>1. PICK p \in {"transcribe", "ack"} : at' = [at EXCEPT ![u] = p]
    BY <1>3 DEF Dispatch
  <2>2. UNCHANGED <<queueVars, waitMsg>>
    BY <1>3 DEF Dispatch
  <2>3. Quiet
    BY <1>1, <2>1, <2>2 DEF SearchInv, Placed, Quiet, Idle, Places, Running
  <2> QED
    BY <2>3, QuietKeeps
<1> QED
  BY <1>2, <1>3

LEMMA HandlerSearch ==
  ASSUME IInv, SearchInv, NEW u \in Update, Handler(u) PROVE SearchInv'
<1> USE DEF pollVars
<1>1. CASE \/ Transcribed(u) \/ AckConfirm(u) \/ ResolveVoiceConfirmQuery(u)
           \/ NotifyStart(u) \/ ResultsHang(u) \/ Reply(u)
  <2>1. UNCHANGED <<updates, confirmed, lastOffset, queueVars, waitMsg>>
    BY <1>1 DEF Transcribed, AckConfirm, ResolveVoiceConfirmQuery, NotifyStart,
                ResultsHang, Reply
  <2>2. PICK p : /\ at' = [at EXCEPT ![u] = p]
                 /\ \/ at[u] = "notify" /\ p = "search"
                    \/ at[u] = "results" /\ p = "stuck"
                    \/ /\ at[u] \in {"transcribe", "ack", "lock", "reply"}
                       /\ p \in {"done", "reply", "lock", "edit"}
    BY <1>1 DEF Transcribed, AckConfirm, ResolveVoiceConfirmQuery, NotifyStart,
                ResultsHang, Reply
  <2>3. Quiet
    <3>1. /\ p \in Places
          /\ \/ at[u] \in Running /\ p \in Running
             \/ at[u] \in Idle \ {"sent", "done"} /\ p \in Idle
      BY <2>2 DEF Idle, Places, Over, Running
    <3>2. at' \in [Update -> Places]
      BY <2>2, <3>1 DEF SearchInv, Placed
    <3>3. \A v \in Update : at'[v] = IF v = u THEN p ELSE at[v]
      BY <2>2 DEF SearchInv, Placed
    <3> QED
      BY <2>1, <3>1, <3>2, <3>3 DEF SearchInv, Placed, Quiet
  <2> QED
    BY <2>3, QuietKeeps
<1>2. CASE ConfirmedSearch(u)
  BY <1>2, EnqueueSearchKeeps DEF ConfirmedSearch
<1>3. CASE WaitShown(u) \/ WaitReturned(u)
  <2>1. UNCHANGED <<updates, confirmed, lastOffset, queueVars, at>>
    BY <1>3 DEF WaitShown, WaitReturned
  <2>2. waitMsg' \in [Update -> {"none", "sending", "shown", "known"}]
    BY <1>3 DEF WaitShown, WaitReturned, SearchInv, Placed
  <2>3. Quiet
    BY <2>1, <2>2 DEF Quiet, SearchInv, Placed
  <2> QED
    BY <2>3, QuietKeeps
<1>4. CASE CancelQueuedJob(u)
  BY <1>4, CancelKeeps
<1>5. CASE Searched(u) \/ ResultsSent(u)
  <2>1. at[u] \in {"search", "results"} /\ UNCHANGED <<updates, confirmed, lastOffset, waitMsg>>
    BY <1>5 DEF Searched, ResultsSent
  <2>2. CASE \E next \in {"done", "reply"} : JobEnds(u, next)
    BY <2>1, <2>2, JobEndsKeeps DEF Running
  <2>3. CASE at' = [at EXCEPT ![u] = "results"] /\ UNCHANGED queueVars
    <3>1. Quiet
      BY <2>1, <2>3 DEF SearchInv, Placed, Quiet, Places, Running
    <3> QED
      BY <3>1, QuietKeeps
  <2> QED
    BY <1>5, <2>2, <2>3 DEF Searched, Streamed, ResultsSent
<1> QED
  BY <1>1, <1>2, <1>3, <1>4, <1>5 DEF Handler

(* A crash forgets every search. *)
LEMMA CrashSearch == ASSUME IInv, SearchInv, Crash PROVE SearchInv'
<1>1. /\ at' = [u \in Update |-> IF at[u] \in {"sent", "done"} THEN at[u]
                                 ELSE IF u > confirmed THEN "sent" ELSE "lost"]
      /\ lastOffset' = 0 /\ confirmed' = confirmed /\ updates' = updates
      /\ counter' = 0 /\ jobOf' = [u \in Update |-> 0] /\ queue' = <<>>
      /\ active' = 0 /\ busy' = {} /\ waitMsg' = [u \in Update |-> "none"]
  BY DEF Crash
<1>2. Jobs' = {} /\ RunningJobs' = {} /\ {u \in Update : at[u] = "queued"}' = {}
  BY <1>1 DEF Jobs, RunningJobs, Running
<1>3. Placed'
  <2>1. PICK S : updates \in Seq(S)
    BY DEF IInv, Kept
  <2>2. Len(updates) \in Nat /\ confirmed \in Nat
    BY <2>1 DEF IInv, PollInv
  <2>3. Later(confirmed, 0) = confirmed
    BY <2>2 DEF Later
  <2>4. at' \in [Update -> Places]
    BY <1>1 DEF SearchInv, Placed, Places, Over
  <2>5. \A u \in Update : at'[u] # "sent" => u <= Len(updates)
    BY <1>1 DEF SearchInv, Placed
  <2>6. \A u \in Update : u > confirmed => at'[u] \in {"sent", "done"}
    BY <1>1
  <2> QED
    BY <1>1, <2>3, <2>4, <2>5, <2>6 DEF Placed
<1>4. Counted'
  BY <1>1, <1>2, FS_EmptySet, BotAssumption DEF Counted
<1>5. BusyChats'
  BY <1>1, <1>2 DEF BusyChats
<1>6. QueueOrdered'
  BY <1>1, <1>2 DEF QueueOrdered
<1> QED
  BY <1>1, <1>3, <1>4, <1>5, <1>6 DEF SearchInv, QueueOnFull

LEMMA SearchStep == IInv /\ SearchInv /\ [Next]_vars => SearchInv'
<1> SUFFICES ASSUME IInv, SearchInv, [Next]_vars PROVE SearchInv'
  OBVIOUS
<1>1. ASSUME NEW n \in 0..MaxUpdates, Poll(n) PROVE SearchInv'
  BY <1>1, PollSearch
<1>2. ASSUME NEW u \in Update, Dispatch(u) PROVE SearchInv'
  BY <1>2, DispatchSearch
<1>3. ASSUME NEW u \in Update, Handler(u) PROVE SearchInv'
  BY <1>3, HandlerSearch
<1>4. CASE Crash
  BY <1>4, CrashSearch
<1>5. ASSUME NEW m, Send(m) PROVE SearchInv'
  BY <1>5, SendSearch DEF IInv
<1>6. CASE \/ \E c \in Chat : PendingExpires(c)
           \/ Restart
           \/ UNCHANGED vars
  <2>1. Quiet
    <3>1. UNCHANGED <<updates, confirmed, lastOffset, queueVars, waitMsg, at>>
      BY <1>6 DEF PendingExpires, Restart, vars, pollVars
    <3> QED
      BY <3>1 DEF Quiet, SearchInv, Placed
  <2> QED
    BY <2>1, QuietKeeps
<1> QED
  BY <1>1, <1>2, <1>3, <1>4, <1>5, <1>6 DEF Next, Writes, Speaks, Confirms, Cancels

(* Slots and queue account for one another (_runQueuedJob,                 *)
(* _pumpSearchQueue, enqueueSearch, cancelQueuedJob): active counts the    *)
(* searches that run, a chat is busy while exactly one job of its own      *)
(* lives, jobs wait in their order and only while no slot is free.         *)
THEOREM QueueAccounts == Spec => []BotInv
<1>1. Spec => []IInv
  BY Start, Step, PTL DEF Spec
<1> QED
  BY <1>1, SearchStart, SearchStep, BotInvHolds, PTL DEF Spec
=============================================================================
