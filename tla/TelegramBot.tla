----------------------------- MODULE TelegramBot -----------------------------
(* The Telegram bot: updates from getUpdates to their answers, the search  *)
(* queue they go through, voice queries and their confirmation, and what a *)
(* crash does to all of it.                                                *)
(*                                                                         *)
(* An update is its number in the sequence Telegram keeps.  A handler runs *)
(* up to its first await when pollLoop calls it, so the updates of one     *)
(* answer are dispatched before any other callback runs.  A job of the     *)
(* search queue is the update it answers; its jobId is jobOf.              *)
EXTENDS Naturals, Sequences, FiniteSets, SequencesExt

CONSTANTS Chat,
          Speakers,     \* the chats that send voice messages
          Slots,        \* SEARCH_MAX_CONCURRENT
          MaxUpdates,   \* what the users send
          MaxFaults,    \* calls that fail
          MaxCrashes

ASSUME BotAssumption == /\ Speakers \subseteq Chat
                        /\ Slots \in Nat \ {0} /\ MaxUpdates \in Nat
                        /\ MaxFaults \in Nat /\ MaxCrashes \in Nat

VARIABLES updates, confirmed,  \* Telegram: all updates, the offset it was told
          lastOffset, at,      \* the last update dispatched, where each handler is
          taken,               \* how often an update was dispatched
          counter, jobOf, queue, active, busy,   \* the search queue
          waitMsg, buttons,    \* queueMsgId of a job, cancel buttons in the chats
          pending, prompts, lock,   \* voiceConfirm input, its buttons, its lock
          up, watched,         \* the bot, and the supervisor that restarts it
          crashes, faults

queueVars == <<counter, jobOf, queue, active, busy>>
voiceVars == <<pending, prompts, lock>>
pollVars == <<confirmed, lastOffset, taken>>
lifeVars == <<up, watched, crashes>>
vars == <<updates, pollVars, at, queueVars, waitMsg, buttons, voiceVars, lifeVars, faults>>

Update == 1..MaxUpdates
Kinds == {"query", "voice", "confirm", "cancel"}
Running == {"notify", "search", "results", "stuck"}
Over == {"done", "lost"}
Places == {"sent", "got", "ack", "transcribe", "lock", "edit", "queued", "reply"}
            \cup Running \cup Over

chat(u) == updates[u].chat
Later(m, n) == IF m > n THEN m ELSE n
Earlier(m, n) == IF m < n THEN m ELSE n

(* The updates pollLoop still has to dispatch in this turn. *)
Loop == {u \in Update : at[u] = "got"}

Fault == faults < MaxFaults /\ faults' = faults + 1
NoFault == UNCHANGED faults

Init ==
  /\ updates = <<>> /\ confirmed = 0 /\ lastOffset = 0
  /\ at = [u \in Update |-> "sent"] /\ taken = [u \in Update |-> 0]
  /\ counter = 0 /\ jobOf = [u \in Update |-> 0] /\ queue = <<>>
  /\ active = 0 /\ busy = {}
  /\ waitMsg = [u \in Update |-> "none"] /\ buttons = {}
  /\ pending = {} /\ prompts = {} /\ lock = [c \in Chat |-> <<>>]
  /\ up = TRUE /\ watched = TRUE /\ crashes = 0 /\ faults = 0

-----------------------------------------------------------------------------
(* Users: a query, a voice message, «Искать» under a recognised text, and  *)
(* «Отменить ожидание» under a wait message.                               *)
Send(u) ==
  /\ Len(updates) < MaxUpdates
  /\ updates' = Append(updates, u)
  /\ UNCHANGED <<pollVars, at, queueVars, waitMsg, buttons, voiceVars, lifeVars, faults>>

Writes(c) == Send([kind |-> "query", chat |-> c, job |-> 0])
Speaks(c) == c \in Speakers /\ Send([kind |-> "voice", chat |-> c, job |-> 0])
Confirms(c) == c \in prompts /\ Send([kind |-> "confirm", chat |-> c, job |-> 0])
Cancels(b) == b \in buttons /\ Send([kind |-> "cancel", chat |-> b.chat, job |-> b.job])

-----------------------------------------------------------------------------
\* A mistake: an offset is confirmed together with the answer that carries it.
PollConfirms(n) ==
  /\ up /\ Loop = {} /\ n > Later(confirmed, lastOffset) /\ n <= Len(updates)
  /\ confirmed' = n /\ lastOffset' = n
  /\ at' = [u \in Update |-> IF u > confirmed /\ u <= n THEN "got" ELSE at[u]]
  /\ UNCHANGED <<updates, taken, queueVars, waitMsg, buttons, voiceVars, lifeVars, faults>>

(* getUpdates(lastOffset) confirms what was dispatched and returns some of *)
(* what is not confirmed; with offset 0 it confirms nothing.               *)
Poll(n) ==
  /\ up /\ Loop = {}
  /\ LET from == Later(confirmed, lastOffset)
     IN  /\ n \in from..Len(updates)
         /\ n > from \/ from > confirmed
         /\ confirmed' = from
         /\ lastOffset' = n
         /\ at' = [u \in Update |-> IF u \in (from + 1)..n THEN "got" ELSE at[u]]
  /\ UNCHANGED <<updates, taken, queueVars, waitMsg, buttons, voiceVars, lifeVars, faults>>

(* pollLoop under getUpdates that succeed: all there is. *)
PollAll == Poll(Len(updates))

(* enqueueSearch: PER_CHAT_BUSY, a free slot, or the queue and a wait      *)
(* message nobody awaits.                                                  *)
EnqueueSearch(u) ==
  \/ /\ chat(u) \in busy
     /\ at' = [at EXCEPT ![u] = "reply"]
     /\ UNCHANGED <<queueVars, waitMsg>>
  \/ /\ chat(u) \notin busy
     /\ busy' = busy \cup {chat(u)}
     /\ counter' = counter + 1 /\ jobOf' = [jobOf EXCEPT ![u] = counter + 1]
     /\ \/ /\ active < Slots /\ active' = active + 1
           /\ at' = [at EXCEPT ![u] = "notify"]
           /\ waitMsg' = [waitMsg EXCEPT ![u] = "none"] /\ UNCHANGED queue
        \/ /\ active >= Slots /\ queue' = Append(queue, u)
           /\ at' = [at EXCEPT ![u] = "queued"]
           /\ waitMsg' = [waitMsg EXCEPT ![u] = "sending"] /\ UNCHANGED active

(* A text or a voice message ends the wait for a confirmation. *)
Forgotten(u) == pending \ {chat(u)}

(* handleMessage and handleCallback up to their first await. *)
Dispatch(u) ==
  /\ up /\ u \in Loop /\ \A v \in Loop : u <= v
  /\ taken' = [taken EXCEPT ![u] = @ + 1]
  /\ \/ /\ updates[u].kind = "query" /\ EnqueueSearch(u)
        /\ pending' = Forgotten(u)
     \/ /\ updates[u].kind = "voice" /\ at' = [at EXCEPT ![u] = "transcribe"]
        /\ pending' = Forgotten(u) /\ UNCHANGED <<queueVars, waitMsg>>
     \/ /\ updates[u].kind \in {"confirm", "cancel"}
        /\ at' = [at EXCEPT ![u] = "ack"]
        /\ UNCHANGED <<pending, queueVars, waitMsg>>
  /\ UNCHANGED <<updates, confirmed, lastOffset, buttons, prompts, lock, lifeVars, faults>>

-----------------------------------------------------------------------------
(* Voice: download, transcription, the prompt with its two buttons. *)
Transcribed(u) ==
  /\ at[u] = "transcribe"
  /\ \/ /\ NoFault /\ at' = [at EXCEPT ![u] = "done"]
        /\ pending' = pending \cup {chat(u)} /\ prompts' = prompts \cup {chat(u)}
     \/ /\ Fault /\ at' = [at EXCEPT ![u] = "reply"] /\ UNCHANGED <<pending, prompts>>
  /\ UNCHANGED <<updates, pollVars, queueVars, waitMsg, buttons, lock, lifeVars>>

(* getPendingInput forgets after PENDING_INPUT_TTL_MS. *)
PendingExpires(c) ==
  /\ c \in pending /\ pending' = pending \ {c}
  /\ UNCHANGED <<updates, pollVars, at, queueVars, waitMsg, buttons, prompts, lock,
                 lifeVars, faults>>

(* voice_confirm queues behind the chat's confirmations (the lock). *)
AckConfirm(u) ==
  /\ at[u] = "ack" /\ updates[u].kind = "confirm"
  /\ at' = [at EXCEPT ![u] = "lock"]
  /\ lock' = [lock EXCEPT ![chat(u)] = Append(@, u)]
  /\ UNCHANGED <<updates, pollVars, queueVars, waitMsg, buttons, pending, prompts,
                 lifeVars, faults>>

Holds(u) == lock[chat(u)] # <<>> /\ Head(lock[chat(u)]) = u

(* The query is the pending text or the text of the clicked message, which *)
(* Telegram may no longer show the bot (a fault).                          *)
ResolveVoiceConfirmQuery(u) ==
  /\ at[u] = "lock" /\ Holds(u)
  /\ \/ /\ NoFault /\ at' = [at EXCEPT ![u] = "edit"]
        /\ pending' = Forgotten(u) /\ prompts' = prompts \ {chat(u)}
     \/ /\ chat(u) \notin pending /\ Fault
        /\ at' = [at EXCEPT ![u] = "reply"] /\ UNCHANGED <<pending, prompts>>
  /\ UNCHANGED <<updates, pollVars, queueVars, waitMsg, buttons, lock, lifeVars>>

ConfirmedSearch(u) ==
  /\ at[u] = "edit" /\ EnqueueSearch(u)
  /\ UNCHANGED <<updates, pollVars, buttons, voiceVars, lifeVars, faults>>

\* A mistake: a confirmation that ends keeps the lock.
ReleasedNever(u) == lock

Released(u) == IF Holds(u) THEN [lock EXCEPT ![chat(u)] = Tail(@)] ELSE lock

-----------------------------------------------------------------------------
(* The wait message appears, and its message_id arrives or does not. *)
Button(u) == [chat |-> chat(u), job |-> jobOf[u]]

WaitShown(u) ==
  /\ waitMsg[u] = "sending"
  /\ \/ /\ NoFault /\ waitMsg' = [waitMsg EXCEPT ![u] = "shown"]
        /\ buttons' = buttons \cup {Button(u)}
     \/ /\ Fault /\ waitMsg' = [waitMsg EXCEPT ![u] = "none"] /\ UNCHANGED buttons
  /\ UNCHANGED <<updates, pollVars, at, queueVars, voiceVars, lifeVars>>

WaitReturned(u) ==
  /\ waitMsg[u] = "shown" /\ waitMsg' = [waitMsg EXCEPT ![u] = "known"]
  /\ UNCHANGED <<updates, pollVars, at, queueVars, buttons, voiceVars, lifeVars, faults>>

(* deleteMessage of the wait message, when its id is known by now. *)
Unshown(u) == IF waitMsg[u] = "known" THEN buttons \ {Button(u)} ELSE buttons

(* cancelQueuedJob: whichever job waits under the button's jobId; a job    *)
(* that has started goes on.                                               *)
Waiting(job) == {i \in DOMAIN queue : jobOf[queue[i]] = job}

CancelQueuedJob(u) ==
  /\ at[u] = "ack" /\ updates[u].kind = "cancel"
  /\ \/ /\ Waiting(updates[u].job) = {}
        /\ at' = [at EXCEPT ![u] = "done"] /\ UNCHANGED <<queue, busy, buttons>>
     \/ \E i \in Waiting(updates[u].job) :
          /\ queue' = RemoveAt(queue, i)
          /\ busy' = busy \ {chat(queue[i])} /\ buttons' = Unshown(queue[i])
          /\ at' = [at EXCEPT ![u] = "done", ![queue[i]] = "reply"]
  /\ UNCHANGED <<updates, pollVars, counter, jobOf, active, waitMsg, voiceVars,
                 lifeVars, faults>>

-----------------------------------------------------------------------------
(* _runQueuedJob: notify(start), the search and its progress, the results. *)
NotifyStart(u) ==
  /\ at[u] = "notify" /\ at' = [at EXCEPT ![u] = "search"] /\ buttons' = Unshown(u)
  /\ UNCHANGED <<updates, pollVars, queueVars, waitMsg, voiceVars, lifeVars, faults>>

\* A mistake: the end of a job does not pump the queue.
JobEndsNoPump(u, next) ==
  /\ active' = active - 1 /\ busy' = busy \ {chat(u)}
  /\ at' = [at EXCEPT ![u] = next] /\ UNCHANGED <<queue, counter, jobOf>>

(* The end of a job and _pumpSearchQueue. *)
JobEnds(u, next) ==
  LET free == Slots - (active - 1)
      n == Earlier(free, Len(queue))
      started == {queue[i] : i \in 1..n}
  IN  /\ active' = active - 1 + n
      /\ queue' = SubSeq(queue, n + 1, Len(queue))
      /\ busy' = busy \ {chat(u)}
      /\ at' = [v \in Update |-> IF v = u THEN next
                                 ELSE IF v \in started THEN "notify" ELSE at[v]]
      /\ UNCHANGED <<counter, jobOf>>

(* callSearchApiStream: a result, or an error, a lost stream, a timeout. *)
Streamed(u) ==
  \/ NoFault /\ at' = [at EXCEPT ![u] = "results"] /\ UNCHANGED queueVars
  \/ Fault /\ JobEnds(u, "reply")

(* runWithProgress around it; its messages are abstracted. *)
Searched(u) ==
  /\ at[u] = "search" /\ Streamed(u)
  /\ UNCHANGED <<updates, pollVars, waitMsg, buttons, voiceVars, lifeVars>>

(* sendSearchResults and finishProgress. *)
ResultsSent(u) ==
  /\ at[u] = "results"
  /\ \/ NoFault /\ JobEnds(u, "done") /\ lock' = Released(u)
     \/ Fault /\ JobEnds(u, "reply") /\ UNCHANGED lock
  /\ UNCHANGED <<updates, pollVars, waitMsg, buttons, pending, prompts, lifeVars>>

(* The PDF of the summary and its upload have no time limit that holds     *)
(* from start to end (page.pdf(), tgSendDocument): the slot, the chat and  *)
(* the lock of a confirmation stay with a job that never ends.             *)
ResultsHang(u) ==
  /\ at[u] = "results" /\ Fault /\ at' = [at EXCEPT ![u] = "stuck"]
  /\ UNCHANGED <<updates, pollVars, queueVars, waitMsg, buttons, voiceVars, lifeVars>>

(* notifyQueueError, or the message of an error; its own failure is        *)
(* swallowed.  A confirmation gives its lock back.                         *)
Reply(u) ==
  /\ at[u] = "reply" /\ at' = [at EXCEPT ![u] = "done"] /\ lock' = Released(u)
  /\ UNCHANGED <<updates, pollVars, queueVars, waitMsg, buttons, pending, prompts,
                 lifeVars, faults>>

-----------------------------------------------------------------------------
(* A kill, or pollLoop's own exit when Telegram is out of reach: memory is *)
(* gone, what Telegram shows and keeps is not.  The supervisor ends too    *)
(* when the bot was stopped by a signal (shutdown exits with 0) or has     *)
(* crashed too often.                                                      *)
Crash ==
  /\ up /\ crashes < MaxCrashes /\ crashes' = crashes + 1 /\ up' = FALSE
  /\ at' = [u \in Update |-> IF at[u] \in {"sent", "done"} THEN at[u]
                             ELSE IF u > confirmed THEN "sent" ELSE "lost"]
  /\ lastOffset' = 0
  /\ counter' = 0 /\ jobOf' = [u \in Update |-> 0] /\ queue' = <<>>
  /\ active' = 0 /\ busy' = {} /\ waitMsg' = [u \in Update |-> "none"]
  /\ pending' = {} /\ lock' = [c \in Chat |-> <<>>]
  /\ watched' = watched \/ watched' = FALSE
  /\ UNCHANGED <<updates, confirmed, taken, buttons, prompts, faults>>

(* By the supervisor, or by hand together with it. *)
Restart ==
  /\ ~up /\ up' = TRUE /\ watched' = TRUE
  /\ UNCHANGED <<updates, pollVars, at, queueVars, waitMsg, buttons, voiceVars,
                 crashes, faults>>

-----------------------------------------------------------------------------
Handler(u) ==
  \/ Transcribed(u) \/ AckConfirm(u) \/ ResolveVoiceConfirmQuery(u)
  \/ ConfirmedSearch(u) \/ WaitShown(u) \/ WaitReturned(u) \/ CancelQueuedJob(u)
  \/ NotifyStart(u) \/ Searched(u) \/ ResultsSent(u) \/ ResultsHang(u) \/ Reply(u)

Next ==
  \/ \E c \in Chat : Writes(c) \/ Speaks(c) \/ Confirms(c)
  \/ \E b \in buttons : Cancels(b)
  \/ \E n \in 0..MaxUpdates : Poll(n)
  \/ \E u \in Update : Dispatch(u) \/ (up /\ Loop = {} /\ Handler(u))
  \/ \E c \in Chat : PendingExpires(c)
  \/ Crash \/ Restart

Spec == Init /\ [][Next]_vars

(* The other calls end (FETCH_TIMEOUT_MS, SEARCH_TIMEOUT_MS), Telegram     *)
(* answers getUpdates now and then, and the supervisor restarts the bot as *)
(* long as it runs itself.                                                 *)
Fairness ==
  /\ WF_vars(PollAll) /\ WF_vars(watched /\ Restart)
  /\ \A u \in Update : WF_vars(Dispatch(u)) /\ WF_vars(Loop = {} /\ up /\ Handler(u))
FairSpec == Spec /\ Fairness

-----------------------------------------------------------------------------
(* Slots and the queue account for one another: active counts the jobs     *)
(* that run, a chat is busy while one job of its own lives, and none waits *)
(* while a slot is free; the queue is in the order of enqueueSearch.       *)
(* (_runQueuedJob, _pumpSearchQueue, cancelQueuedJob, enqueueSearch.)      *)
Jobs == {u \in Update : at[u] \in Running \cup {"queued"}}
RunningJobs == {u \in Update : at[u] \in Running}

BotInv ==
  /\ at \in [Update -> Places]
  /\ waitMsg \in [Update -> {"none", "sending", "shown", "known"}]
  /\ active = Cardinality(RunningJobs) /\ active <= Slots
  /\ busy = {chat(u) : u \in Jobs}
  /\ \A u, v \in Jobs : chat(u) = chat(v) => u = v
  /\ {queue[i] : i \in DOMAIN queue} = {u \in Update : at[u] = "queued"}
  /\ \A i, j \in DOMAIN queue : i < j => jobOf[queue[i]] < jobOf[queue[j]]
  /\ queue # <<>> => active = Slots

(* The offset the bot confirms never passes an update no process took up,  *)
(* and an update is taken up again only after a crash (pollLoop's          *)
(* lastOffset).                                                            *)
TakenUp ==
  /\ \A u \in 1..confirmed : taken[u] >= 1
  /\ \A u \in Update : taken[u] <= 1 + crashes

(* Why TakenUp holds: all the bot will confirm next is taken up or in its  *)
(* hands, and what is still to come was taken up once a crash at most.     *)
PollInv ==
  /\ at \in [Update -> Places] /\ taken \in [Update -> Nat] /\ crashes \in Nat
  /\ confirmed \in 0..Len(updates) /\ lastOffset \in 0..Len(updates)
  /\ Len(updates) <= MaxUpdates
  /\ \A u \in Loop : u <= lastOffset
  /\ \A u \in 1..confirmed : taken[u] >= 1
  /\ \A u \in 1..lastOffset : u \in Loop \/ taken[u] >= 1
  /\ \A u \in Update : taken[u] <= 1 + crashes
  /\ \A u \in Update :
       u > Later(confirmed, lastOffset) \/ u \in Loop => taken[u] <= crashes

(* What a stuck job keeps from being answered: itself, the jobs behind it  *)
(* when all slots are stuck, and the confirmations behind it in its chat.  *)
Blocked(u) ==
  \/ at[u] = "stuck"
  \/ at[u] = "queued" /\ Cardinality({v \in Update : at[v] = "stuck"}) = Slots
  \/ /\ at[u] = "lock"
     /\ \E v \in ToSet(lock[chat(u)]) : at[v] = "stuck"

(* Every update is answered unless the bot dies at it, it is stopped for   *)
(* good, or a job that hangs is in its way: no wake-up of the queue is     *)
(* lost, no lock stays held (_pumpSearchQueue, finally;                    *)
(* withVoiceConfirmLock, finally).                                         *)
UpdatesAnswered ==
  \A u \in Update :
    \/ <>[]~watched
    \/ <>[]Blocked(u)
    \/ (u <= Len(updates) ~> at[u] \in Over)

(* Every request to Telegram has a time limit, says the list of settings   *)
(* at the top of bot.js (TG_BOT_FETCH_TIMEOUT_MS): a search gives its slot *)
(* back as long as the bot runs.                                           *)
SlotsComeBack ==
  \A u \in Update : at[u] \in Running ~> at[u] \notin Running \/ ~up
=============================================================================
