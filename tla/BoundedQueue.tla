---------------------------- MODULE BoundedQueue ----------------------------
(***************************************************************************)
(* The class BoundedQueue of backend/pdf/pipeline.js between download      *)
(* workers (push) and extract workers (shift), at the granularity of       *)
(* JavaScript turns: a call runs to its first await; a pusher woken by     *)
(* shift() or close() resumes later, in a microtask.                       *)
(*                                                                         *)
(* Calls come from callbacks of I/O (a download, a statement, a process),  *)
(* and the microtask queue is emptied between two callbacks: with SameTurn *)
(* FALSE no call happens while a woken pusher has yet to resume.  SameTurn *)
(* TRUE drops that, to see what the class guarantees by itself.            *)
(* Each pusher pushes one item, named like the pusher.                     *)
(***************************************************************************)
EXTENDS Integers, Sequences

CONSTANTS Pusher, Shifter, Cap, SameTurn

ASSUME QueueAssumption == Cap \in Nat \ {0} /\ SameTurn \in BOOLEAN

VARIABLES
  buf,         \* _buf
  waitersPush, \* _waitersPush
  waitersShift,\* _waitersShift
  woken,       \* pushers whose promise is resolved and who have not resumed
  closed,      \* _closed
  pushed,      \* state of each push call
  shifted,     \* state of each shifter's current call
  accepted,    \* items in the order push() took them
  delivered    \* items in the order shift() returned them

vars == <<buf, waitersPush, waitersShift, woken, closed, pushed, shifted, accepted, delivered>>

TypeOK ==
  /\ buf \in Seq(Pusher) /\ Len(buf) <= Cap
  /\ waitersPush \in Seq(Pusher) /\ woken \in Seq(Pusher)
  /\ waitersShift \in Seq(Shifter)
  /\ closed \in BOOLEAN
  /\ pushed \in [Pusher -> {"idle", "waiting", "ok", "threw"}]
  /\ shifted \in [Shifter -> {"idle", "waiting", "done"}]
  /\ accepted \in Seq(Pusher) /\ delivered \in Seq(Pusher)

Init ==
  /\ buf = <<>> /\ waitersPush = <<>> /\ waitersShift = <<>> /\ woken = <<>>
  /\ closed = FALSE
  /\ pushed = [p \in Pusher |-> "idle"]
  /\ shifted = [s \in Shifter |-> "idle"]
  /\ accepted = <<>> /\ delivered = <<>>
-----------------------------------------------------------------------------
MayCall == SameTurn \/ woken = <<>>

\* The end of push(): append, then hand the oldest item to a waiting shift().
Accept(p) ==
  /\ pushed' = [pushed EXCEPT ![p] = "ok"]
  /\ accepted' = Append(accepted, p)
  /\ IF waitersShift = <<>>
       THEN /\ buf' = Append(buf, p)
            /\ UNCHANGED <<waitersShift, shifted, delivered>>
       ELSE /\ buf' = Tail(Append(buf, p))
            /\ delivered' = Append(delivered, Head(Append(buf, p)))
            /\ shifted' = [shifted EXCEPT ![Head(waitersShift)] = "idle"]
            /\ waitersShift' = Tail(waitersShift)

\* Mistakes the properties must notice: a shift() and a close() that wake nobody,
\* the newest item taken first.
WakeNone == UNCHANGED <<waitersPush, woken>>
CloseWithoutWaking ==
  /\ (SameTurn \/ woken = <<>>) /\ ~closed
  /\ closed' = TRUE
  /\ shifted' = [s \in Shifter |->
       IF \E i \in 1..Len(waitersShift) : waitersShift[i] = s THEN "done" ELSE shifted[s]]
  /\ waitersShift' = <<>>
  /\ UNCHANGED <<buf, waitersPush, woken, pushed, accepted, delivered>>
ShiftTakesNewest(s) ==
  /\ (SameTurn \/ woken = <<>>) /\ shifted[s] = "idle" /\ buf # <<>>
  /\ buf' = SubSeq(buf, 1, Len(buf) - 1)
  /\ delivered' = Append(delivered, buf[Len(buf)])
  /\ IF waitersPush = <<>>
       THEN UNCHANGED <<waitersPush, woken>>
       ELSE /\ waitersPush' = Tail(waitersPush)
            /\ woken' = Append(woken, Head(waitersPush))
  /\ UNCHANGED <<waitersShift, closed, pushed, shifted, accepted>>

\* The condition of the while in push().
Full == Len(buf) >= Cap

Push(p) ==
  /\ MayCall /\ pushed[p] = "idle" /\ ~closed
  /\ IF Full
       THEN /\ waitersPush' = Append(waitersPush, p)
            /\ pushed' = [pushed EXCEPT ![p] = "waiting"]
            /\ UNCHANGED <<buf, waitersShift, shifted, accepted, delivered>>
       ELSE Accept(p) /\ UNCHANGED waitersPush
  /\ UNCHANGED <<woken, closed>>

PushOnClosed(p) ==
  /\ MayCall /\ pushed[p] = "idle" /\ closed
  /\ pushed' = [pushed EXCEPT ![p] = "threw"]
  /\ UNCHANGED <<buf, waitersPush, waitersShift, woken, closed, shifted, accepted, delivered>>

\* A woken pusher resumes: throw on a closed queue, else test the while again.
Resume ==
  /\ woken # <<>>
  /\ woken' = Tail(woken)
  /\ IF closed
       THEN /\ pushed' = [pushed EXCEPT ![Head(woken)] = "threw"]
            /\ UNCHANGED <<buf, waitersPush, waitersShift, shifted, accepted, delivered>>
       ELSE IF Full
       THEN /\ waitersPush' = Append(waitersPush, Head(woken))
            /\ UNCHANGED <<buf, waitersShift, pushed, shifted, accepted, delivered>>
       ELSE Accept(Head(woken)) /\ UNCHANGED waitersPush
  /\ UNCHANGED closed

\* Wake the pusher that waits longest.
WakeOne ==
  IF waitersPush = <<>>
    THEN UNCHANGED <<waitersPush, woken>>
    ELSE /\ waitersPush' = Tail(waitersPush)
         /\ woken' = Append(woken, Head(waitersPush))

ShiftTakes(s) ==
  /\ MayCall /\ shifted[s] = "idle" /\ buf # <<>>
  /\ buf' = Tail(buf)
  /\ delivered' = Append(delivered, Head(buf))
  /\ WakeOne
  /\ UNCHANGED <<waitersShift, closed, pushed, shifted, accepted>>

ShiftWaits(s) ==
  /\ MayCall /\ shifted[s] = "idle" /\ buf = <<>>
  /\ IF closed
       THEN shifted' = [shifted EXCEPT ![s] = "done"] /\ UNCHANGED waitersShift
       ELSE /\ shifted' = [shifted EXCEPT ![s] = "waiting"]
            /\ waitersShift' = Append(waitersShift, s)
  /\ UNCHANGED <<buf, waitersPush, woken, closed, pushed, accepted, delivered>>

Waiting(seq) == {seq[i] : i \in 1..Len(seq)}

Close ==
  /\ MayCall /\ ~closed
  /\ closed' = TRUE
  /\ woken' = woken \o waitersPush /\ waitersPush' = <<>>
  /\ shifted' = [s \in Shifter |-> IF s \in Waiting(waitersShift) THEN "done" ELSE shifted[s]]
  /\ waitersShift' = <<>>
  /\ UNCHANGED <<buf, pushed, accepted, delivered>>

Next ==
  \/ \E p \in Pusher : Push(p) \/ PushOnClosed(p)
  \/ Resume
  \/ \E s \in Shifter : ShiftTakes(s) \/ ShiftWaits(s)
  \/ Close

Spec == Init /\ [][Next]_vars

\* Microtasks run, and extract workers come back for the next item.
Fairness ==
  /\ WF_vars(Resume)
  /\ \A s \in Shifter : WF_vars(ShiftTakes(s) \/ ShiftWaits(s))

FairSpec == Spec /\ Fairness
-----------------------------------------------------------------------------
(* Properties. *)

\* Items come out in the order they were taken in, none lost or duplicated, also
\* through the hand-over to a waiting shift() and after close().
Fifo == accepted = delivered \o buf

\* No wake-up is lost: when no microtask is left, a push() waits only on a full
\* queue and a shift() only on an empty one, and nobody waits on a closed one.
NoLostWakeup ==
  woken = <<>> =>
    /\ waitersPush # <<>> => ~closed /\ Len(buf) = Cap
    /\ waitersShift # <<>> => ~closed /\ buf = <<>>

\* A waiting push() ends: accepted, or thrown out by close().
PushEnds == \A p \in Pusher : pushed[p] = "waiting" ~> pushed[p] \in {"ok", "threw"}

\* The strengthening of NoLostWakeup: while a pusher waits, items and pushers
\* about to resume fill the queue.
QueueInv ==
  /\ TypeOK
  /\ closed => waitersPush = <<>>
  /\ waitersShift # <<>> => ~closed /\ buf = <<>>
  /\ ~closed /\ woken # <<>> => Len(woken) = 1 /\ Len(buf) < Cap /\ waitersShift = <<>>
  /\ waitersPush # <<>> => Len(buf) + Len(woken) = Cap
=============================================================================
