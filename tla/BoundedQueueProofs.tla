------------------------- MODULE BoundedQueueProofs -------------------------
(***************************************************************************)
(* Proofs about BoundedQueue for any capacity and any numbers of pushers   *)
(* and shifters.                                                           *)
(***************************************************************************)
EXTENDS BoundedQueue, SequenceTheorems, TLAPS

\* What the end of push() assigns: types, and the length of the buffer.
LEMMA AcceptType ==
  ASSUME TypeOK, ~Full, NEW p \in Pusher, Accept(p)
  PROVE  /\ pushed' \in [Pusher -> {"idle", "waiting", "ok", "threw"}]
         /\ accepted' \in Seq(Pusher) /\ delivered' \in Seq(Pusher)
         /\ shifted' \in [Shifter -> {"idle", "waiting", "done"}]
         /\ waitersShift' \in Seq(Shifter)
         /\ buf' \in Seq(Pusher)
         /\ Len(buf') = IF waitersShift = <<>> THEN Len(buf) + 1 ELSE Len(buf)
<1>0. /\ buf \in Seq(Pusher) /\ accepted \in Seq(Pusher) /\ delivered \in Seq(Pusher)
      /\ waitersShift \in Seq(Shifter)
      /\ pushed \in [Pusher -> {"idle", "waiting", "ok", "threw"}]
      /\ shifted \in [Shifter -> {"idle", "waiting", "done"}]
  BY DEF TypeOK
<1>1. accepted' \in Seq(Pusher)
  BY <1>0, AppendProperties DEF Accept
<1>2. pushed' \in [Pusher -> {"idle", "waiting", "ok", "threw"}]
  BY <1>0 DEF Accept
<1> DEFINE More == Append(buf, p)
<1>3. /\ More \in Seq(Pusher) /\ Len(More) = Len(buf) + 1 /\ More # <<>>
      /\ Len(buf) \in Nat
  <2>1. Append(buf, p) \in Seq(Pusher) /\ Len(Append(buf, p)) = Len(buf) + 1
    BY <1>0, AppendProperties
  <2>2. Append(buf, p) # <<>> /\ Len(buf) \in Nat
    BY <1>0, AppendProperties, LenProperties
  <2>3. QED
    BY <2>1, <2>2
<1> HIDE DEF More
<1>4. Head(More) \in Pusher /\ Tail(More) \in Seq(Pusher) /\ Len(Tail(More)) = Len(buf)
  BY <1>3, HeadTailProperties
<1>5. CASE waitersShift = <<>>
  <2>1. /\ buf' = More
        /\ waitersShift' = waitersShift /\ shifted' = shifted /\ delivered' = delivered
    BY <1>5 DEF More, Accept
  <2>2. QED
    BY <1>1, <1>0, <1>2, <1>3, <1>5, <2>1
<1>6. CASE waitersShift # <<>>
  <2>1. Head(waitersShift) \in Shifter /\ Tail(waitersShift) \in Seq(Shifter)
    BY <1>0, <1>6, HeadTailProperties
  <2>2. /\ buf' = Tail(More) /\ delivered' = Append(delivered, Head(More))
        /\ shifted' = [shifted EXCEPT ![Head(waitersShift)] = "idle"]
        /\ waitersShift' = Tail(waitersShift)
    BY <1>6 DEF More, Accept
  <2>3. delivered' \in Seq(Pusher)
    BY <1>0, <1>4, <2>2, AppendProperties
  <2>4. QED
    BY <1>0, <1>1, <1>2, <1>4, <1>6, <2>1, <2>2, <2>3
<1>7. QED
  BY <1>5, <1>6

\* The types, the capacity among them.
LEMMA TypeStep == TypeOK /\ [Next]_vars => TypeOK'
<1> SUFFICES ASSUME TypeOK, [Next]_vars PROVE TypeOK'
  OBVIOUS
<1>0. Len(buf) \in Nat /\ Cap \in Nat \ {0}
  BY QueueAssumption, LenProperties DEF TypeOK
<1>1. ASSUME NEW p \in Pusher, Push(p) PROVE TypeOK'
  <2>1. CASE Full
    <3>1. waitersPush' \in Seq(Pusher)
      <4>1. Append(waitersPush, p) \in Seq(Pusher)
        BY AppendProperties DEF TypeOK
      <4>2. QED
        BY <1>1, <2>1, <4>1 DEF Push
    <3>2. pushed' \in [Pusher -> {"idle", "waiting", "ok", "threw"}]
      BY <1>1, <2>1 DEF Push, TypeOK
    <3>3. /\ UNCHANGED <<buf, waitersShift, shifted, accepted, delivered, woken, closed>>
      BY <1>1, <2>1 DEF Push
    <3>4. QED
      BY <3>1, <3>2, <3>3 DEF TypeOK
  <2>2. CASE ~Full
    BY <1>0, <1>1, <2>2, AcceptType DEF Push, TypeOK, Full
  <2>3. QED
    BY <2>1, <2>2
<1>2. ASSUME NEW p \in Pusher, PushOnClosed(p) PROVE TypeOK'
  BY <1>2 DEF PushOnClosed, TypeOK
<1>3. CASE Resume
  <2>1. Head(woken) \in Pusher /\ woken' \in Seq(Pusher)
    BY <1>3, HeadTailProperties DEF Resume, TypeOK
  <2>2. CASE closed
    BY <1>3, <2>1, <2>2 DEF Resume, TypeOK
  <2>3. CASE ~closed /\ Full
    <3>1. waitersPush' \in Seq(Pusher)
      <4>1. Append(waitersPush, Head(woken)) \in Seq(Pusher)
        BY <2>1, AppendProperties DEF TypeOK
      <4>2. QED
        BY <1>3, <2>3, <4>1 DEF Resume
    <3>2. UNCHANGED <<buf, waitersShift, pushed, shifted, accepted, delivered, closed>>
      BY <1>3, <2>3 DEF Resume
    <3>3. QED
      BY <2>1, <3>1, <3>2 DEF TypeOK
  <2>4. CASE ~closed /\ ~Full
    BY <1>0, <1>3, <2>1, <2>4, AcceptType DEF Resume, TypeOK, Full
  <2>5. QED
    BY <2>2, <2>3, <2>4
<1>4. ASSUME NEW s \in Shifter, ShiftTakes(s) PROVE TypeOK'
  <2>1. /\ buf' \in Seq(Pusher) /\ Len(buf') = Len(buf) - 1
        /\ Head(buf) \in Pusher
    BY <1>4, HeadTailProperties DEF ShiftTakes, TypeOK
  <2>2. delivered' \in Seq(Pusher)
    BY <1>4, <2>1, AppendProperties DEF ShiftTakes, TypeOK
  <2>3. waitersPush' \in Seq(Pusher) /\ woken' \in Seq(Pusher)
    <3>1. CASE waitersPush = <<>>
      BY <1>4, <3>1 DEF ShiftTakes, WakeOne, TypeOK
    <3>2. CASE waitersPush # <<>>
      <4>1. Head(waitersPush) \in Pusher /\ Tail(waitersPush) \in Seq(Pusher)
        BY <3>2, HeadTailProperties DEF TypeOK
      <4>2. Append(woken, Head(waitersPush)) \in Seq(Pusher)
        BY <4>1, AppendProperties DEF TypeOK
      <4>3. QED
        BY <1>4, <3>2, <4>1, <4>2 DEF ShiftTakes, WakeOne
    <3>3. QED
      BY <3>1, <3>2
  <2>4. UNCHANGED <<waitersShift, closed, pushed, shifted, accepted>>
    BY <1>4 DEF ShiftTakes
  <2>5. QED
    BY <1>0, <2>1, <2>2, <2>3, <2>4 DEF TypeOK
<1>5. ASSUME NEW s \in Shifter, ShiftWaits(s) PROVE TypeOK'
  <2>1. waitersShift' \in Seq(Shifter)
    <3>1. Append(waitersShift, s) \in Seq(Shifter)
      BY AppendProperties DEF TypeOK
    <3>2. QED
      BY <1>5, <3>1 DEF ShiftWaits, TypeOK
  <2>2. QED
    BY <1>5, <2>1 DEF ShiftWaits, TypeOK
<1>6. CASE Close
  <2>1. woken' \in Seq(Pusher)
    BY <1>6, ConcatProperties DEF Close, TypeOK
  <2>2. QED
    BY <1>6, <2>1, EmptySeq DEF Close, TypeOK
<1>7. CASE UNCHANGED vars
  BY <1>7 DEF vars, TypeOK
<1>8. QED
  BY <1>1, <1>2, <1>3, <1>4, <1>5, <1>6, <1>7 DEF Next

\* The initial queue.
LEMMA InitType == Init => TypeOK
<1>1. <<>> \in Seq(Pusher) /\ <<>> \in Seq(Shifter) /\ Len(<<>>) = 0
  BY EmptySeq
<1>2. SUFFICES ASSUME Init PROVE TypeOK
  OBVIOUS
<1>3. buf \in Seq(Pusher) /\ Len(buf) <= Cap
  BY <1>1, <1>2, QueueAssumption DEF Init
<1>4. pushed \in [Pusher -> {"idle", "waiting", "ok", "threw"}]
  BY <1>2 DEF Init
<1>5. shifted \in [Shifter -> {"idle", "waiting", "done"}]
  BY <1>2 DEF Init
<1>6. /\ waitersPush \in Seq(Pusher) /\ woken \in Seq(Pusher)
      /\ waitersShift \in Seq(Shifter)
      /\ accepted \in Seq(Pusher) /\ delivered \in Seq(Pusher)
  BY <1>1, <1>2 DEF Init
<1>7. closed \in BOOLEAN
  BY <1>2 DEF Init
<1>8. QED
  BY <1>3, <1>4, <1>5, <1>6, <1>7 DEF TypeOK

\* The class keeps its capacity in every behaviour, also when calls come before
\* a woken pusher has resumed.
THEOREM Typing == Spec => []TypeOK
  BY InitType, TypeStep, PTL DEF Spec
-----------------------------------------------------------------------------
\* Moving the head of one sequence to the end of another keeps the whole.
LEMMA MoveHead ==
  ASSUME NEW S, NEW s \in Seq(S), NEW t \in Seq(S), t # <<>>
  PROVE  Append(s, Head(t)) \o Tail(t) = s \o t
<1>1. /\ Head(t) \in S /\ Tail(t) \in Seq(S) /\ <<Head(t)>> \in Seq(S)
      /\ t = <<Head(t)>> \o Tail(t)
  <2>1. Head(t) \in S /\ Tail(t) \in Seq(S) /\ Len(Tail(t)) = Len(t) - 1
        /\ \A i \in 1 .. Len(Tail(t)) : Tail(t)[i] = t[i+1]
    BY HeadTailProperties
  <2>2. <<Head(t)>> \in Seq(S) /\ Len(<<Head(t)>>) = 1 /\ <<Head(t)>>[1] = t[1]
    BY <2>1
  <2>3. t = <<Head(t)>> \o Tail(t)
    <3>1. Len(t) \in Nat /\ Len(t) > 0
      BY LenProperties, EmptySeq
    <3>2. <<Head(t)>> \o Tail(t) \in Seq(S) /\ Len(<<Head(t)>> \o Tail(t)) = Len(t)
      BY <2>1, <2>2, <3>1, ConcatProperties
    <3>3. \A i \in 1 .. Len(t) : (<<Head(t)>> \o Tail(t))[i] = t[i]
      BY <2>1, <2>2, <3>1, ConcatProperties
    <3>4. QED
      BY <3>2, <3>3, SeqEqual
  <2>4. QED
    BY <2>1, <2>2, <2>3
<1>2. Append(s, Head(t)) = s \o <<Head(t)>>
  BY <1>1, AppendIsConcat
<1>3. (s \o <<Head(t)>>) \o Tail(t) = s \o (<<Head(t)>> \o Tail(t))
  BY <1>1, ConcatAssociative
<1>4. QED
  BY <1>1, <1>2, <1>3

\* Appending to the second part is appending to the whole.
LEMMA AppendConcat ==
  ASSUME NEW S, NEW s \in Seq(S), NEW t \in Seq(S), NEW e \in S
  PROVE  s \o Append(t, e) = Append(s \o t, e)
<1>1. <<e>> \in Seq(S)
  OBVIOUS
<1>2. s \o t \in Seq(S)
  BY ConcatProperties
<1>3. Append(t, e) = t \o <<e>> /\ Append(s \o t, e) = (s \o t) \o <<e>>
  BY <1>2, AppendIsConcat
<1>4. QED
  BY <1>1, <1>3, ConcatAssociative

\* The end of push() keeps the order, hand-over or not.
LEMMA AcceptFifo ==
  ASSUME TypeOK, Fifo, NEW p \in Pusher, Accept(p)
  PROVE  Fifo'
<1>1. accepted' = Append(accepted, p)
  BY DEF Accept
<1>2. /\ delivered \in Seq(Pusher) /\ buf \in Seq(Pusher)
      /\ Append(buf, p) \in Seq(Pusher) /\ Append(buf, p) # <<>>
  <2>1. buf \in Seq(Pusher) /\ delivered \in Seq(Pusher)
    BY DEF TypeOK
  <2>2. QED
    BY <2>1, AppendProperties
<1>3. delivered \o Append(buf, p) = Append(accepted, p)
  BY <1>2, AppendConcat DEF Fifo
<1>4. Append(delivered, Head(Append(buf, p))) \o Tail(Append(buf, p))
        = delivered \o Append(buf, p)
  BY <1>2, MoveHead
<1>5. CASE waitersShift = <<>>
  BY <1>1, <1>3, <1>5 DEF Accept, Fifo
<1>6. CASE waitersShift # <<>>
  BY <1>1, <1>3, <1>4, <1>6 DEF Accept, Fifo
<1>7. QED
  BY <1>5, <1>6

\* No step reorders, loses or duplicates an item.
LEMMA FifoStep == TypeOK /\ Fifo /\ [Next]_vars => Fifo'
<1> SUFFICES ASSUME TypeOK, Fifo, [Next]_vars PROVE Fifo'
  OBVIOUS
<1>1. ASSUME NEW p \in Pusher, Push(p) PROVE Fifo'
  BY <1>1, AcceptFifo DEF Push, Fifo
<1>2. ASSUME NEW p \in Pusher, PushOnClosed(p) PROVE Fifo'
  BY <1>2 DEF PushOnClosed, Fifo
<1>3. CASE Resume
  <2>1. Head(woken) \in Pusher
    BY <1>3, HeadTailProperties DEF Resume, TypeOK
  <2>2. QED
    BY <1>3, <2>1, AcceptFifo DEF Resume, Fifo
<1>4. ASSUME NEW s \in Shifter, ShiftTakes(s) PROVE Fifo'
  <2>1. Append(delivered, Head(buf)) \o Tail(buf) = delivered \o buf
    BY <1>4, MoveHead DEF ShiftTakes, TypeOK
  <2>2. QED
    BY <1>4, <2>1 DEF ShiftTakes, Fifo
<1>5. ASSUME NEW s \in Shifter, ShiftWaits(s) PROVE Fifo'
  BY <1>5 DEF ShiftWaits, Fifo
<1>6. CASE Close
  BY <1>6 DEF Close, Fifo
<1>7. CASE UNCHANGED vars
  BY <1>7 DEF vars, Fifo
<1>8. QED
  BY <1>1, <1>2, <1>3, <1>4, <1>5, <1>6, <1>7 DEF Next

\* Items leave in the order in which push() took them, none twice, none lost.
THEOREM FifoOrder == Spec => []Fifo
<1>1. Init => Fifo
  <2>1. <<>> \in Seq(Pusher)
    BY EmptySeq
  <2>2. <<>> \o <<>> = <<>>
    BY <2>1, ConcatEmptySeq
  <2>3. QED
    BY <2>2 DEF Init, Fifo
<1>2. QED
  BY <1>1, Typing, FifoStep, PTL DEF Spec
-----------------------------------------------------------------------------
\* Wake-ups: while a pusher waits, items and pushers about to resume fill the
\* queue.
LEMMA QueueInvStep ==
  ASSUME SameTurn = FALSE
  PROVE  QueueInv /\ [Next]_vars => QueueInv'
<1> SUFFICES ASSUME QueueInv, [Next]_vars PROVE QueueInv'
  OBVIOUS
<1>0. /\ TypeOK /\ TypeOK' /\ Cap \in Nat \ {0}
      /\ Len(buf) \in Nat /\ Len(woken) \in Nat
      /\ (buf = <<>> <=> Len(buf) = 0) /\ (woken = <<>> <=> Len(woken) = 0)
  <2>1. TypeOK /\ TypeOK' /\ buf \in Seq(Pusher) /\ woken \in Seq(Pusher)
    BY TypeStep DEF QueueInv, TypeOK
  <2>2. QED
    BY <2>1, QueueAssumption, LenProperties, EmptySeq
<1>1. ASSUME NEW p \in Pusher, Push(p) PROVE QueueInv'
  <2>1. woken = <<>> /\ ~closed /\ UNCHANGED <<woken, closed>>
    BY <1>1 DEF Push, MayCall
  <2>2. CASE Full
    <3>1. Len(buf) = Cap /\ UNCHANGED <<buf, waitersShift>>
      BY <1>0, <1>1, <2>2 DEF Push, Full, TypeOK
    <3>2. QED
      BY <1>0, <2>1, <3>1 DEF QueueInv
  <2>3. CASE ~Full
    <3>1. Accept(p) /\ UNCHANGED waitersPush
      BY <1>1, <2>3 DEF Push
    <3>2. waitersPush = <<>>
      BY <1>0, <2>1, <2>3 DEF QueueInv, Full
    <3>3. CASE waitersShift = <<>>
      BY <1>0, <2>1, <3>1, <3>2, <3>3 DEF QueueInv, Accept
    <3>4. CASE waitersShift # <<>>
      <4>1. Len(buf') = 0
        BY <1>0, <2>3, <3>1, <3>4, AcceptType DEF QueueInv
      <4>2. buf' = <<>>
        BY <1>0, <4>1, EmptySeq DEF TypeOK
      <4>3. QED
        BY <1>0, <2>1, <3>1, <3>2, <4>2 DEF QueueInv
    <3>5. QED
      BY <3>3, <3>4
  <2>4. QED
    BY <2>2, <2>3
<1>2. ASSUME NEW p \in Pusher, PushOnClosed(p) PROVE QueueInv'
  BY <1>0, <1>2 DEF PushOnClosed, QueueInv
<1>3. CASE Resume
  <2>1. Head(woken) \in Pusher /\ Len(woken') = Len(woken) - 1 /\ closed' = closed
        /\ woken' \in Seq(Pusher)
    BY <1>3, HeadTailProperties DEF Resume, TypeOK, QueueInv
  <2>2. CASE closed
    <3>1. UNCHANGED <<buf, waitersPush, waitersShift>>
      BY <1>3, <2>2 DEF Resume
    <3>2. QED
      BY <1>0, <2>1, <2>2, <3>1 DEF QueueInv
  <2>3. CASE ~closed
    <3>1. ~Full /\ waitersShift = <<>> /\ Len(woken) = 1
      BY <1>0, <1>3, <2>3 DEF QueueInv, Full, Resume
    <3>2. Accept(Head(woken)) /\ waitersPush' = waitersPush
      BY <1>3, <2>3, <3>1 DEF Resume
    <3>3. Len(buf') = Len(buf) + 1 /\ waitersShift' = <<>>
      BY <1>0, <2>1, <3>1, <3>2, AcceptType DEF Accept
    <3>4. woken' = <<>> /\ Len(woken') = 0
      BY <2>1, <3>1, EmptySeq
    <3>5. QED
      BY <1>0, <2>1, <2>3, <3>1, <3>2, <3>3, <3>4 DEF QueueInv
  <2>4. QED
    BY <2>2, <2>3
<1>4. ASSUME NEW s \in Shifter, ShiftTakes(s) PROVE QueueInv'
  <2>1. /\ woken = <<>> /\ waitersShift = <<>> /\ Len(buf') = Len(buf) - 1
        /\ UNCHANGED <<waitersShift, closed>>
    BY <1>4, HeadTailProperties DEF ShiftTakes, MayCall, QueueInv, TypeOK
  <2>2. CASE waitersPush = <<>>
    BY <1>0, <1>4, <2>1, <2>2 DEF ShiftTakes, WakeOne, QueueInv
  <2>3. CASE waitersPush # <<>>
    <3>1. Head(waitersPush) \in Pusher
      BY <1>0, <2>3, HeadTailProperties DEF TypeOK
    <3>2. Len(woken') = 1
      BY <1>0, <1>4, <2>1, <2>3, <3>1, AppendProperties DEF ShiftTakes, WakeOne, TypeOK
    <3>3. QED
      BY <1>0, <2>1, <2>3, <3>2 DEF QueueInv
  <2>4. QED
    BY <2>2, <2>3
<1>5. ASSUME NEW s \in Shifter, ShiftWaits(s) PROVE QueueInv'
  BY <1>0, <1>5 DEF ShiftWaits, MayCall, QueueInv
<1>6. CASE Close
  BY <1>0, <1>6, EmptySeq DEF Close, QueueInv
<1>7. CASE UNCHANGED vars
  BY <1>0, <1>7 DEF vars, QueueInv
<1>8. QED
  BY <1>1, <1>2, <1>3, <1>4, <1>5, <1>6, <1>7 DEF Next

\* No lost wake-up: if calls come from callbacks of their own, nobody waits on a
\* queue that could serve him, for any capacity and any numbers of workers.
THEOREM NoWakeupLost == ASSUME SameTurn = FALSE PROVE Spec => []NoLostWakeup
<1>1. Init => QueueInv
  <2>1. Init => TypeOK
    BY InitType
  <2>2. QED
    BY <2>1 DEF Init, QueueInv
<1>2. QueueInv /\ [Next]_vars => QueueInv'
  BY QueueInvStep
<1>3. QueueInv => NoLostWakeup
  <2>1. ASSUME QueueInv, woken = <<>> PROVE Len(woken) = 0 /\ Len(buf) \in Nat
    BY <2>1, EmptySeq, LenProperties DEF QueueInv, TypeOK
  <2>2. QED
    BY <2>1 DEF QueueInv, NoLostWakeup
<1>4. QED
  BY <1>1, <1>2, <1>3, PTL DEF Spec
=============================================================================
