---------------------------- MODULE ActIndexing ----------------------------
(***************************************************************************)
(* The embedding queue: rows of acts move from 'pending' to 'indexed'      *)
(* while points appear in Qdrant (backend/embed/worker.js, fullAct.js,     *)
(* chunk.js), the parser changes verdicts and cleans up behind them        *)
(* (backend/parser.js, backend/db/cleanupInvalidActs.js), and the PDF      *)
(* pipeline brings texts.                                                  *)
(*                                                                         *)
(* One embedding worker (it holds an advisory lock) and one parser.  The   *)
(* text of an act is the same whenever it is extracted, so the number of   *)
(* its tokens (kind) does not change; whether the row knows it does.  A    *)
(* border act has at most 8000 tokens, and more once /embed has put its    *)
(* prefix before them.  The three ranges of long acts are one.  Waiting    *)
(* for a full batch, for memory, for a health check or for searches is     *)
(* time spent idle; chunk indexing is switched on.  The row of an act      *)
(* whose extraction failed counts as one without text.  A batch of the     *)
(* clean-up holds all rows it can find.                                    *)
(***************************************************************************)
EXTENDS Integers, FiniteSets

CONSTANTS
  Act, Chunk,     \* acts, and the chunks of a long one
  NoAct,          \* no act is being cleaned up
  Full,           \* the point of a short act
  Kinds,          \* what the texts may be: each member says it of every act
  MaxFaults       \* failing calls and crashes per behaviour

ASSUME IndexAssumption ==
  /\ NoAct \notin Act
  /\ Full \notin Chunk
  /\ Kinds \subseteq [Act -> {"short", "border", "long", "over"}]
  /\ MaxFaults \in Nat

VARIABLES
  kind,                    \* the length of the text, however it is known
  keep,                    \* verdict_keep
  text, counted, long,     \* act_text, tokens_jina_v4 known, is_long_act (NULL: FALSE)
  status,                  \* vector_status; "stale" is 'error' by a verdict guard
  fetching,                \* the PDF pipeline has the act in hand
  points,                  \* Qdrant
  up, at,                  \* the worker runs; how far it is with an act
  parser,                  \* where the parser is
  todo, hard, clearing,    \* rows read by the clean-up, those 'indexed' or
                           \* 'error' among them, the row half done
  leaked, torn,            \* history: points left behind by a pending row,
                           \* points deleted without resetting an indexed row
  faults

row     == <<text, counted, long, status>>
worker  == <<up, at>>
cleanup == <<todo, hard, clearing>>
history == <<leaked, torn>>
vars    == <<kind, keep, row, fetching, points, worker, parser, cleanup, history, faults>>

Failed == {"error", "stale"}
Stage  == {"out",
           "pulled", "embedded", "checked", "stored",                  \* short
           "picked", "toclear", "toembed", "tocheck", "uploading"}     \* long

TypeOK ==
  /\ kind \in [Act -> {"short", "border", "long", "over"}]
  /\ keep \in [Act -> BOOLEAN] /\ fetching \in [Act -> BOOLEAN]
  /\ text \in [Act -> BOOLEAN] /\ counted \in [Act -> BOOLEAN] /\ long \in [Act -> BOOLEAN]
  /\ status \in [Act -> {"pending", "indexing", "indexed"} \cup Failed]
  /\ points \in [Act -> SUBSET ({Full} \cup Chunk)]
  /\ up \in BOOLEAN /\ at \in [Act -> Stage]
  /\ parser \in {"off", "select", "sweep", "idle"}
  /\ todo \in SUBSET Act /\ hard \in SUBSET todo /\ clearing \in Act \cup {NoAct}
  /\ leaked \in SUBSET Act /\ torn \in SUBSET Act
  /\ faults \in 0..MaxFaults

\* The route of a text whose tokens are counted.
ByCount(a) == kind[a] \in {"long", "over"}

\* Rows without text, and texts from before tokens_jina_v4 was counted on
\* extraction: routed by their length, the count added later or still missing.
Init ==
  /\ kind \in Kinds
  /\ keep \in [Act -> BOOLEAN]
  /\ text \in [Act -> BOOLEAN] /\ counted \in [Act -> BOOLEAN] /\ long \in [Act -> BOOLEAN]
  /\ \A a \in Act : /\ counted[a] => text[a]
                    /\ long[a] => text[a] /\ (counted[a] => ByCount(a))
  /\ status = [a \in Act |-> "pending"]
  /\ fetching = [a \in Act |-> FALSE]
  /\ points = [a \in Act |-> {}]
  /\ up = FALSE /\ at = [a \in Act |-> "out"]
  /\ parser = "off"
  /\ todo = {} /\ hard = {} /\ clearing = NoAct
  /\ leaked = {} /\ torn = {} /\ faults = 0
-----------------------------------------------------------------------------
(* Mistakes the properties must notice. *)

\* A clean-up that also takes the rows the worker has in hand.
SelectedWithIndexing ==
  {a \in Act : ~keep[a] /\ (text[a] \/ status[a] \in {"indexed"} \cup Failed)}

\* A clean-up that goes on when the points of an indexed row stay.
DeleteFailsSoftly(a) ==
  /\ parser = "sweep" /\ a \in todo /\ clearing = NoAct
  /\ faults < MaxFaults /\ faults' = faults + 1
  /\ todo' = todo \ {a} /\ hard' = hard \ {a} /\ clearing' = a
  /\ UNCHANGED <<kind, keep, row, fetching, points, worker, parser, history>>

\* A clean-up that takes it that pending rows have no points.
SelectedUnlessPending == {a \in Act : ~keep[a] /\ status[a] \in {"indexed"} \cup Failed}
-----------------------------------------------------------------------------
Fault == faults < MaxFaults /\ faults' = faults + 1
NoFault == UNCHANGED faults

V4(a) == CASE ~counted[a] -> "none"
           [] counted[a] /\ kind[a] = "border" -> "short"
           [] OTHER -> kind[a]
Idle  == up /\ \A a \in Act : at[a] = "out"

\* An act leaves the worker with status s, or, if that statement fails too (the
\* failure is caught), stays 'indexing' until the next start.
Leaves(a, s) ==
  /\ at' = [at EXCEPT ![a] = "out"]
  /\ status' = [status EXCEPT ![a] = s]

Dropped(S) == at' = [a \in Act |-> IF a \in S THEN "out" ELSE at[a]]
Dies == up' = FALSE /\ Dropped(Act)
-----------------------------------------------------------------------------
(* The PDF pipeline and the token counts, as far as they write the row. *)

\* The download queue: verdict_keep and no PDF yet.
Fetch(a) ==
  /\ keep[a] /\ ~text[a] /\ ~fetching[a]
  /\ fetching' = [fetching EXCEPT ![a] = TRUE]
  /\ UNCHANGED <<kind, keep, row, points, worker, parser, cleanup, history, faults>>

\* markTextExtracted does not look at the row it writes.  The count may have
\* failed, then the old one stays, or the length decides.  A second copy of the
\* act may be on its way.
TextArrives(a) ==
  /\ fetching[a]
  /\ fetching' \in {[fetching EXCEPT ![a] = more] : more \in BOOLEAN}
  /\ text' = [text EXCEPT ![a] = TRUE]
  /\ \/ /\ counted' = [counted EXCEPT ![a] = TRUE]
        /\ long' = [long EXCEPT ![a] = ByCount(a)]
     \/ /\ counted[a] /\ UNCHANGED counted
        /\ long' = [long EXCEPT ![a] = ByCount(a)]
     \/ /\ ~counted[a] /\ UNCHANGED counted
        /\ \E byLength \in BOOLEAN : long' = [long EXCEPT ![a] = byLength]
  /\ UNCHANGED <<kind, keep, status, points, worker, parser, cleanup, history, faults>>

\* No document, or no text in it.
FetchEnds(a) ==
  /\ fetching[a]
  /\ fetching' = [fetching EXCEPT ![a] = FALSE]
  /\ UNCHANGED <<kind, keep, row, points, worker, parser, cleanup, history, faults>>

\* backfill-token-count.mjs, run by hand.
Backfill(a) ==
  /\ text[a] /\ ~counted[a]
  /\ counted' = [counted EXCEPT ![a] = TRUE]
  /\ long' = [long EXCEPT ![a] = ByCount(a)]
  /\ UNCHANGED <<kind, keep, text, status, fetching, points, worker, parser, cleanup, history, faults>>
-----------------------------------------------------------------------------
(* The worker's process. *)

Recovered == [a \in Act |-> IF status[a] = "indexing" THEN "pending" ELSE status[a]]

\* The lock is free: what the last process left 'indexing' is pending again.
Start ==
  /\ ~up /\ up' = TRUE
  /\ status' = Recovered
  /\ UNCHANGED <<kind, keep, text, counted, long, fetching, points, at, parser, cleanup, history, faults>>

\* kill -9, or an exception outside the handlers: rows stay 'indexing'.
WorkerCrash ==
  /\ up /\ Fault /\ Dies
  /\ UNCHANGED <<kind, keep, row, fetching, points, parser, cleanup, history>>

\* The rows the statements of repairOnce look for, the two about missing counts
\* taken together.
Overshooting == {a \in Act : /\ status[a] = "pending" /\ ~long[a] /\ text[a] /\ keep[a]
                             /\ V4(a) \in {"long", "over"}}
Unroutable == {a \in Act : /\ status[a] = "pending" /\ keep[a]
                           /\ \/ V4(a) = "over"
                              \/ text[a] /\ ~counted[a]}

\* A failing statement is caught and the next ones still run.
Repair ==
  /\ Idle
  /\ \E S \in SUBSET Overshooting, T \in SUBSET Unroutable :
       /\ S \cup T # {}
       /\ long' = [a \in Act |-> long[a] \/ a \in S]
       /\ status' = [a \in Act |-> IF a \in T THEN "error" ELSE status[a]]
  /\ UNCHANGED <<kind, keep, text, counted, fetching, points, worker, parser, cleanup, history, faults>>
-----------------------------------------------------------------------------
(* Short acts: a batch is pulled, then embedded part by part; the acts of a *)
(* part are all checked before the first of them is uploaded.               *)

Queued(a) == status[a] = "pending" /\ text[a] /\ keep[a]

Pull ==
  /\ Idle
  /\ \E S \in SUBSET {a \in Act : Queued(a) /\ ~long[a] /\ V4(a) = "short"} :
       /\ S # {}
       /\ status' = [a \in Act |-> IF a \in S THEN "indexing" ELSE status[a]]
       /\ at' = [a \in Act |-> IF a \in S THEN "pulled" ELSE "out"]
  /\ UNCHANGED <<kind, keep, text, counted, long, fetching, points, up, parser, cleanup, history, faults>>

InPart(a) == at[a] \in {"embedded", "checked", "stored"}
Embed ==
  /\ \A a \in Act : ~InPart(a)
  /\ \E S \in SUBSET {a \in Act : at[a] = "pulled"} :
       /\ S # {}
       /\ \/ /\ NoFault /\ UNCHANGED status
             /\ at' = [a \in Act |-> IF a \in S THEN "embedded" ELSE at[a]]
          \/ /\ Fault /\ Dropped(S)
             /\ \E marked \in {S, {}} :
                  status' = [a \in Act |-> IF a \in marked THEN "error" ELSE status[a]]
  /\ UNCHANGED <<kind, keep, text, counted, long, fetching, points, up, parser, cleanup, history>>

\* /embed counts the prefix too.  _markPostRoutedLong leaves tokens_jina_v4.
PostRoute(a) ==
  /\ at[a] = "embedded" /\ kind[a] = "border"
  /\ Leaves(a, "pending") /\ long' = [long EXCEPT ![a] = TRUE]
  /\ UNCHANGED <<kind, keep, text, counted, fetching, points, up, parser, cleanup, history, faults>>

\* isActVerdictKeep after the embedding.
Abandoned(a) == ~keep[a]

Check(a) ==
  /\ at[a] = "embedded" /\ kind[a] # "border"
  /\ \/ /\ ~Abandoned(a) /\ NoFault
        /\ at' = [at EXCEPT ![a] = "checked"] /\ UNCHANGED status
     \/ /\ Abandoned(a)
        /\ \/ NoFault /\ Leaves(a, "stale")
           \/ Fault /\ Leaves(a, "indexing")
  /\ UNCHANGED <<kind, keep, text, counted, long, fetching, points, up, parser, cleanup, history>>

\* fetchActMeta, the verdict query or the reroute fails: the batch is given up.
Fatal ==
  /\ Fault
  /\ \/ \E a \in Act : at[a] = "embedded"
     \/ /\ \E a \in Act : at[a] = "pulled"
        /\ \A a \in Act : ~InPart(a)
  /\ Dropped(Act)
  /\ UNCHANGED <<kind, keep, row, fetching, points, up, parser, cleanup, history>>

Checked == \A a \in Act : at[a] # "embedded"

Store(a) ==
  /\ at[a] = "checked" /\ Checked
  /\ points' = [points EXCEPT ![a] = @ \cup {Full}]
  /\ at' = [at EXCEPT ![a] = "stored"]
  /\ UNCHANGED <<kind, keep, row, fetching, up, parser, cleanup, history, faults>>

\* markEmbedded, whatever the row says by now.
Visible(a) ==
  /\ at[a] = "stored"
  /\ Leaves(a, "indexed") /\ long' = [long EXCEPT ![a] = FALSE]
  /\ UNCHANGED <<kind, keep, text, counted, fetching, points, up, parser, cleanup, history, faults>>

\* The upload fails, with or without effect, or markEmbedded does.
StoreFails(a) ==
  /\ at[a] \in {"checked", "stored"} /\ Checked /\ Fault
  /\ \E p \in {points[a], points[a] \cup {Full}} : points' = [points EXCEPT ![a] = p]
  /\ \E s \in {"error", "indexing"} : Leaves(a, s)
  /\ UNCHANGED <<kind, keep, text, counted, long, fetching, up, parser, cleanup, history>>
-----------------------------------------------------------------------------
(* Long acts, one at a time: verdict, old points, embedding, verdict, chunks. *)

LongPick(a) ==
  /\ Idle /\ Queued(a) /\ long[a] /\ V4(a) = "long"
  /\ status' = [status EXCEPT ![a] = "indexing"]
  /\ at' = [at EXCEPT ![a] = "picked"]
  /\ UNCHANGED <<kind, keep, text, counted, long, fetching, points, up, parser, cleanup, history, faults>>

LongGuard(a, here, next) ==
  /\ at[a] = here
  /\ \/ /\ keep[a] /\ NoFault
        /\ at' = [at EXCEPT ![a] = next] /\ UNCHANGED status
     \/ /\ ~keep[a]
        /\ \/ NoFault /\ Leaves(a, "stale")
           \/ Fault /\ Leaves(a, "indexing")
  /\ UNCHANGED <<kind, keep, text, counted, long, fetching, points, up, parser, cleanup, history>>

LongCheck(a) == LongGuard(a, "picked", "toclear")
LateCheck(a) == LongGuard(a, "tocheck", "uploading")

\* The verdict query or fetchActMeta fails outside the handler of indexOne.
LongThrows(a) ==
  /\ at[a] = "picked" /\ Fault /\ Dies
  /\ UNCHANGED <<kind, keep, row, fetching, points, parser, cleanup, history>>

Clear(a) ==
  /\ at[a] = "toclear"
  /\ points' = [points EXCEPT ![a] = {}] /\ leaked' = leaked \ {a}
  /\ at' = [at EXCEPT ![a] = "toembed"]
  /\ UNCHANGED <<kind, keep, row, fetching, up, parser, cleanup, torn, faults>>

LateEmbed(a) ==
  /\ at[a] = "toembed"
  /\ at' = [at EXCEPT ![a] = "tocheck"]
  /\ UNCHANGED <<kind, keep, row, fetching, points, up, parser, cleanup, history, faults>>

Upload(a) ==
  /\ at[a] = "uploading"
  /\ \E c \in Chunk \ points[a] : points' = [points EXCEPT ![a] = @ \cup {c}]
  /\ UNCHANGED <<kind, keep, row, fetching, worker, parser, cleanup, history, faults>>

LongVisible(a) ==
  /\ at[a] = "uploading" /\ Chunk \subseteq points[a]
  /\ Leaves(a, "indexed") /\ long' = [long EXCEPT ![a] = TRUE]
  /\ UNCHANGED <<kind, keep, text, counted, fetching, points, up, parser, cleanup, history, faults>>

\* indexOne throws.  Out of memory or time: pending again, the second time an
\* error; otherwise an error.
LongFails(a) ==
  /\ at[a] \in {"toclear", "toembed", "tocheck", "uploading"} /\ Fault
  /\ \E s \in {"pending", "error", "indexing"} : Leaves(a, s)
  /\ \E p \in SUBSET Chunk :
       /\ \/ p = points[a]
          \/ at[a] = "toclear" /\ p = {}
          \/ at[a] = "uploading" /\ \E c \in Chunk : p = points[a] \cup {c}
       /\ points' = [points EXCEPT ![a] = p]
  /\ UNCHANGED <<kind, keep, text, counted, long, fetching, up, parser, cleanup, history>>
-----------------------------------------------------------------------------
(* The parser: every save writes verdicts and cleans up, every start does. *)

ParserStart ==
  /\ parser = "off" /\ parser' = "select"
  /\ UNCHANGED <<kind, keep, row, fetching, points, worker, cleanup, history, faults>>

\* New acts of a case change which of its acts are final.
Save ==
  /\ parser = "idle" /\ parser' = "select"
  /\ keep' \in [Act -> BOOLEAN]
  /\ UNCHANGED <<kind, row, fetching, points, worker, cleanup, history, faults>>

Selected ==
  {a \in Act : /\ ~keep[a] /\ status[a] # "indexing"
               /\ text[a] \/ status[a] \in {"indexed"} \cup Failed}

SelectInvalid ==
  /\ parser = "select" /\ parser' = "sweep"
  /\ todo' = Selected
  /\ hard' = {a \in Selected : status[a] \in {"indexed"} \cup Failed}
  /\ UNCHANGED <<kind, keep, row, fetching, points, worker, clearing, history, faults>>

\* The clean-up never makes a save fail.
SelectFails ==
  /\ parser = "select" /\ parser' = "idle" /\ Fault
  /\ UNCHANGED <<kind, keep, row, fetching, points, worker, cleanup, history>>

Delete(a) ==
  /\ parser = "sweep" /\ a \in todo /\ clearing = NoAct
  /\ points' = [points EXCEPT ![a] = {}] /\ leaked' = leaked \ {a}
  /\ todo' = todo \ {a} /\ hard' = hard \ {a} /\ clearing' = a
  /\ UNCHANGED <<kind, keep, row, fetching, worker, parser, torn, faults>>

\* The request fails, with or without effect (it may be aborted after Qdrant has
\* deleted).  The row of an indexed or failed act is left for the next clean-up;
\* that of a pending one is reset all the same.
DeleteFails(a) ==
  /\ parser = "sweep" /\ a \in todo /\ clearing = NoAct /\ Fault
  /\ todo' = todo \ {a} /\ hard' = hard \ {a}
  /\ clearing' = IF a \in hard THEN NoAct ELSE a
  /\ \/ /\ points' = [points EXCEPT ![a] = {}] /\ leaked' = leaked \ {a}
        /\ torn' = IF status[a] = "indexed" THEN torn \cup {a} ELSE torn
     \/ /\ UNCHANGED <<points, torn>>
        /\ leaked' = IF a \in hard \/ points[a] = {} THEN leaked ELSE leaked \cup {a}
  /\ UNCHANGED <<kind, keep, row, fetching, worker, parser>>

\* What the UPDATE writes; tokens_jina_v4 is not among its columns.
Cleared == [text |-> FALSE, long |-> FALSE, status |-> "pending"]

Reset ==
  /\ clearing # NoAct /\ clearing' = NoAct
  /\ text' = [text EXCEPT ![clearing] = Cleared.text]
  /\ long' = [long EXCEPT ![clearing] = Cleared.long]
  /\ status' = [status EXCEPT ![clearing] = Cleared.status]
  /\ torn' = torn \ {clearing}
  /\ UNCHANGED <<kind, keep, counted, fetching, points, worker, parser, todo, hard, leaked, faults>>

Torn == torn' = IF clearing # NoAct /\ status[clearing] = "indexed"
                THEN torn \cup {clearing} ELSE torn

ResetFails ==
  /\ clearing # NoAct /\ clearing' = NoAct /\ Fault /\ Torn
  /\ UNCHANGED <<kind, keep, row, fetching, points, worker, parser, todo, hard, leaked>>

SweepEnds ==
  /\ parser = "sweep" /\ todo = {} /\ clearing = NoAct
  /\ parser' = "idle"
  /\ UNCHANGED <<kind, keep, row, fetching, points, worker, cleanup, history, faults>>

ParserCrash ==
  /\ parser # "off" /\ parser' = "off" /\ Fault /\ Torn
  /\ todo' = {} /\ hard' = {} /\ clearing' = NoAct
  /\ UNCHANGED <<kind, keep, row, fetching, points, worker, leaked>>
-----------------------------------------------------------------------------
Pipeline(a) == Fetch(a) \/ TextArrives(a) \/ FetchEnds(a) \/ Backfill(a)

Short(a) == PostRoute(a) \/ Check(a) \/ Store(a) \/ Visible(a) \/ StoreFails(a)
Long(a)  == \/ LongCheck(a) \/ LongThrows(a) \/ Clear(a) \/ LateEmbed(a)
            \/ LateCheck(a) \/ Upload(a) \/ LongVisible(a) \/ LongFails(a)
Working  == Embed \/ Fatal \/ \E a \in Act : Short(a) \/ Long(a)
Sweeping == \/ ParserStart \/ SelectInvalid \/ SelectFails \/ Reset \/ ResetFails \/ SweepEnds
            \/ \E a \in Act : Delete(a) \/ DeleteFails(a)

Next ==
  \/ \E a \in Act : Pipeline(a)
  \/ Start \/ WorkerCrash \/ Repair \/ Pull \/ Working
  \/ \E a \in Act : LongPick(a)
  \/ Save \/ Sweeping \/ ParserCrash

Spec == Init /\ [][Next]_vars

\* The worker is kept running and never stops in the middle of an act; the
\* parser is run again and again (a start alone cleans up) and never stops in
\* the middle of a clean-up.  New acts are found again and again, so it saves.
FairSpec ==
  /\ Spec
  /\ WF_vars(Start) /\ WF_vars(Working) /\ WF_vars(Pull) /\ WF_vars(Repair)
  /\ WF_vars(\E a \in Act : LongPick(a))
  /\ WF_vars(Sweeping) /\ WF_vars(Save)
-----------------------------------------------------------------------------
Wanted(a) == IF long[a] THEN Chunk ELSE {Full}

Exact(a) ==
  status[a] = "indexed" => points[a] = Wanted(a) \/ a = clearing \/ a \in torn
\* A row that says 'indexed' has exactly the points a search needs: the one of
\* the whole act or all its chunks (markEmbedded follows the last upload and the
\* clean-up passes over rows being indexed), unless a clean-up is about to
\* reset the row, or was cut off before it did, or was told that the deletion
\* failed when the points were gone.
IndexedIsExact == \A a \in Act : Exact(a)

\* No point outlives what would lead a clean-up to it: the row keeps its text or
\* its status until the points are gone (the deletion comes first), unless the
\* deletion for a pending row failed and was ignored.
NoOrphans ==
  \A a \in Act : points[a] # {} => text[a] \/ status[a] # "pending" \/ a \in leaked

\* What the clean-up read is still so when it acts on it: nothing it holds is
\* taken by the worker, and rows it treats as pending are.
SnapshotHolds ==
  \A a \in Act : a \in todo \/ a = clearing =>
    /\ ~keep[a] /\ status[a] # "indexing"
    /\ a \in todo => (a \in hard <=> status[a] \in {"indexed"} \cup Failed)

\* What holds of an act at each stage of the worker, and of its row and points.
ShortStage == {"pulled", "embedded", "checked", "stored"}
LongStage  == {"picked", "toclear", "toembed", "tocheck", "uploading"}
StageFits(a) ==
  /\ at[a] # "out" => up /\ status[a] = "indexing"
  /\ at[a] \in ShortStage => kind[a] \in {"short", "border"}
  /\ at[a] \in {"checked", "stored"} => kind[a] = "short"
  /\ at[a] = "stored" => Full \in points[a]
  /\ at[a] \in LongStage => kind[a] = "long"
PointsOfKind(a) ==
  CASE kind[a] = "short" -> {Full} [] kind[a] = "long" -> Chunk [] OTHER -> {}
RowFits(a) ==
  /\ points[a] \subseteq PointsOfKind(a)
  /\ status[a] = "indexing" => text[a] /\ counted[a]
  /\ status[a] = "indexed" => /\ kind[a] \in {"short", "long"} /\ counted[a]
                              /\ long[a] <=> kind[a] = "long"
CleanupFits ==
  /\ todo # {} \/ clearing # NoAct => parser = "sweep"
  /\ clearing \notin todo
  /\ clearing # NoAct => points[clearing] = {} \/ clearing \in leaked

\* The inductive invariant.
IndexInv ==
  /\ TypeOK /\ IndexedIsExact /\ NoOrphans /\ SnapshotHolds
  /\ \A a \in Act : StageFits(a) /\ RowFits(a)
  /\ CleanupFits

\* A statement that should have closed the row failed: it waits for the next start.
Lost(a) == up /\ at[a] = "out" /\ status[a] = "indexing"

\* The points of an act that is no longer final disappear, whatever the worker
\* was doing with it: the clean-up after every save finds what an earlier one
\* had to leave alone.  Unless the act becomes final again, or its points
\* leaked, or the worker lost its row.
VerdictFollowed ==
  \A a \in Act : ~keep[a] ~> (keep[a] \/ points[a] = {} \/ a \in leaked \/ Lost(a))

\* Two promises the code does not keep (README, section 5).
\* An act that stays final and keeps its text does not wait for ever.
PendingIsServed ==
  \A a \in Act : <>[](keep[a] /\ text[a]) => []<>(status[a] # "pending")

\* An act that becomes final again for good is not left with the mark of the
\* verdict guard.
FlipBackIsServed ==
  \A a \in Act : <>[]keep[a] => []<>(status[a] # "stale")
=============================================================================
