---------------------------- MODULE SearchReports ----------------------------
(* The reports of the Doczilla facade: the rows of search_reports under    *)
(* createDocz, fillDocz and the recovery of a start.  The handlers that    *)
(* show a report (get only a completed one, getById whatever the row has,  *)
(* with its status) write nothing.                                         *)
(*                                                                         *)
(* A fill reads its report, marks it running with its answers, searches    *)
(* (runSearchPipeline; HyDE and the summary fall back, only the search     *)
(* itself fails), and marks it completed or failed.  Nothing stops two     *)
(* fills of one report, and the mark* statements look at nothing.  The     *)
(* process serves requests before the recovery of its start has run.  A    *)
(* statement whose connection is lost fails, executed or not.              *)
EXTENDS Naturals, FiniteSets

CONSTANTS Fill, Docz, NoDocz, Nobody,
          MaxFaults,          \* database calls that fail
          MaxRestarts

ASSUME ReportsAssumption == /\ Nobody \notin Fill /\ NoDocz \notin Docz
                            /\ MaxFaults \in Nat /\ MaxRestarts \in Nat

VARIABLES rep,       \* search_reports: status, whose answers, whose result, old
          pc, docOf, \* the fills and their reports
          told,      \* what the client of a fill was told
          stored,    \* the fills whose result was stored
          overlap,   \* reports two fills worked on at once since markRunning
          up, recovered, restarts, faults

vars == <<rep, pc, docOf, told, stored, overlap, up, recovered, restarts, faults>>

Marked == {"search", "complete", "fail"}
Live == Marked \cup {"read", "mark", "stored"}

(* A fill that has marked its report and has not finished. *)
Filling(f, d) == pc[f] \in Marked /\ docOf[f] = d

Fault == faults < MaxFaults /\ faults' = faults + 1
NoFault == UNCHANGED faults

Init ==
  /\ rep = [d \in Docz |-> [status |-> "absent", answers |-> Nobody,
                            result |-> Nobody, old |-> FALSE]]
  /\ pc = [f \in Fill |-> "new"] /\ docOf = [f \in Fill |-> NoDocz]
  /\ told = [f \in Fill |-> "none"]
  /\ stored = {} /\ overlap = {}
  /\ up = TRUE /\ recovered = FALSE /\ restarts = 0 /\ faults = 0

-----------------------------------------------------------------------------
CreateDocz(d) ==
  /\ up /\ rep[d].status = "absent"
  /\ rep' = [rep EXCEPT ![d].status = "created"]
  /\ UNCHANGED <<pc, docOf, told, stored, overlap, up, recovered, restarts, faults>>

Submit(f, d) ==
  /\ up /\ pc[f] = "new" /\ pc' = [pc EXCEPT ![f] = "read"]
  /\ docOf' = [docOf EXCEPT ![f] = d]
  /\ UNCHANGED <<rep, told, stored, overlap, up, recovered, restarts, faults>>

Answer(f, what) ==
  /\ pc' = [pc EXCEPT ![f] = "done"] /\ told' = [told EXCEPT ![f] = what]

(* getReport: 404 when there is none, 500 when the database fails. *)
GetReport(f) ==
  /\ pc[f] = "read"
  /\ \/ /\ rep[docOf[f]].status # "absent" /\ NoFault
        /\ pc' = [pc EXCEPT ![f] = "mark"] /\ UNCHANGED told
     \/ rep[docOf[f]].status = "absent" /\ NoFault /\ Answer(f, "missing")
     \/ Fault /\ Answer(f, "failed")
  /\ UNCHANGED <<rep, docOf, stored, overlap, up, recovered, restarts>>

\* A mistake: the row's updated_at is left as it was.
RunningNotTouched(row, f) == [row EXCEPT !.status = "running", !.answers = f]

\* A mistake: the answers of an earlier fill are kept.
RunningKeepsAnswers(row, f) ==
  [row EXCEPT !.status = "running", !.old = FALSE,
              !.answers = IF @ = Nobody THEN f ELSE @]

RunningRow(row, f) ==
  [row EXCEPT !.status = "running", !.answers = f, !.old = FALSE]

Takes(f) ==
  /\ rep' = [rep EXCEPT ![docOf[f]] = RunningRow(@, f)]
  /\ overlap' = IF \E g \in Fill \ {f} : Filling(g, docOf[f])
                  THEN overlap \cup {docOf[f]} ELSE overlap \ {docOf[f]}

(* When it fails the fill ends, and the row may be 'running' with its      *)
(* answers for ever, or under the fill of somebody else.                   *)
MarkRunning(f) ==
  /\ pc[f] = "mark"
  /\ \/ /\ NoFault /\ Takes(f)
        /\ pc' = [pc EXCEPT ![f] = "search"] /\ UNCHANGED told
     \/ /\ Fault /\ Answer(f, "failed")
        /\ Takes(f) \/ UNCHANGED <<rep, overlap>>
  /\ UNCHANGED <<docOf, stored, up, recovered, restarts>>

(* runSearchPipeline returns, or its search stage throws. *)
Searched(f) ==
  /\ pc[f] = "search"
  /\ \E next \in {"complete", "fail"} : pc' = [pc EXCEPT ![f] = next]
  /\ UNCHANGED <<rep, docOf, told, stored, overlap, up, recovered, restarts, faults>>

Store(f) ==
  /\ rep' = [rep EXCEPT ![docOf[f]].status = "completed",
                        ![docOf[f]].result = f, ![docOf[f]].old = FALSE]
  /\ stored' = stored \cup {f}

\* A mistake: the client is answered although the row was not stored.
StoreFailedGoesOn(f) == pc' = [pc EXCEPT ![f] = "stored"]

StoreFailed(f) == pc' = [pc EXCEPT ![f] = "fail"]

MarkCompleted(f) ==
  /\ pc[f] = "complete"
  /\ \/ NoFault /\ Store(f) /\ pc' = [pc EXCEPT ![f] = "stored"]
     \/ /\ Fault /\ StoreFailed(f)
        /\ Store(f) \/ UNCHANGED <<rep, stored>>
  /\ UNCHANGED <<docOf, told, overlap, up, recovered, restarts>>

Replies(f) ==
  /\ pc[f] = "stored" /\ Answer(f, "completed")
  /\ UNCHANGED <<rep, docOf, stored, overlap, up, recovered, restarts, faults>>

Fails(f) == rep' = [rep EXCEPT ![docOf[f]].status = "error", ![docOf[f]].old = FALSE]

(* A failing markError is logged; if it did nothing the row stays 'running'. *)
MarkError(f) ==
  /\ pc[f] = "fail" /\ Answer(f, "failed")
  /\ \/ NoFault /\ Fails(f)
     \/ Fault /\ (Fails(f) \/ UNCHANGED rep)
  /\ UNCHANGED <<docOf, stored, overlap, up, recovered, restarts>>

-----------------------------------------------------------------------------
(* An hour passes over a row 'running'.  A fill lasts less than that: its  *)
(* calls have time-outs of minutes.                                        *)
Ages(d) ==
  /\ rep[d].status = "running" /\ ~rep[d].old /\ \A f \in Fill : ~Filling(f, d)
  /\ rep' = [rep EXCEPT ![d].old = TRUE]
  /\ UNCHANGED <<pc, docOf, told, stored, overlap, up, recovered, restarts, faults>>

Crash ==
  /\ up /\ up' = FALSE /\ restarts < MaxRestarts /\ restarts' = restarts + 1
  /\ pc' = [f \in Fill |-> IF pc[f] \in Live THEN "dead" ELSE pc[f]]
  /\ UNCHANGED <<rep, docOf, told, stored, overlap, recovered, faults>>

(* server.listen, and only then the recovery. *)
Restart ==
  /\ ~up /\ up' = TRUE /\ recovered' = FALSE
  /\ UNCHANGED <<rep, pc, docOf, told, stored, overlap, restarts, faults>>

Recovered(row) ==
  IF row.status = "running" /\ row.old THEN [row EXCEPT !.status = "error", !.old = FALSE]
                                       ELSE row

Swept == rep' = [d \in Docz |-> Recovered(rep[d])]

RecoverStaleRunning ==
  /\ up /\ ~recovered /\ recovered' = TRUE
  /\ \/ NoFault /\ Swept
     \/ Fault /\ (Swept \/ UNCHANGED rep)
  /\ UNCHANGED <<pc, docOf, told, stored, overlap, up, restarts>>

-----------------------------------------------------------------------------
Handler(f) ==
  GetReport(f) \/ MarkRunning(f) \/ Searched(f) \/ MarkCompleted(f) \/ Replies(f)
  \/ MarkError(f)

Next ==
  \/ \E d \in Docz : CreateDocz(d) \/ Ages(d)
  \/ \E f \in Fill, d \in Docz : Submit(f, d)
  \/ \E f \in Fill : Handler(f)
  \/ Crash \/ Restart \/ RecoverStaleRunning

Spec == Init /\ [][Next]_vars

-----------------------------------------------------------------------------
Row == [status : {"absent", "created", "running", "completed", "error"},
        answers : Fill \cup {Nobody}, result : Fill \cup {Nobody}, old : BOOLEAN]

TypeOK ==
  /\ rep \in [Docz -> Row]
  /\ pc \in [Fill -> Live \cup {"new", "done", "dead"}]
  /\ docOf \in [Fill -> Docz \cup {NoDocz}]
  /\ told \in [Fill -> {"none", "completed", "failed", "missing"}]
  /\ stored \subseteq Fill /\ overlap \subseteq Docz
  /\ up \in BOOLEAN /\ recovered \in BOOLEAN
  /\ restarts \in 0..MaxRestarts /\ faults \in 0..MaxFaults

(* A report that says "completed" holds the result of the answers it       *)
(* stores, unless those were given while another fill was at work, by a    *)
(* fill that went on or by one whose markRunning came back with an error   *)
(* (then the last writer of each column counts: the statements look at     *)
(* nothing).                                                               *)
ResultFitsAnswers ==
  \A d \in Docz : rep[d].status = "completed" /\ d \notin overlap
                    => rep[d].answers = rep[d].result

(* The inductive invariant: what a fill at work may rely on. *)
AtWork == \A f \in Fill : pc[f] \in Live => up /\ docOf[f] \in Docz
RowOfFill == \A f \in Fill, d \in Docz :
               Filling(f, d) => ~rep[d].old
OverlapKnown == \A f, g \in Fill, d \in Docz :
                  Filling(f, d) /\ Filling(g, d) /\ f # g => d \in overlap
OwnAnswers == \A f \in Fill, d \in Docz :
                Filling(f, d) /\ d \notin overlap => rep[d].answers = f
StoredFirst == \A f \in Fill : pc[f] = "stored" \/ told[f] = "completed" => f \in stored

ReportsInv == /\ TypeOK /\ AtWork /\ RowOfFill /\ OverlapKnown /\ OwnAnswers /\ StoredFirst
              /\ ResultFitsAnswers

(* Handler step 5: no client is told "completed" before its result is      *)
(* stored, whatever call of the database failed on the way.                *)
CompletedIsStored == \A f \in Fill : told[f] = "completed" => f \in stored

(* The recovery of a start, which runs while requests are already served,  *)
(* never fails the report of a fill that is at work.                       *)
RecoverySparesTheLiving ==
  [][ recovered' /\ ~recovered
        => \A f \in Fill : docOf[f] \in Docz /\ Filling(f, docOf[f])
                              => rep'[docOf[f]] = rep[docOf[f]] ]_vars
=============================================================================
