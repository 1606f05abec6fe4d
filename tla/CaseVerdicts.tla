---------------------------- MODULE CaseVerdicts ----------------------------
(***************************************************************************)
(* Which act of a case is its final one: the verdict resolver of           *)
(* backend/parser.js and the rows it leaves in the acts table.  The        *)
(* parser collects acts page by page into a Map that one process keeps,    *)
(* newest day first; before every save it decides the verdicts of the      *)
(* whole Map again and writes the acts whose verdict changed.  A restart   *)
(* forgets the Map and keeps the table.                                    *)
(*                                                                         *)
(* One case is modelled, since cases do not touch each other.  What the    *)
(* court did (verdict.action) is reduced to the classes the resolver tells *)
(* apart: "grant" stands for GRANT, DENY, CANCEL_NEW and MODIFY, "remand"  *)
(* for every action that resolves nothing, "simplified" for an umbrella    *)
(* act without an outcome.  The text of the note is left out: a changed    *)
(* note only writes the same verdict again.                                *)
(***************************************************************************)
EXTENDS Naturals, FiniteSets, Sequences, SequencesExt

CONSTANTS
  Act,
  None,         \* no act, no row
  Kind,         \* [level, class] an act can have; level 0: none known
  MaxDate,
  MaxRestarts   \* bound: restarts of the parser in a behaviour

Class == {"grant", "bankruptcy", "uphold", "restore", "remand",
          "procedural", "unknown", "simplified"}

ASSUME KindAssumption ==
  /\ Kind \subseteq [level : 0 .. 3, class : Class]
  /\ None \notin Act \cup BOOLEAN
  /\ MaxDate \in Nat \ {0} /\ MaxRestarts \in Nat

VARIABLES
  info,     \* what ras says of an act, the same at every reading
  links,    \* decisionLinks: the acts of this process, as inserted
  keep,     \* verdict.keep of the acts in links
  pending,  \* _pendingPgKeys
  db,       \* verdict_keep of each row of the table, None without a row
  restarts

verdictVars == <<info, links, keep, pending, db, restarts>>

Collected == ToSet(links)
Kept      == {a \in Act : db[a] = TRUE}

VerdictTypeOK ==
  /\ info \in [Act -> [kind : Kind, date : 1 .. MaxDate]]
  /\ links \in Seq(Act) /\ IsInjective(links)
  /\ keep \in [Act -> BOOLEAN]
  /\ pending \subseteq Collected
  /\ db \in [Act -> BOOLEAN \cup {None}]
  /\ restarts \in 0 .. MaxRestarts
  \* what is collected and not pending has a row
  /\ \A a \in Collected \ pending : db[a] # None

Level(a) == info[a].kind.level
Court(a) == info[a].kind.class

Decides == {"grant", "bankruptcy"}

\* The verdict of an act by itself, before its case is looked at.
_classifyAct(a) == Court(a) \in Decides \cup {"simplified"}

Substantive == Decides \cup {"uphold", "restore"}

Bucket(a) == IF Court(a) \in Substantive THEN 3
             ELSE IF Court(a) = "remand" THEN 2
             ELSE IF Court(a) = "procedural" THEN 1 ELSE 0

\* A mistake: the later act wins whatever it decides.
BetterByDate(a, b) == \/ Bucket(a) > Bucket(b)
                      \/ info[a].date > info[b].date

Better(a, b) == \/ Bucket(a) > Bucket(b)
                \/ Bucket(a) = Bucket(b) /\ info[a].date > info[b].date

\* The main act of a level, as the loop over the acts finds it.
_pickMainActOfLevel(s, level) ==
  LET Beats(a, best) == Level(a) = level /\ (best = None \/ Better(a, best))
      main[n \in 0 .. Len(s)] ==
        IF n = 0 THEN None
        ELSE IF Beats(s[n], main[n - 1]) THEN s[n] ELSE main[n - 1]
  IN  main[Len(s)]

Is(a, classes) == a # None /\ Court(a) \in classes

OnlyFirst(m1) == IF Is(m1, Decides \cup {"simplified"}) THEN m1 ELSE None

Appeal(m1, m2) == CASE Is(m2, {"uphold", "restore"}) -> m1
                    [] Is(m2, Decides) -> m2
                    [] OTHER -> OnlyFirst(m1)

\* The act that ends the case, from the main acts of its three levels.
_resolveCaseFinal(m1, m2, m3) ==
  CASE \E m \in {m1, m2, m3} : Is(m, {"remand"}) -> None
    [] Is(m3, {"restore"}) -> m1
    [] Is(m3, {"uphold"})  -> IF Is(m2, {"grant"}) THEN m2 ELSE m1
    [] Is(m3, Decides)     -> m3
    [] OTHER -> Appeal(m1, m2)

Final(s) == _resolveCaseFinal(_pickMainActOfLevel(s, 1),
                              _pickMainActOfLevel(s, 2),
                              _pickMainActOfLevel(s, 3))

VerdictInit ==
  /\ info \in [Act -> [kind : Kind, date : 1 .. MaxDate]]
  /\ links = << >> /\ pending = {} /\ restarts = 0
  /\ keep = [a \in Act |-> FALSE]
  /\ db = [a \in Act |-> None]

\* An act of the page that is not in the Map yet.
_collectDecisionLinks(a) ==
  /\ a \notin Collected
  /\ links' = Append(links, a)
  /\ keep' = [keep EXCEPT ![a] = _classifyAct(a)]
  /\ pending' = pending \cup {a}
  /\ UNCHANGED <<info, db, restarts>>

Resolved(s) == [a \in Act |-> a \in Collected /\ a = Final(s)]

\* A mistake: only acts collected since the last save are written.
ChangedForgotten == {}

Changed == {a \in Collected : keep[a] # Resolved(links)[a]}

\* A mistake: the table keeps a verdict it has.
UpsertedOnce == [a \in Act |-> IF a \in pending \cup Changed /\ db[a] # TRUE
                               THEN Resolved(links)[a] ELSE db[a]]

\* What the upsert writes: the pending acts, with their resolved verdicts.
Upserted == [a \in Act |-> IF a \in pending \cup Changed
                           THEN Resolved(links)[a] ELSE db[a]]

_saveDecisionLinks ==
  /\ keep' = Resolved(links)
  /\ db' = Upserted
  /\ pending' = {}
  /\ UNCHANGED <<info, links, restarts>>

\* _loadExistingDecisionLinks reads nothing back.
Restarted == /\ restarts < MaxRestarts
             /\ restarts' = restarts + 1
             /\ links' = << >> /\ pending' = {}
             /\ keep' = [a \in Act |-> FALSE]
             /\ UNCHANGED info

\* The process ends between saves, or in one: an upsert that fails ends the
\* process too, and may have been committed.
UpsertFails == Restarted /\ pending # {} /\ db' = Upserted
MapLost     == Restarted /\ UNCHANGED db

VerdictNext ==
  \/ \E a \in Act : _collectDecisionLinks(a)
  \/ _saveDecisionLinks \/ UpsertFails \/ MapLost

VerdictSpec == VerdictInit /\ [][VerdictNext]_verdictVars

-----------------------------------------------------------------------------
\* After a save the table says of every act of the Map what the resolver says
\* of the whole Map: a verdict decided earlier, when the acts of the higher
\* courts or the older ones were not known yet, does not stay behind.
SavedIsResolved ==
  pending = {} => \A a \in Collected : db[a] = (a = Final(links))

\* A run of the parser adds at most one final act to a case: with the Map lost
\* at a restart, a case can have as many as there were runs, and no more.
KeptPerRun == Cardinality(Kept) =< restarts + 1

\* Why: the acts of the Map that are saved have one final act among them, and
\* every other one is the leftover of a restart.
Saved     == Collected \ pending
Leftovers == Kept \ Saved

KeptInv ==
  /\ \A a \in Saved : db[a] = keep[a]
  /\ \A a, b \in Saved : keep[a] /\ keep[b] => a = b
  /\ Cardinality(Leftovers) =< restarts

NoTies == \A a, b \in Collected :
            a # b /\ Level(a) = Level(b) /\ Bucket(a) = Bucket(b)
              => info[a].date # info[b].date

\* The order in which pages and days are read does not decide a case: unless a
\* level has two acts of the same rank and day, every order of the Map gives
\* the same final act.
OrderIsNeutral ==
  NoTies => \A s \in SetToSeqs(Collected) : Final(s) = Final(links)

\* The final act is one that decides: the comment at _classifyAct lists the
\* classes that are definitely not final.  The code does not keep it (README,
\* section 5).
FinalDecides ==
  \A a \in Kept : Court(a) \in Decides \cup {"simplified"}
=============================================================================
