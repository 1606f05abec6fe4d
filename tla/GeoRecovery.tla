----------------------------- MODULE GeoRecovery -----------------------------
(***************************************************************************)
(* The search for a proxy address that works: _recoverByGeoLoop of         *)
(* backend/pdf/downloader.js with the rotate-first step, the blacklist the *)
(* workers share (backend/pdf/badGeoBlacklist.js) and the changes of        *)
(* equipment they ask the provider for (backend/network/proxyClient.js).   *)
(* The rate-limit ladder is left out: only its change of geo behind the    *)
(* downloader's back matters here (LadderMoves).                           *)
(*                                                                         *)
(* The provider offers equipment, a geo with an operator, the offer with   *)
(* most free modems first.  A geo answers the probe of ras and kad or does *)
(* not (Healthy); everything else that can go wrong, and the expiry of a   *)
(* blacklist entry, counts against MaxFaults.  IP addresses are left out:  *)
(* whether a rotation brought a usable one is a choice.                    *)
(***************************************************************************)
EXTENDS Naturals, FiniteSets, Sequences, SequencesExt

CONSTANTS
  Worker,
  Offers,        \* sequence of [geo, op], by count_free, largest first
  Home,          \* geo of each worker's proxy when the pipeline starts
  Healthy,       \* geos in which the probe of ras and kad succeeds
  BadCountry,    \* geos of countries the preflight escapes from
  Unread, Unknown,  \* the signature was not read yet, or has no geoid
  NoOffer,
  RotateBudget,  \* PDF_SAME_IP_ROTATE_ATTEMPTS
  MaxRounds,     \* PDF_RECOVER_MAX_ROUNDS
  MaxFaults      \* bound: faults and expiries in a behaviour

Offer == ToSet(Offers)
Geo   == {o.geo : o \in Offer}
Op    == {o.op : o \in Offer}

ASSUME GeoAssumption ==
  /\ Offers \in Seq([geo : Geo, op : Op])
  /\ Home \in [Worker -> Geo] /\ Healthy \subseteq Geo
  /\ BadCountry \subseteq Geo
  /\ Unread \notin Geo /\ Unknown \notin Geo
  /\ NoOffer \notin [geo : Geo \cup {Unknown}, op : Op]
  /\ RotateBudget \in Nat /\ MaxRounds \in Nat \ {0}
  /\ MaxFaults \in Nat

VARIABLES
  badGeo, badOp, \* the shared blacklist
  waiting,       \* workers the preflight has not looked at yet
  loc,           \* where each worker's search is
  until,         \* loopUntilSuccess of the search
  geo,           \* where the provider has the worker's proxy
  sig,           \* _currentGeoSig.geoid
  target,        \* the offer changeGeo picked
  round,
  used,          \* _rotateAttemptsInCurrentGeo
  stopping, faults,
  burnt,         \* history: geos that failed a worker, as they did
  moved          \* history: the geo changed without the signature

shared == <<badGeo, badOp>>
search == <<loc, until, target, round>>
history == <<burnt, moved>>
geoVars == <<shared, waiting, search, geo, sig, used, stopping, faults, history>>

Searching == {"rotate", "round", "change", "arrive", "restart", "pause"}

GeoTypeOK ==
  /\ badGeo \subseteq Geo /\ badOp \subseteq Op
  /\ waiting \subseteq Worker
  /\ loc \in [Worker -> {"idle"} \cup Searching]
  /\ until \in [Worker -> BOOLEAN]
  /\ geo \in [Worker -> Geo]
  /\ sig \in [Worker -> Geo \cup {Unread, Unknown}]
  /\ target \in [Worker -> [geo : Geo \cup {Unknown}, op : Op] \cup {NoOffer}]
  /\ round \in [Worker -> 1..MaxRounds]
  /\ used \in [Worker -> 0..RotateBudget]
  /\ stopping \in BOOLEAN /\ faults \in 0..MaxFaults
  /\ burnt \subseteq Geo
  /\ moved \in [Worker -> BOOLEAN]

GeoInit ==
  /\ badGeo = {} /\ badOp = {} /\ waiting = Worker
  /\ loc = [w \in Worker |-> "idle"] /\ until = [w \in Worker |-> FALSE]
  /\ geo = Home /\ sig = [w \in Worker |-> Unread]
  /\ target = [w \in Worker |-> NoOffer]
  /\ round = [w \in Worker |-> 1] /\ used = [w \in Worker |-> 0]
  /\ stopping = FALSE /\ faults = 0
  /\ burnt = {}
  /\ moved = [w \in Worker |-> FALSE]

Fault == faults < MaxFaults /\ faults' = faults + 1

(* The handlers of SIGINT and SIGTERM are set after the preflight, which   *)
(* never looks at a stop flag.                                             *)
StopSignal ==
  /\ waiting = {} /\ ~stopping /\ stopping' = TRUE
  /\ UNCHANGED <<shared, waiting, search, geo, sig, used, faults, history>>
-----------------------------------------------------------------------------
(* The blacklist *)

MarkBad(geos, operators) ==
  badGeo' = badGeo \cup geos /\ badOp' = badOp \cup operators

\* Mistakes: the geo that was left is marked instead of the candidate, and
\* the list is never emptied.
MarkFailedLeft(w, o, operators) == MarkBad({sig[w]} \cap Geo, operators)
ClearNothing == UNCHANGED shared

(* The candidate o failed worker w: its geo is marked.  After a change of  *)
(* operator only, the answer names no geo.                                 *)
MarkFailed(w, o, operators) == MarkBad({o.geo} \cap Geo, operators)

(* clearOperators and clearGeos. *)
ClearBlacklist == badGeo' = {} /\ badOp' = {}

(* An entry's 30 minutes are over. *)
EntryExpires ==
  /\ Fault
  /\ \/ \E g \in badGeo :
          /\ badGeo' = badGeo \ {g} /\ UNCHANGED badOp
          /\ burnt' = burnt \ {g}
     \/ \E p \in badOp : badOp' = badOp \ {p} /\ UNCHANGED <<badGeo, burnt>>
  /\ UNCHANGED <<waiting, search, geo, sig, used, stopping, moved>>
-----------------------------------------------------------------------------
(* The provider *)

(* _extractEquipmentCandidates and the filters of changeGeo. *)
Allowed(o, here, exGeo, exOp) == o.geo # here /\ o.geo \notin exGeo /\ o.op \notin exOp

(* changeGeo takes the first of the candidates. *)
Pick(here, exGeo, exOp) ==
  LET left == {i \in DOMAIN Offers : Allowed(Offers[i], here, exGeo, exOp)} IN
  IF left = {} THEN NoOffer ELSE Offers[Min(left)]

(* changeOperator stays in the geo and needs another operator there. *)
OperatorsOf(here) == {o.op : o \in {x \in Offer : x.geo = here}}
-----------------------------------------------------------------------------
(* Start and end of a search *)

End(w) ==
  /\ loc' = [loc EXCEPT ![w] = "idle"]
  /\ until' = [until EXCEPT ![w] = FALSE]
  /\ target' = [target EXCEPT ![w] = NoOffer]
  /\ round' = [round EXCEPT ![w] = 1]
  /\ waiting' = waiting \ {w}

Goto(w, l) ==
  /\ loc' = [loc EXCEPT ![w] = l]
  /\ UNCHANGED <<until, waiting>>

NextRound(w) ==
  /\ Goto(w, IF round[w] < MaxRounds THEN "round" ELSE "pause")
  /\ round' = [round EXCEPT ![w] = IF @ < MaxRounds THEN @ + 1 ELSE @]
  /\ target' = [target EXCEPT ![w] = NoOffer]

(* The geo of the signature is marked before the first round; operators    *)
(* are deliberately not.                                                   *)
MarkCurrent(s) == MarkBad({s} \cap Geo, {})

(* _readCurrentGeoSig is asked only while nothing is known; the provider   *)
(* may not tell.                                                           *)
ReadSig(w) ==
  IF sig[w] # Unread THEN UNCHANGED <<sig, faults>>
  ELSE \/ sig' = [sig EXCEPT ![w] = geo[w]] /\ UNCHANGED faults
       \/ sig' = [sig EXCEPT ![w] = Unknown] /\ Fault

Search(w, rotateFirst, untilSuccess) ==
  /\ ReadSig(w)
  /\ until' = [until EXCEPT ![w] = untilSuccess]
  /\ IF rotateFirst /\ used[w] < RotateBudget
       THEN /\ loc' = [loc EXCEPT ![w] = "rotate"]
            /\ UNCHANGED shared
       ELSE /\ loc' = [loc EXCEPT ![w] = "round"]
            /\ MarkCurrent(sig'[w])
  /\ UNCHANGED <<waiting, target, round, geo, used, stopping, history>>

(* The country is in the list of the bad ones, or not in the list the      *)
(* probe of the start recommended.                                         *)
Escapes(w) == geo[w] \in BadCountry

(* _preflightEscapeBadCountry: one worker after the other, before any of   *)
(* them downloads, until it has a geo that answers.  The others stay where *)
(* they are, and so does one whose country the provider does not tell.     *)
Preflight(w) ==
  /\ w \in waiting /\ \A v \in Worker : loc[v] = "idle"
  /\ \/ Escapes(w) /\ Search(w, FALSE, TRUE)
     \/ /\ Escapes(w) => Fault
        /\ ~Escapes(w) => UNCHANGED faults
        /\ waiting' = waiting \ {w}
        /\ UNCHANGED <<shared, search, geo, sig, used, stopping, history>>

(* The download loop asks for a new address (module DownloadWorker). *)
RecoverByGeo(w) ==
  /\ waiting = {} /\ loc[w] = "idle" /\ ~stopping
  /\ \E rotateFirst, untilSuccess \in BOOLEAN :
       Search(w, rotateFirst, untilSuccess)

(* Every wait of a search looks at the stop flag. *)
SearchStopped(w) ==
  /\ loc[w] \in Searching \ {"change", "restart"} /\ stopping
  /\ End(w)
  /\ UNCHANGED <<shared, geo, sig, used, stopping, faults, history>>
-----------------------------------------------------------------------------
(* _tryRotateInCurrentGeoFirst *)

(* _probeRasKadOverProxy *)
Answers(w) == geo[w] \in Healthy

(* The egress address stays what it was, or is marked, or does not answer: *)
(* in a geo that answers this is a fault.                                  *)
Unusable(w) ==
  /\ Answers(w) => Fault
  /\ ~Answers(w) => UNCHANGED faults

(* Or the browser does not start with it. *)
RotateFails(w) ==
  /\ loc[w] = "rotate" /\ ~stopping
  /\ Unusable(w)
  /\ used' = [used EXCEPT ![w] = @ + 1]
  /\ IF used[w] + 1 < RotateBudget
       THEN UNCHANGED <<shared, search>>
       ELSE /\ MarkCurrent(sig[w])
            /\ loc' = [loc EXCEPT ![w] = "round"]
            /\ UNCHANGED <<until, target, round>>
  /\ UNCHANGED <<waiting, geo, sig, stopping, history>>

RotateOk(w) ==
  /\ loc[w] = "rotate" /\ ~stopping /\ Answers(w)
  /\ used' = [used EXCEPT ![w] = @ + 1]
  /\ End(w)
  /\ UNCHANGED <<shared, geo, sig, stopping, faults, history>>
-----------------------------------------------------------------------------
(* A round of _recoverByGeoLoop *)

(* The filters are taken from the blacklist; the change itself comes after *)
(* the cool-downs of the client.                                           *)
RoundPick(w) ==
  /\ loc[w] = "round" /\ ~stopping
  /\ LET o == Pick(geo[w], badGeo, badOp) IN
       /\ o # NoOffer
       /\ target' = [target EXCEPT ![w] = o]
  /\ Goto(w, "change")
  /\ UNCHANGED <<shared, round, geo, sig, used, stopping, faults, history>>

(* no-allowed-geo: the blacklist is emptied and the round retried. *)
RoundNone(w) ==
  /\ loc[w] = "round" /\ ~stopping
  /\ Pick(geo[w], badGeo, badOp) = NoOffer
  /\ ClearBlacklist /\ burnt' = {}
  /\ NextRound(w)
  /\ UNCHANGED <<geo, sig, used, stopping, faults, moved>>

(* The list of equipment is not to be had: changeGeo falls back on another *)
(* operator in the same geo, whose answer names no geo.                    *)
RoundFallsBack(w) ==
  /\ loc[w] = "round" /\ ~stopping /\ Fault
  /\ \/ NextRound(w)
     \/ \E p \in OperatorsOf(geo[w]) :
          /\ OperatorsOf(geo[w]) # {p}
          /\ target' = [target EXCEPT ![w] = [geo |-> Unknown, op |-> p]]
          /\ Goto(w, "arrive")
          /\ UNCHANGED round
  /\ UNCHANGED <<shared, geo, sig, used, stopping, history>>

ChangeOk(w) ==
  /\ loc[w] = "change"
  /\ geo' = [geo EXCEPT ![w] = target[w].geo]
  /\ moved' = [moved EXCEPT ![w] = TRUE]
  /\ Goto(w, "arrive")
  /\ UNCHANGED <<shared, target, round, sig, used, stopping, faults, burnt>>

(* equipment_busy, another refusal or a lost answer names the candidate,   *)
(* which is marked without its operator; when the answer was lost the      *)
(* proxy may have moved.  An exception before the request names none.      *)
ChangeFails(w) ==
  /\ loc[w] = "change" /\ Fault
  /\ \/ /\ MarkFailed(w, target[w], {})
        /\ burnt' = burnt \cup {target[w].geo}
        /\ \/ UNCHANGED <<geo, moved>>
           \/ /\ geo' = [geo EXCEPT ![w] = target[w].geo]
              /\ moved' = [moved EXCEPT ![w] = TRUE]
     \/ UNCHANGED <<shared, geo, history>>
  /\ NextRound(w)
  /\ UNCHANGED <<sig, used, stopping>>

(* A new address has failed worker w for good: the geo it is in is burnt,  *)
(* whatever the search marks.  The fallback's is not counted, no geo being *)
(* known to the search.                                                    *)
Burn(w) ==
  burnt' = IF target[w].geo = Unknown THEN burnt ELSE burnt \cup {geo[w]}

(* The egress address is measured, rotated if it has not changed, and      *)
(* probed; rotations follow a bad probe.                                   *)
ArriveOk(w) ==
  /\ loc[w] = "arrive" /\ Answers(w)
  /\ Goto(w, "restart")
  /\ UNCHANGED <<shared, target, round, geo, sig, used, stopping, faults,
                 history>>

ArriveBad(w) ==
  /\ loc[w] = "arrive" /\ ~stopping
  /\ Unusable(w)
  /\ Burn(w)
  /\ MarkFailed(w, target[w], {target[w].op})
  /\ NextRound(w)
  /\ UNCHANGED <<geo, sig, used, stopping, moved>>

\* A mistake: the signature of the geo that was left is kept.
RestartKeepsSig(w) ==
  /\ loc[w] = "restart"
  /\ used' = [used EXCEPT ![w] = 0]
  /\ moved' = [moved EXCEPT ![w] = FALSE]
  /\ End(w)
  /\ UNCHANGED <<shared, geo, sig, stopping, faults, burnt>>

(* _completeRecoverGeoRoundSuccess *)
RestartOk(w) ==
  /\ loc[w] = "restart"
  /\ sig' = [sig EXCEPT ![w] = target[w].geo]
  /\ used' = [used EXCEPT ![w] = 0]
  /\ moved' = [moved EXCEPT ![w] = FALSE]
  /\ End(w)
  /\ UNCHANGED <<shared, geo, stopping, faults, burnt>>

RestartBad(w) ==
  /\ loc[w] = "restart" /\ Fault
  /\ Burn(w)
  /\ MarkFailed(w, target[w], {target[w].op})
  /\ NextRound(w)
  /\ UNCHANGED <<geo, sig, used, stopping, moved>>

(* The pause after the last round. *)
PauseEnds(w) ==
  /\ loc[w] = "pause" /\ ~stopping
  /\ IF until[w]
       THEN /\ Goto(w, "round")
            /\ round' = [round EXCEPT ![w] = 1]
            /\ UNCHANGED target
       ELSE End(w)
  /\ UNCHANGED <<shared, geo, sig, used, stopping, faults, history>>
-----------------------------------------------------------------------------
(* What else the download loop does to the proxy *)

(* _handleRateLimit: the ladder asks for a change of geo with the filters  *)
(* of the pipeline, without the blacklist; the signature stays.            *)
LadderMoves(w) ==
  /\ waiting = {} /\ loc[w] = "idle" /\ ~stopping
  /\ LET o == Pick(geo[w], {}, {}) IN
       /\ o # NoOffer
       /\ geo' = [geo EXCEPT ![w] = o.geo]
  /\ moved' = [moved EXCEPT ![w] = TRUE]
  /\ UNCHANGED <<shared, waiting, search, sig, used, stopping, faults, burnt>>

(* A PDF is saved: _clearGeoProbationOnSuccess. *)
PdfSaved(w) ==
  /\ waiting = {} /\ loc[w] = "idle" /\ ~stopping
  /\ used' = [used EXCEPT ![w] = 0]
  /\ UNCHANGED <<shared, waiting, search, geo, sig, stopping, faults, history>>
-----------------------------------------------------------------------------
SearchStep(w) ==
  \/ SearchStopped(w) \/ RotateFails(w) \/ RotateOk(w)
  \/ RoundPick(w) \/ RoundNone(w) \/ RoundFallsBack(w)
  \/ ChangeOk(w) \/ ChangeFails(w) \/ ArriveOk(w) \/ ArriveBad(w)
  \/ RestartOk(w) \/ RestartBad(w) \/ PauseEnds(w)

Download(w) == RecoverByGeo(w) \/ LadderMoves(w) \/ PdfSaved(w)

GeoNext ==
  \/ \E w \in Worker : Preflight(w) \/ SearchStep(w) \/ Download(w)
  \/ EntryExpires \/ StopSignal

GeoSpec == GeoInit /\ [][GeoNext]_geoVars

(* A search and the preflight go on; nobody has to download, and neither   *)
(* time nor faults help.                                                   *)
GeoFairness ==
  \A w \in Worker : WF_geoVars(Preflight(w)) /\ WF_geoVars(SearchStep(w))

GeoFairSpec == GeoSpec /\ GeoFairness
-----------------------------------------------------------------------------
(* Properties *)

(* A geo in which a worker failed for good, or the change to which was     *)
(* refused, is not asked for by any worker until its entry expires or the  *)
(* whole blacklist is emptied: a failing search marks the geo its proxy is *)
(* really in, on every way to fail, and the next choice of each worker     *)
(* sees it.  A search that asked before the other failed still goes there. *)
BurntNotAsked ==
  [][\A w \in Worker :
       loc'[w] = "change" /\ loc[w] # "change" => target'[w].geo \notin burnt]_geoVars

(* While neither the ladder nor an unfinished search has moved the proxy   *)
(* the signature, which the next search marks as bad, names the geo the    *)
(* proxy is in, or none.                                                   *)
SignatureIsCurrent ==
  \A w \in Worker : ~moved[w] => sig[w] \in {geo[w], Unread, Unknown}

(* A search ends: the run stops, its rounds are over, or it has found a    *)
(* geo that answers.  Only workers that keep starting new searches, each   *)
(* of which marks the geo it leaves, can take that geo from it for ever.   *)
SearchEnds ==
  \A w \in Worker :
    \/ []<>(loc[w] = "idle")
    \/ \E v \in Worker \ {w} : []<><<RecoverByGeo(v)>>_geoVars
=============================================================================
