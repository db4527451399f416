--------------------------- MODULE ReportPipeline ---------------------------
(***************************************************************************)
(* The pipeline that turns raw reports into clean records: the analysis    *)
(* window, deduplication, geocoding, snapping, classification and quality  *)
(* flags, in that order.                                                   *)
(*                                                                         *)
(* A report is [id, day, time, at, address, token, hazard, mode, blurred]. *)
(* day is the date as written and time the instant it names, NoTime if it  *)
(* cannot be parsed; at is a place on a line, Unset for a report that only *)
(* has an address; token is "" without a reporter; blurred says its        *)
(* accuracy is worse than the snapping limit.                              *)
(***************************************************************************)
EXTENDS Integers, Sequences, FiniteSets, SequencesExt, Orderings

CONSTANTS DedupeDistance, DedupeWindow,   \* dedupe_distance_m, dedupe_window_s
          SnapMax, FarSnap,               \* snap_max_m, and its share that is far
          StreetAt,                       \* StreetAt[s]: the place of a segment
          Gazetteer                       \* Gazetteer[a]: the place of a known address

Unset    == 0
NoTime   == -1
Open     == -1     \* an open end of the window
NoStreet == 0

\* The segments of a network are numbered from 1 and are somewhere; so is what the gazetteer knows.
ASSUME PipelineAssumption ==
  /\ DedupeDistance \in Nat /\ DedupeWindow \in Nat /\ SnapMax \in Nat /\ FarSnap \in Nat
  /\ DOMAIN StreetAt \subseteq Nat \ {NoStreet} /\ \A s \in DOMAIN StreetAt : StreetAt[s] \in Int
  /\ \A a \in DOMAIN Gazetteer : Gazetteer[a] \in Int

RawReports == [id : Nat, day : Nat, time : Nat \cup {NoTime}, at : Int, address : STRING,
               token : STRING, hazard : STRING, mode : STRING, blurred : BOOLEAN]

\* What the pipeline is run on: reports with different ids, and a window.
PipelineRequest(reports, first, last) ==
  /\ reports \in Seq(RawReports)
  /\ \A i, j \in DOMAIN reports : reports[i].id = reports[j].id => i = j
  /\ first \in Nat \cup {Open} /\ last \in Nat \cup {Open}

KnownHazards == {"close_pass", "dooring", "surface_hazard", "sightline", "signal", "debris", "other"}
Apart(p, q)  == IF p <= q THEN q - p ELSE p - q

\* A bound of the window is a day, or Open.
InWindow(report, first, last) ==
  /\ first = Open \/ report.day >= first
  /\ last = Open \/ report.day <= last

\* Who sent it decides when both reports say; what it is about otherwise.
IsDuplicate(a, b) ==
  /\ Apart(a.at, b.at) <= DedupeDistance
  /\ a.time # NoTime /\ b.time # NoTime
  /\ Apart(a.time, b.time) <= DedupeWindow
  /\ IF a.token # "" /\ b.token # "" THEN a.token = b.token
     ELSE a.hazard = b.hazard /\ a.mode = b.mode

\* By the instant, unparsed ones last, then by the id.
Earlier(a, b) ==
  IF a.time = b.time THEN a.id < b.id
  ELSE a.time # NoTime /\ (b.time = NoTime \/ a.time < b.time)

Chronological(reports) ==
  InOrder(reports, {d \in reports \X reports : Earlier(d[1], d[2])})

\* Mutant: a report is dropped when it repeats any earlier one.
DedupeAgainstAll(reports) ==
  LET repeated == {r \in reports : \E q \in reports : Earlier(q, r) /\ IsDuplicate(r, q)}
  IN [kept |-> Chronological(reports \ repeated), removed |-> {r.id : r \in repeated}]

\* A report is dropped when it repeats one that was kept before it.
Settle(done, r) ==
  IF \E q \in ToSet(done.kept) : IsDuplicate(r, q)
  THEN [done EXCEPT !.removed = @ \cup {r.id}]
  ELSE [done EXCEPT !.kept = Append(@, r)]

Dedupe(reports) ==
  LET ordered == Chronological(reports)
      done[i \in 0 .. Cardinality(reports)] ==
        IF i = 0 THEN [kept |-> <<>>, removed |-> {}] ELSE Settle(done[i - 1], ordered[i])
  IN done[Cardinality(reports)]

Geocode(report) ==
  IF report.at = Unset /\ report.address \in DOMAIN Gazetteer
  THEN [report EXCEPT !.at = Gazetteer[report.address]] ELSE report

\* The nearest segment, the first by id among equals; none beyond the limit.
SnapTo(report) ==
  LET Gap(s)   == Apart(report.at, StreetAt[s])
      nearest  == CHOOSE s \in DOMAIN StreetAt :
                    \A t \in DOMAIN StreetAt : Gap(s) < Gap(t) \/ (Gap(s) = Gap(t) /\ s <= t)
  IN IF DOMAIN StreetAt = {} \/ Gap(nearest) > SnapMax
     THEN [segment |-> NoStreet, far |-> FALSE]
     ELSE [segment |-> nearest, far |-> Gap(nearest) > FarSnap]

QualityFlags(report, snap) ==
  {flag \in {"unsnapped", "low_accuracy", "far_snap"} :
     CASE flag = "unsnapped"    -> snap.segment = NoStreet
       [] flag = "low_accuracy" -> report.blurred
       [] flag = "far_snap"     -> snap.far}

Classify(hazard) == IF hazard \in KnownHazards THEN hazard ELSE "other"

CleanRecord(report) ==
  LET snap == SnapTo(Geocode(report))
  IN [id |-> report.id, segment |-> snap.segment, hazard |-> Classify(report.hazard),
      flags |-> QualityFlags(report, snap)]

(***************************************************************************)
(* pipeline.run.  The reports come in the order of the files they were     *)
(* read from, with unique ids.                                             *)
(***************************************************************************)
RunPipeline(reports, first, last) ==
  LET inside  == {r \in ToSet(reports) : InWindow(r, first, last)}
      deduped == Dedupe(inside)
      records == [i \in DOMAIN deduped.kept |-> CleanRecord(deduped.kept[i])]
      placed  == {i \in DOMAIN records : records[i].segment # NoStreet}
  IN [records |-> records, removed |-> deduped.removed,
      summary |-> [reportsIn |-> Len(reports),
                   outside   |-> Len(reports) - Cardinality(inside),
                   removed   |-> Cardinality(deduped.removed),
                   snapped   |-> Cardinality(placed),
                   unsnapped |-> Len(records) - Cardinality(placed)]]
-----------------------------------------------------------------------------
(***************************************************************************)
(* The accounting of the duplicate rule that dedupe.py has: no two records *)
(* are of reports that repeat each other, a removed report repeats an      *)
(* earlier one that has a record, every report of the window is a record   *)
(* or removed, and the summary adds up to the reports that came in.  A     *)
(* record carries a segment only within the snapping limit of its place.   *)
(* Nothing of this depends on the order of the input files.  It does not   *)
(* say that the merged reports are of one event: IsDuplicate is laxer than *)
(* METHODOLOGY.md:105-109, which asks for one type and a shared pseudonym  *)
(* or signature, and two reports that only have an address are compared    *)
(* before they have a place.                                               *)
(***************************************************************************)
EachEventOnce(reports, first, last, result) ==
  LET Recorded == {r \in ToSet(reports) : \E i \in DOMAIN result.records : result.records[i].id = r.id}
      Gone     == {r \in ToSet(reports) : r.id \in result.removed}
      sum      == result.summary
  IN /\ \A a, b \in Recorded : a # b => ~IsDuplicate(a, b)
     /\ \A r \in Gone : \E q \in Recorded : IsDuplicate(r, q) /\ (q.time < r.time \/ (q.time = r.time /\ q.id < r.id))
     /\ Recorded \cap Gone = {}
     /\ Recorded \cup Gone = {r \in ToSet(reports) : first <= r.day /\ (r.day <= last \/ last = Open)}
     /\ Len(result.records) = Cardinality(Recorded)
     /\ sum.reportsIn = sum.outside + sum.removed + sum.snapped + sum.unsnapped
     /\ \A i \in DOMAIN result.records : \A r \in Recorded :
          LET rec   == result.records[i]
              place == IF r.at # Unset THEN r.at
                       ELSE IF r.address \in DOMAIN Gazetteer THEN Gazetteer[r.address] ELSE Unset
          IN rec.id = r.id =>
               IF rec.segment = NoStreet
               THEN \A s \in DOMAIN StreetAt : Apart(place, StreetAt[s]) > SnapMax
               ELSE /\ Apart(place, StreetAt[rec.segment]) <= SnapMax
                    /\ \A s \in DOMAIN StreetAt :
                         Apart(place, StreetAt[rec.segment]) <= Apart(place, StreetAt[s])
=============================================================================
