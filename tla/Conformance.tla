---------------------------- MODULE Conformance -----------------------------
(***************************************************************************)
(* The files of a published dataset, and the audit that a reader runs on   *)
(* them.                                                                   *)
(*                                                                         *)
(* An input is [network, rated, hot, count, primary, floor, small]: the    *)
(* segments with a usable exposure, those that Gi* finds hot, the reports  *)
(* of each and those of them that are not of low confidence, and the       *)
(* configured min_publish_n and small_n.  Publishing writes three files    *)
(* one after the other, the dataset, its sidecar and the corridor view,    *)
(* so a directory holds files of at most two runs.  A rate is the set of    *)
(* the count it is made of, or empty; the interval is left out.            *)
(***************************************************************************)
EXTENDS Clusters

DefaultFloor == 3
DefaultSmall == 5

\* What the configuration and the counting of the reports leave of an input.
PublishInput(input) ==
  /\ IsFiniteSet(DOMAIN input.count) /\ input.floor \in Nat \ {0, 1} /\ input.small \in Nat \ {0}
  /\ \A s \in DOMAIN input.count : input.count[s] \in Nat /\ input.primary[s] \in 0 .. input.count[s]

ClusterStats(input) ==
  [p |-> [s \in input.rated |-> IF s \in input.hot THEN 1 ELSE 99], positive |-> input.hot,
   alone |-> {}, count |-> input.count, floor |-> input.floor, alpha |-> [num |-> 20, den |-> 1]]

PublishedQualityFlags(input, s) ==
  (IF s \in input.rated THEN {} ELSE {"exposure_unknown"})
    \cup (IF input.count[s] \in 1..(input.small - 1) THEN {"low_sample"} ELSE {})
    \cup (IF input.primary[s] # input.count[s] THEN {"geocode_low_confidence"} ELSE {})

ConfidenceLabel(input, s) ==
  IF s \notin input.rated THEN "exposure_unknown"
  ELSE IF input.count[s] < input.small THEN "uncertain" ELSE "certain"

\* The published rate is made of the reports of high confidence, the floor is put on all of them.
Feature(input, s) ==
  LET merged == Corridors(input.network, ClusterStats(input)) IN
  [id |-> s, n |-> input.count[s], flags |-> PublishedQualityFlags(input, s),
   hot |-> s \in Significant(ClusterStats(input)),
   rate |-> {input.primary[t] : t \in input.rated \cap {s}},
   label |-> ConfidenceLabel(input, s), geometry |-> "LineString",
   corridor |-> UNION {c.members : c \in {d \in merged : s \in d.members}}]

Features(input) == {Feature(input, s) : s \in Publishable(ClusterStats(input))}

\* A corridor has no flags, and its rate is made of all reports.
CorridorFeatures(input) ==
  {[id |-> c.members, n |-> c.count, flags |-> {}, rate |-> {c.count},
    label |-> IF c.count >= input.small THEN "certain" ELSE "uncertain",
    geometry |-> "MultiLineString", corridor |-> c.members] :
     c \in Corridors(input.network, ClusterStats(input))}

PublishedClean(features, floor) == \A f \in features : f.n \notin 1..(floor - 1)

NotPublished == [refused |-> TRUE]

(***************************************************************************)
(* The sidecar pins the bytes of the dataset; the corridor view is bound   *)
(* by names only, in both directions.                                      *)
(***************************************************************************)
PublishedFiles(input) ==
  LET dataset == [features |-> Features(input),
                  withheld |-> Cardinality(DOMAIN input.count) - Cardinality(Features(input))]
      view == [features |-> CorridorFeatures(input), primary |-> "dataset"]
  IN IF ~PublishedClean(dataset.features, input.floor) \/ ~PublishedClean(view.features, input.floor)
     THEN NotPublished
     ELSE [dataset |-> dataset, view |-> view,
           sidecar |-> [pins |-> dataset, floor |-> input.floor, small |-> input.small,
                        corridors |-> "view"]]

\* The directory when a second run wrote so many of its files over those of a first.
Directory(old, new, written) ==
  [dataset |-> IF written >= 1 THEN new.dataset ELSE old.dataset,
   sidecar |-> IF written >= 2 THEN new.sidecar ELSE old.sidecar,
   view    |-> IF written >= 3 THEN new.view ELSE old.view]

\* A rule that had nothing to judge says so and does not fail.
Rule(broken, examined) ==
  CASE broken -> "fail" [] ~broken /\ examined = 0 -> "not_applicable" [] OTHER -> "pass"

Rated(features) == {f \in features : f.rate # {}}

CheckHR1(features) == Rule(\E f \in features : f.n \notin Nat, Cardinality(features))

\* A rate rests on a report, and a small sample is marked as one.
CheckHR2(features, small) ==
  Rule(\E f \in Rated(features) :
         \/ f.rate # {0} /\ f.n < 1
         \/ f.n \in 1..(small - 1) /\ "low_sample" \notin f.flags
              /\ f.label \notin {"uncertain", "exposure_unknown"},
       Cardinality(Rated(features)))

CheckHR4(features, floor) ==
  Rule(\E f \in features : \/ f.n \in 1..(floor - 1)
                           \/ f.geometry \notin {"LineString", "MultiLineString"},
       Cardinality(features))

\* Mutant: the sidecar is there, and its digest is not compared.
CheckHR5Present(dataset, sidecar) == IF sidecar.pins.withheld >= 0 THEN "pass" ELSE "fail"

CheckHR5(dataset, sidecar) == IF sidecar.pins = dataset THEN "pass" ELSE "fail"

\* The floor of the audit is the reader's (0 is none given) or that of the sidecar.
Floor(files, flag) ==
  CASE flag > 0 -> flag [] flag = 0 /\ files.sidecar.floor > 0 -> files.sidecar.floor
    [] OTHER -> DefaultFloor

Small(files) == IF files.sidecar.small > 0 THEN files.sidecar.small ELSE DefaultSmall

VerifyArtifact(files, flag) ==
  [HR1 |-> CheckHR1(files.dataset.features), HR2 |-> CheckHR2(files.dataset.features, Small(files)),
   HR4 |-> CheckHR4(files.dataset.features, Floor(files, flag)),
   HR5 |-> CheckHR5(files.dataset, files.sidecar)]

Passes(rules) == \A r \in DOMAIN rules : rules[r] # "fail"

CorridorBinding(files, flag) ==
  IF files.view.primary = "dataset" /\ files.sidecar.corridors = "view"
       /\ Passes(VerifyArtifact(files, flag))
  THEN "pass" ELSE "fail"

VerifyCorridor(files, flag) ==
  [HR1 |-> CheckHR1(files.view.features), HR2 |-> CheckHR2(files.view.features, Small(files)),
   HR3 |-> CorridorBinding(files, flag), HR4 |-> CheckHR4(files.view.features, Floor(files, flag)),
   HR5 |-> CorridorBinding(files, flag)]

(***************************************************************************)
(* The change report of two vintages: every segment that became or ceased  *)
(* to be a published hotspot, with one cause.  The modelling keys (band,   *)
(* bandwidth, rate unit) are those of one configuration and never differ.  *)
(***************************************************************************)
Vintage(files, withSidecar) ==
  [segments |-> files.dataset.features,
   methods  |-> IF withSidecar THEN {[small |-> files.sidecar.small, floor |-> files.sidecar.floor]}
                ELSE {}]

\* A method that both vintages record, with another value.
Differs(old, new, key, smaller) ==
  \E a \in old.methods, b \in new.methods : a[key] # b[key] /\ (smaller => b[key] < a[key])

Classified(old, new, before, after) ==
  IF before = {} THEN IF Differs(old, new, "floor", TRUE) THEN "threshold_change" ELSE "recomputation"
  ELSE IF after = {} THEN "suppression"
  ELSE IF Differs(old, new, "small", FALSE) THEN "threshold_change"
  ELSE IF {f.n : f \in before} # {f.n : f \in after} THEN "new_reports"
  ELSE IF {f.rate = {} : f \in before} # {f.rate = {} : f \in after} THEN "revised_exposure"
  ELSE "recomputation"

BuildReport(old, new) ==
  LET ids       == {f.id : f \in old.segments \cup new.segments}
      At(v, s)  == {f \in v.segments : f.id = s}
      Hot(v, s) == \E f \in At(v, s) : f.hot
  IN [persisted |-> {s \in ids : Hot(old, s) /\ Hot(new, s)},
      changes   |-> {[id |-> s, cause |-> Classified(old, new, At(old, s), At(new, s)),
                      change |-> CASE Hot(new, s) -> "appeared" [] At(new, s) = {} -> "withdrawn"
                                   [] OTHER -> "disappeared"] :
                       s \in {t \in ids : Hot(old, t) # Hot(new, t)}}]

Audit(old, new, written, flag) ==
  LET first  == PublishedFiles(old)
      second == PublishedFiles(new)
  IN IF NotPublished \in {first, second} THEN NotPublished
     ELSE LET files == Directory(first, second, written) IN
          [files |-> files, artifact |-> VerifyArtifact(files, flag),
           corridor |-> VerifyCorridor(files, flag),
           report |-> [sidecars \in BOOLEAN |->
                         BuildReport(Vintage(first, sidecars), Vintage(second, sidecars))]]
-----------------------------------------------------------------------------
(***************************************************************************)
(* The report tells every hotspot that came or went, once, and what it     *)
(* gives as the cause is so in the reports and not only in the files: a    *)
(* hotspot that is withdrawn has too few, only such a one is given as      *)
(* suppressed, one that is new or gone by new reports has other reports,   *)
(* one by exposure has the same.  It says that nothing of the segment      *)
(* changed only of a segment whose own count stayed or that was hidden     *)
(* before.  The sidecars add a cause and take no change away.  Which of    *)
(* several causes is given is the code's choice and not the precedence of  *)
(* its docstring (9-15): withdrawals, and what was hidden before, are      *)
(* classified without a look at the thresholds (181-196, 231-246).         *)
(***************************************************************************)
ReportTruthful(old, new, sidecars, report) ==
  LET shown(i)   == Significant(ClusterStats(i)) \cap Publishable(ClusterStats(i))
      changed(c) == {s.id : s \in {d \in report.changes : d.change = c}}
      by(c)      == {s.id : s \in {d \in report.changes : d.cause = c}}
      hidden(i, s) == i.count[s] \in 1..(i.floor - 1)
  IN /\ report.persisted \cup changed("appeared") = shown(new)
     /\ report.persisted \cup changed("disappeared") \cup changed("withdrawn") = shown(old)
     /\ changed("appeared") \cap (changed("disappeared") \cup changed("withdrawn")) = {}
     /\ Cardinality(report.changes) = Cardinality({d.id : d \in report.changes})
     /\ by("suppression") \subseteq changed("withdrawn")
     /\ \A s \in changed("withdrawn") : hidden(new, s)
     /\ \A s \in by("new_reports") : old.count[s] # new.count[s]
     /\ \A s \in by("revised_exposure") :
          old.count[s] = new.count[s] /\ (s \in old.rated) # (s \in new.rated)
     /\ \A s \in by("recomputation") : old.count[s] = new.count[s] \/ hidden(old, s)
     /\ by("threshold_change") # {} =>
          sidecars /\ <<old.small, old.floor>> # <<new.small, new.floor>>

(***************************************************************************)
(* Publishing never refuses what it has built, and a finished run passes   *)
(* the audit of both views under its own floor; under the floor of a       *)
(* reader it passes just when nothing smaller is shown.  A crash between   *)
(* the first two files is always found out, unless both runs wrote the     *)
(* same dataset.  What an audit accepts shows no count below the floor,    *)
(* gives no small sample as certain and, in a rule, calls passed only what *)
(* it has judged.  A corridor view left over from an earlier run is        *)
(* accepted, with counts that this run withholds: the names bind it and no *)
(* digest does (schema/dataset.schema.md:582-585 says that it cannot be).  *)
(* A small sample is one below the bound; ADAPTING.md:304 includes it.     *)
(***************************************************************************)
AuditTruthful(old, new, written, flag, result) ==
  LET files == result.files
  IN /\ result # NotPublished
     /\ written = 3 =>
          /\ flag = 0 => Passes(result.artifact) /\ Passes(result.corridor)
          /\ Passes(result.artifact) <=> PublishedClean(files.dataset.features, Floor(files, flag))
     /\ written = 1 /\ Passes(result.artifact) =>
          files.dataset = PublishedFiles(old).dataset
     /\ Passes(result.artifact) /\ flag = 0 =>
          \A s \in DOMAIN new.count :
            new.count[s] \in 1..(files.sidecar.floor - 1) =>
              \A f \in files.dataset.features : f.id # s
     /\ Passes(result.artifact) =>
          \A f \in files.dataset.features :
            f.label = "certain" => f.n >= files.sidecar.small
     /\ \A sidecars \in BOOLEAN : ReportTruthful(old, new, sidecars, result.report[sidecars])
     /\ result.artifact.HR2 = "pass" => Rated(files.dataset.features) # {}
     /\ result.corridor.HR2 = "pass" => files.view.features # {}
=============================================================================
