---------------------------- MODULE CityCoverage ----------------------------
(***************************************************************************)
(* What the inputs of a city support (coverage.py): a registry declares    *)
(* sources, the data that load are held against it, and the tier says      *)
(* which analyses are supportable.  Days are numbers and shares are        *)
(* counted in quarters.                                                    *)
(***************************************************************************)
EXTENDS Integers, FiniteSets, FiniteSetsExt

CONSTANTS CitySegments,     \* the segments of the city
          ExposureFloor     \* config.exposure_floor

ASSUME CityCoverageAssumption == IsFiniteSet(CitySegments) /\ CitySegments # {} /\ ExposureFloor \in Nat

CoreKinds  == {"streets", "incidents", "exposure"}
NoRegistry == [refused |-> TRUE]

\* Mutant: every threshold is loaded.
RegistryLoadsAny(r) ==
  /\ \A s, t \in r.sources : s.id = t.id => s = t
  /\ \A s \in r.sources : s.limit >= 0
  /\ r.partner \in {{}, {"organization", "review"}}

RegistryLoads(r) ==
  /\ \A s, t \in r.sources : s.id = t.id => s = t
  /\ \A s \in r.sources : s.limit >= 0
  /\ r.quarters \in 1 .. 4
  /\ r.partner \in {{}, {"organization", "review"}}

\* A registry and an input that were parsed: days and limits are numbers, and at most one day was asked for.
CoverageRequest(r, input) ==
  /\ r = [sources |-> r.sources, quarters |-> r.quarters, partner |-> r.partner]
  /\ input = [exposure |-> input.exposure, asOf |-> input.asOf, reports |-> input.reports,
              verified |-> input.verified]
  /\ IsFiniteSet(r.sources) /\ \A s \in r.sources : s.updated \in Int /\ s.limit \in Int
  /\ input.asOf = {} \/ \E day \in input.asOf : day \in Int /\ input.asOf = {day}
  /\ IsFiniteSet(input.reports) /\ input.reports \subseteq Int
  /\ \A s \in DOMAIN input.exposure :
       input.exposure[s] = [tier |-> input.exposure[s].tier, estimate |-> input.exposure[s].estimate]

\* The day that was asked for, the last report, or the newest source; never today.
AssessmentDate(r, input) ==
  IF input.asOf # {} THEN input.asOf
  ELSE IF input.reports # {} THEN {Max(input.reports)}
  ELSE IF r.sources # {} THEN {Max({s.updated : s \in r.sources})} ELSE {}

StaleSources(r, day) == {s \in r.sources : day - s.updated > s.limit}

Kinds(r) == {s.kind : s \in r.sources}

\* The tiers from the least to the best.
Tiers == <<"demonstration", "national_baseline", "modeled_city", "measured_city", "partner_city">>

Reaches(r, observed) == 4 * Cardinality(observed) >= r.quarters * Cardinality(CitySegments)

EvidenceTier(r, usable, observed, stale) ==
  LET core     == {s \in r.sources : s.kind \in CoreKinds}
      measured == CoreKinds \subseteq Kinds(r) /\ Reaches(r, observed) /\ core \cap stale = {}
  IN IF \E s \in core : s.synthetic THEN "demonstration"
     ELSE IF usable = {} \/ "exposure" \notin Kinds(r) THEN "national_baseline"
     ELSE IF ~measured THEN "modeled_city"
     ELSE IF r.partner # {} THEN "partner_city" ELSE "measured_city"

Capabilities(r, usable, verified) ==
  {"screening"} \cup (IF usable # {} /\ "exposure" \in Kinds(r) THEN {"rates"} ELSE {})
    \cup (IF verified /\ \E s \in r.sources : s.id = "fars" /\ s.kind = "official_outcomes"
          THEN {"verified outcomes"} ELSE {})

Unlocks(r, observed, stale, verified) ==
  (IF Reaches(r, observed) THEN {} ELSE {"raise coverage"})
    \cup (IF "verified outcomes" \in Capabilities(r, {}, verified) THEN {"join outcomes"}
          ELSE IF \E s \in r.sources : s.id = "fars" /\ s.kind = "official_outcomes" THEN {"verify outcomes"}
          ELSE {"declare outcomes"})
    \cup (IF "interventions" \in Kinds(r) THEN {"connect interventions"} ELSE {"add interventions"})
    \cup (IF r.partner = {} THEN {"record partner"} ELSE {})
    \cup (IF stale = {} THEN {} ELSE {"refresh sources"})

\* input: [exposure |-> [segment -> [tier, estimate]], asOf, reports |-> days, verified].
AssessCoverage(r, input) ==
  LET day      == AssessmentDate(r, input)
      usable   == {s \in DOMAIN input.exposure \cap CitySegments :
                     input.exposure[s].estimate > ExposureFloor}
      observed == {s \in usable : input.exposure[s].tier = "observed"}
      stale    == StaleSources(r, CHOOSE d \in day : TRUE)
  IN IF ~RegistryLoads(r) \/ day = {} THEN NoRegistry
     ELSE [tier |-> EvidenceTier(r, usable, observed, stale), missing |-> CoreKinds \ Kinds(r),
           stale |-> stale, observed |-> observed, usable |-> usable,
           capabilities |-> Capabilities(r, usable, input.verified),
           unlocks |-> Unlocks(r, observed, stale, input.verified)]
-----------------------------------------------------------------------------
Rank(assessment) == CHOOSE i \in DOMAIN Tiers : Tiers[i] = assessment.tier

(***************************************************************************)
(* A tier that is not the best is explained by what is reported with it; a *)
(* modeled city has rates, and a measured one no stale core source; a      *)
(* verified FARS chain changes no tier, and a later day, a lost partner or *)
(* one segment less of observed exposure never promotes                    *)
(* (assess_coverage in coverage.py).  A modeled city need not lack         *)
(* exposure, as COVERAGE-TIERS.md:24-25 has it: a core source that is not  *)
(* declared demotes as well.                                               *)
(***************************************************************************)
CoverageExplained(r, input, a) ==
  a # NoRegistry =>
    /\ a.tier # "partner_city" =>
         \/ \E s \in r.sources : s.kind \in CoreKinds /\ s.synthetic
         \/ a.missing # {}
         \/ a.unlocks \cap {"raise coverage", "record partner", "refresh sources"} # {}
    /\ Rank(a) >= 3 => "rates" \in a.capabilities
    /\ Rank(a) >= 4 => \A s \in a.stale : s.kind \notin CoreKinds
    /\ \A later \in 0 .. 1 :
         LET next == AssessCoverage(r, [input EXCEPT !.asOf = {later + d : d \in AssessmentDate(r, input)}])
         IN Rank(next) <= Rank(a) /\ a.stale \subseteq next.stale
    /\ AssessCoverage(r, [input EXCEPT !.verified = ~@]).tier = a.tier
    /\ Rank(AssessCoverage([r EXCEPT !.partner = {}], input)) <= Rank(a)
    /\ \A s \in a.observed :
         Rank(AssessCoverage(r, [input EXCEPT !.exposure[s].tier = "modeled"])) <= Rank(a)
=============================================================================
