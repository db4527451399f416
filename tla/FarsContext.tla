---------------------------- MODULE FarsContext ----------------------------
(***************************************************************************)
(* The city context: the verified records of one year are cut to the       *)
(* window, snapped to the street network, counted by segment, part of the  *)
(* day and involved mode, and kept where a cell reaches the floor.         *)
(*                                                                         *)
(* A record is [day, hour, modes, dist, near].  dist is its distance to    *)
(* every segment (whole steps; the tolerance of a micrometre is part of    *)
(* the thresholds).  near is what the grid index returns for it: every     *)
(* segment within the decision radius, and whatever else is close.  hour   *)
(* is NoHour where the source has no time.                                 *)
(***************************************************************************)
EXTENDS Naturals, Sequences, FiniteSets, FiniteSetsExt

CONSTANTS MaxDistance, AmbiguityMargin,   \* of the snap decision
          ContextMinimumK                 \* FARS_CONTEXT_MINIMUM_K

ASSUME ContextAssumption ==
  MaxDistance \in Nat /\ AmbiguityMargin \in Nat /\ ContextMinimumK \in Nat \ {0}

ContextRefused == [refusedContext |-> TRUE]
NoHour == 24
SourceModes == 6    \* len(MODE_ORDER)

TimeBand ==
  [band \in {"overnight", "am_peak", "midday", "pm_peak", "evening"} |->
     CASE band = "overnight" -> 0..5   [] band = "am_peak" -> 6..9   [] band = "midday" -> 10..15
       [] band = "pm_peak"   -> 16..19 [] band = "evening" -> 20..23]

PartOfDay(hour) ==
  IF hour = NoHour THEN "unknown_time"
  ELSE CHOOSE band \in DOMAIN TimeBand : hour \in TimeBand[band]

\* What the source checks leave of a request: every record knows its distance to the whole network, and
\* the index returns every segment that the decision may turn on.
ContextRequest(records, requested) ==
  /\ records \in Seq({records[i] : i \in DOMAIN records}) /\ requested \in Nat
  /\ \A i, j \in DOMAIN records : DOMAIN records[i].dist = DOMAIN records[j].dist
  /\ \A i \in DOMAIN records :
       LET r == records[i] IN
       /\ IsFiniteSet(DOMAIN r.dist) /\ \A s \in DOMAIN r.dist : r.dist[s] \in Nat
       /\ r.near \subseteq DOMAIN r.dist
       /\ {s \in DOMAIN r.dist : r.dist[s] <= MaxDistance + AmbiguityMargin} \subseteq r.near
       /\ r.hour \in 0..NoHour
       /\ IsFiniteSet(r.modes) /\ Cardinality(r.modes) <= SourceModes /\ "unknown_mode" \notin r.modes

\* Mutant: a crash without modes counts in no cell.
ContextModesAsGiven(modes) == {IF m = "unknown" THEN "unknown_mode" ELSE m : m \in modes}

\* The source's unknown becomes unknown_mode, and so does an empty set of modes.
ContextModes(modes) ==
  LET named == {IF m = "unknown" THEN "unknown_mode" ELSE m : m \in modes}
  IN IF named = {} THEN {"unknown_mode"} ELSE named

(***************************************************************************)
(* The snap decision over the candidates of the index: the nearest within  *)
(* the limit, unless another is within the margin of it.                   *)
(***************************************************************************)
PointSnap(r) ==
  LET nearest     == Min({r.dist[s] : s \in r.near})
      competitors == {s \in r.near : r.dist[s] <= nearest + AmbiguityMargin}
  IN IF r.near = {} \/ nearest > MaxDistance THEN [status |-> "unsnapped"]
     ELSE IF Cardinality(competitors) > 1 THEN [status |-> "ambiguous"]
     ELSE [status |-> "snapped", segment |-> CHOOSE s \in competitors : TRUE]

Summed(counts, keys) == MapThenSumSet(LAMBDA key : counts[key], keys)

ValidContext(doc) ==
  LET acc == doc.accounting IN
  /\ \A key \in DOMAIN doc.cells : doc.cells[key] >= doc.k
  /\ acc.received = acc.outside + acc.inside
  /\ acc.inside = acc.unique + acc.ambiguous + acc.unsnapped
  /\ acc.unique = acc.timed + acc.untimed
  /\ acc.positive = acc.eligible + acc.suppressed
  /\ acc.total = acc.shown + acc.hidden
  /\ acc.eligible = Cardinality(DOMAIN doc.cells)
  /\ acc.shown = Summed(doc.cells, DOMAIN doc.cells)
  /\ \/ acc.suppressed = 0 /\ acc.hidden = 0
     \/ acc.hidden \in acc.suppressed..(acc.suppressed * (doc.k - 1))
  /\ (acc.positive = 0 /\ acc.total = 0) \/ acc.positive \in 1..acc.total
  /\ (acc.unique = 0 /\ acc.total = 0) \/ acc.total \in acc.unique..(acc.unique * SourceModes)

\* The cells of the snapped records, counted once per involved mode.
ContextCells(records, snapped) ==
  LET Of(i) == {PointSnap(records[i]).segment} \X {PartOfDay(records[i].hour)}
                 \X ContextModes(records[i].modes)
  IN [key \in UNION {Of(i) : i \in snapped} |-> Cardinality({i \in snapped : key \in Of(i)})]

CityContext(records, window, requested) ==
  LET k        == Max({ContextMinimumK, requested})
      inside   == {i \in DOMAIN records : records[i].day \in window}
      With(st) == {i \in inside : PointSnap(records[i]).status = st}
      untimed  == {i \in With("snapped") : PartOfDay(records[i].hour) = "unknown_time"}
      counts   == ContextCells(records, With("snapped"))
      eligible == {key \in DOMAIN counts : counts[key] >= k}
      doc == [k |-> k, cells |-> [key \in eligible |-> counts[key]],
              accounting |->
                [received   |-> Len(records),
                 outside    |-> Len(records) - Cardinality(inside),
                 inside     |-> Cardinality(inside),
                 unique     |-> Cardinality(With("snapped")),
                 ambiguous  |-> Cardinality(With("ambiguous")),
                 unsnapped  |-> Cardinality(With("unsnapped")),
                 timed      |-> Cardinality(With("snapped") \ untimed),
                 untimed    |-> Cardinality(untimed),
                 positive   |-> Cardinality(DOMAIN counts),
                 eligible   |-> Cardinality(eligible),
                 suppressed |-> Cardinality(DOMAIN counts \ eligible),
                 total      |-> Summed(counts, DOMAIN counts),
                 shown      |-> Summed(counts, eligible),
                 hidden     |-> Summed(counts, DOMAIN counts \ eligible)]]
  IN IF ValidContext(doc) THEN doc ELSE ContextRefused
-----------------------------------------------------------------------------
\* The street a record belongs to, decided against the whole network.
OnStreet(r, s) ==
  /\ r.dist[s] <= MaxDistance
  /\ \A t \in DOMAIN r.dist \ {s} : r.dist[t] > r.dist[s] + AmbiguityMargin

(***************************************************************************)
(* The builder never refuses records that passed their own checks, though  *)
(* its result is checked by thirteen equations and bounds.  A cell counts  *)
(* exactly the crashes of the window that the whole network puts on that   *)
(* street, whatever the index returned; a published cell reaches the       *)
(* floor, no cell that reaches it is missing, and every record is either   *)
(* outside, on a street, or accounted for as unsnapped or ambiguous.       *)
(***************************************************************************)
ContextAccounts(records, window, requested, doc) ==
  LET k == Max({ContextMinimumK, requested})
      Crash(s, part, m) ==
        {i \in DOMAIN records : /\ records[i].day \in window
                                /\ OnStreet(records[i], s)
                                /\ IF part = "unknown_time" THEN records[i].hour = NoHour
                                   ELSE records[i].hour \in TimeBand[part]
                                /\ IF m = "unknown_mode"
                                   THEN records[i].modes = {} \/ "unknown" \in records[i].modes
                                   ELSE m \in records[i].modes}
      Streets == UNION {DOMAIN records[i].dist : i \in DOMAIN records}
      Parts   == DOMAIN TimeBand \cup {"unknown_time"}
      Kinds   == UNION {records[i].modes : i \in DOMAIN records} \cup {"unknown_mode"}
  IN /\ doc # ContextRefused
     /\ \A s \in Streets, part \in Parts, m \in Kinds \ {"unknown"} :
          LET n == Cardinality(Crash(s, part, m)) IN
          IF n >= k THEN <<s, part, m>> \in DOMAIN doc.cells /\ doc.cells[<<s, part, m>>] = n
          ELSE <<s, part, m>> \notin DOMAIN doc.cells
     /\ doc.accounting.unique
          = Cardinality({i \in DOMAIN records : /\ records[i].day \in window
                                                /\ \E s \in Streets : OnStreet(records[i], s)})
=============================================================================
