----------------------------- MODULE AtlasViews -----------------------------
(***************************************************************************)
(* The view of the national page: what is selected, how the panels draw    *)
(* it, and the URL that is copied, sent and opened again.  The artifact of *)
(* the selected year is there at once; how artifacts arrive late is        *)
(* CoveragePage.                                                           *)
(*                                                                         *)
(* A handler changes the view, has it drawn, which normalizes it, and      *)
(* writes the URL, in an order of its own.  The URL omits what it takes    *)
(* for a default, and the page that opens it has to guess the same.        *)
(***************************************************************************)
EXTENDS Naturals, FiniteSets, Sequences, SequencesExt, Orderings

CONSTANTS AtlasCells,       \* AtlasCells[year][state][mode]: {count}, or {} when it is withheld
          AtlasNames,       \* the states in the order of their names
          AtlasModes,       \* the modes, with "pedalcyclist" and "pedestrian"
          AtlasLinks,       \* the views whose links are opened first
          AtlasDefaultYear, \* the newest year
          MaxSaved,         \* 4 in the code
          MaxAtlasEvents    \* a bound of the instance

AtlasStates == ToSet(AtlasNames)
AtlasYears  == DOMAIN AtlasCells
Nowhere     == ""
Omitted     == "omitted"

\* What is saved of a state once, and what a link may ask for.
Briefs == {s \in UNION {[1 .. n -> AtlasStates] : n \in 0 .. MaxSaved} : IsInjective(s)}

Views ==
  {v \in [year : AtlasYears, panel : {"map", "rank", "compare"}, level : {"national", "state"},
          primary : AtlasModes, secondary : AtlasModes, state : AtlasStates \cup {Nowhere},
          a : AtlasStates \cup {Nowhere}, b : AtlasStates \cup {Nowhere},
          scale : {"linear", "log"}, saved : Briefs] :
     v.level = "state" => v.state # Nowhere}

ASSUME AtlasAssumption ==
  /\ AtlasNames \in Seq(STRING) /\ IsInjective(AtlasNames) /\ {"CA", "TX"} \subseteq AtlasStates
  /\ {"pedalcyclist", "pedestrian"} \subseteq AtlasModes
  /\ {Nowhere, Omitted} \cap (AtlasStates \cup AtlasModes) = {}
  /\ AtlasDefaultYear \in AtlasYears /\ {MaxSaved, MaxAtlasEvents} \subseteq Nat
  /\ \A y \in AtlasYears, s \in AtlasStates, m \in AtlasModes :
       AtlasCells[y][s][m] \subseteq Nat /\ \A n, k \in AtlasCells[y][s][m] : n = k
  /\ AtlasLinks \subseteq Views

VARIABLE atlas    \* [view, history, at, events]

Blank(year) ==
  [year |-> year, panel |-> "map", level |-> "national", primary |-> "pedalcyclist",
   secondary |-> "pedestrian", state |-> Nowhere, a |-> Nowhere, b |-> Nowhere, scale |-> "linear",
   saved |-> <<>>]

Omit(value, default)  == IF value \in {default, Nowhere} THEN Omitted ELSE value
Given(value, default) == IF value = Omitted THEN default ELSE value

ViewLink(v) ==
  [year |-> v.year, panel |-> Omit(v.panel, "map"), level |-> Omit(v.level, "national"),
   primary |-> Omit(v.primary, "pedalcyclist"), secondary |-> Omit(v.secondary, "pedestrian"),
   state |-> Omit(v.state, Nowhere), a |-> Omit(v.a, "CA"), b |-> Omit(v.b, "TX"),
   scale |-> Omit(v.scale, "linear"), saved |-> v.saved]

RestoreView(link) ==
  [year |-> link.year, panel |-> Given(link.panel, "map"), level |-> Given(link.level, "national"),
   primary |-> Given(link.primary, "pedalcyclist"), secondary |-> Given(link.secondary, "pedestrian"),
   state |-> Given(link.state, Nowhere), a |-> Given(link.a, Given(link.state, Nowhere)),
   b |-> Given(link.b, Nowhere), scale |-> Given(link.scale, "linear"), saved |-> link.saved]

\* The plot has two different modes.
SecondaryMode(primary, secondary) ==
  CASE secondary # primary -> secondary
    [] secondary = primary /\ primary = "pedestrian" -> "pedalcyclist"
    [] OTHER -> "pedestrian"

Normalize(v) ==
  LET a == CASE v.a # Nowhere -> v.a [] v.a = Nowhere /\ v.state # Nowhere -> v.state [] OTHER -> "CA"
      b == IF v.b = Nowhere THEN "TX" ELSE v.b
  IN [v EXCEPT !.level = IF v.state = Nowhere THEN "national" ELSE @, !.a = a,
               !.b = CASE b # a -> b [] b = a /\ a = "TX" -> "CA" [] OTHER -> "TX",
               !.secondary = SecondaryMode(v.primary, @)]

AtlasEvent(v, history, at) ==
  /\ atlas.events < MaxAtlasEvents
  /\ atlas' = [view |-> v, history |-> history, at |-> at, events |-> atlas.events + 1]

Written(v) == [atlas.history EXCEPT ![atlas.at] = ViewLink(v)]
Replace(v, written) == AtlasEvent(v, Written(written), atlas.at)
Push(v) == AtlasEvent(v, Append(SubSeq(atlas.history, 1, atlas.at), ViewLink(v)), atlas.at + 1)

\* Drawn and then written, as most handlers do it.
Draw(v) == Replace(Normalize(v), Normalize(v))

ShowYear(year) ==
  LET v == [atlas.view EXCEPT !.year = year] IN Replace(Normalize(v), v)

\* Mutant: the comparison does not follow the filter.
FilterStateOnly(state) ==
  LET v == [atlas.view EXCEPT !.state = state, !.level = IF state = Nowhere THEN "national" ELSE @]
  IN Replace(Normalize(v), v)

\* The state filter writes before anything is drawn.
FilterState(state) ==
  LET v == [atlas.view EXCEPT !.state = state, !.level = IF state = Nowhere THEN "national" ELSE @,
                              !.a = IF state = Nowhere THEN @ ELSE state]
  IN Replace(Normalize(v), v)

FilterMode(mode) == Draw([atlas.view EXCEPT !.primary = mode])

\* A panel is switched without drawing.
ShowPanel(panel) == LET v == [atlas.view EXCEPT !.panel = panel] IN Replace(v, v)

ShowSecondary(mode) ==
  LET v == [atlas.view EXCEPT !.secondary = SecondaryMode(atlas.view.primary, mode)] IN Replace(v, v)

ShowScale(scale) == LET v == [atlas.view EXCEPT !.scale = scale] IN Replace(v, v)

CompareFirst(state)  == Draw([atlas.view EXCEPT !.a = state, !.state = state])
CompareSecond(state) == Draw([atlas.view EXCEPT !.b = state])
CompareWith ==
  /\ atlas.view.state # Nowhere
  /\ Draw([atlas.view EXCEPT !.a = atlas.view.state, !.panel = "compare"])

PickState(state, mode, openLens) ==
  LET v == Normalize([atlas.view EXCEPT !.state = state, !.a = state, !.primary = mode,
                                        !.level = IF openLens THEN "state" ELSE @])
  IN IF openLens THEN Push(v) ELSE Replace(v, v)

LeaveLens ==
  /\ atlas.view.level = "state"
  /\ Push(Normalize([atlas.view EXCEPT !.level = "national"]))

\* What is saved already, or is one too many, is left out.
SaveState(saved, state) ==
  IF state = Nowhere \/ Contains(saved, state) THEN saved
  ELSE IF Len(saved) < MaxSaved THEN Append(saved, state) ELSE saved

SaveSelected ==
  LET v == [atlas.view EXCEPT !.saved = SaveState(@, atlas.view.state)]
  IN atlas.view.state # Nowhere /\ Replace(v, v)

SaveComparison ==
  LET v == [atlas.view EXCEPT !.saved = SaveState(SaveState(@, atlas.view.a), atlas.view.b)]
  IN Replace(v, v)

\* What is left keeps its order.
Left(saved, states) ==
  LET left == {i \in DOMAIN saved : saved[i] \notin states}
      order == InOrder(left, {p \in left \X left : p[1] < p[2]})
  IN [k \in DOMAIN order |-> saved[order[k]]]

RemoveSaved(states) ==
  LET v == [atlas.view EXCEPT !.saved = Left(@, states)] IN Replace(v, v)

\* The reset keeps what is saved; the default year is loaded and then drawn.
ResetView(year) ==
  LET v == [Blank(year) EXCEPT !.saved = atlas.view.saved] IN Replace(Normalize(v), v)

\* Back and forward draw and do not write; a page that is opened draws and then writes.
WalkHistory(at) == AtlasEvent(Normalize(RestoreView(atlas.history[at])), atlas.history, at)

OpenLink ==
  LET v == Normalize(RestoreView(atlas.history[atlas.at])) IN Replace(v, v)

AtlasInit ==
  \E v \in AtlasLinks :
    LET opened == Normalize(RestoreView(ViewLink(v)))
    IN atlas = [view |-> opened, history |-> <<ViewLink(opened)>>, at |-> 1, events |-> 0]

AtlasNext ==
  \/ \E y \in AtlasYears : ShowYear(y)
  \/ \E s \in AtlasStates \cup {Nowhere} : FilterState(s) \/ CompareFirst(s) \/ CompareSecond(s)
  \/ \E m \in AtlasModes : FilterMode(m) \/ ShowSecondary(m)
  \/ \E p \in {"map", "rank", "compare"} : ShowPanel(p)
  \/ \E scale \in {"linear", "log"} : ShowScale(scale)
  \/ \E s \in AtlasStates, m \in AtlasModes, openLens \in BOOLEAN : PickState(s, m, openLens)
  \/ CompareWith \/ LeaveLens \/ SaveSelected \/ SaveComparison
  \/ \E s \in AtlasStates : RemoveSaved({s})
  \/ RemoveSaved(AtlasStates)
  \/ ResetView(AtlasDefaultYear) \/ OpenLink
  \/ \E at \in {atlas.at - 1, atlas.at + 1} \cap DOMAIN atlas.history : WalkHistory(at)
-----------------------------------------------------------------------------
(***************************************************************************)
(* What the panels draw of a view.                                         *)
(***************************************************************************)
Cell(v, s, m) == AtlasCells[v.year][s][m]

ShownStates(v, m) == {s \in AtlasStates : Cell(v, s, m) # {}}

\* The largest published count, of which a mark is a share.
Scale(v, m) == CHOOSE n \in UNION {Cell(v, s, m) : s \in AtlasStates} \cup {1} :
                 \A k \in UNION {Cell(v, s, m) : s \in AtlasStates} \cup {1} : k <= n

NamePlace(s) == CHOOSE i \in DOMAIN AtlasNames : AtlasNames[i] = s

\* By count, and by name where counts are equal.
Precedes(v) ==
  {p \in AtlasStates \X AtlasStates :
     \E n \in Cell(v, p[1], v.primary), k \in Cell(v, p[2], v.primary) :
        n > k \/ (n = k /\ NamePlace(p[1]) < NamePlace(p[2]))}

RankedRows(v) == InOrder(ShownStates(v, v.primary), Precedes(v))

\* A count, and the largest count of which it is drawn as a share.
Mark(v, s, m) == [count |-> Cell(v, s, m), of |-> {Scale(v, m) : n \in Cell(v, s, m)}]

MapPanel(v)    == [s \in AtlasStates |-> Mark(v, s, v.primary)]
MatrixPanel(v) == [s \in AtlasStates |-> [m \in AtlasModes |-> Mark(v, s, m)]]

RankPanel(v) ==
  LET ranked == RankedRows(v)
  IN [rows |-> [i \in DOMAIN ranked |-> [state |-> ranked[i], mark |-> Mark(v, ranked[i], v.primary)]],
      unranked |-> AtlasStates \ ToSet(ranked)]

ScatterPanel(v) ==
  [s \in ShownStates(v, v.primary) \cap ShownStates(v, v.secondary) |->
     <<Cell(v, s, v.primary), Cell(v, s, v.secondary)>>]

ComparisonPanel(v) == [m \in AtlasModes |-> <<Cell(v, v.a, m), Cell(v, v.b, m)>>]

\* The place in the ranking, where the selected cell is published.
RankNote(v) ==
  LET ranked == RankedRows(v)
  IN {[rank |-> i, total |-> Len(ranked)] : i \in {j \in DOMAIN ranked : ranked[j] = v.state}}

InspectorPanel(v) ==
  [m \in IF v.state = Nowhere THEN {} ELSE AtlasModes |-> Cell(v, v.state, m)]

\* The selected state alone: its modes, and its years on a scale of their own.
LensPanel(v) ==
  [fingerprint |-> [m \in AtlasModes |-> Mark(v, v.state, m)],
   years |-> [y \in AtlasYears |-> AtlasCells[y][v.state][v.primary]],
   note  |-> RankNote(v)]

BriefPanel(v) == [i \in DOMAIN v.saved |-> Cell(v, v.saved[i], v.primary)]

TablePanel(v) ==
  [s \in IF v.state = Nowhere THEN AtlasStates ELSE {v.state} |-> [m \in AtlasModes |-> Cell(v, s, m)]]

(***************************************************************************)
(* The URL in the address bar, opened by somebody else, gives the view     *)
(* that is on the screen, whatever was clicked before and whichever        *)
(* handler wrote it; the language is left out, which a step through the    *)
(* history does not restore.                                               *)
(***************************************************************************)
LinkRestores == Normalize(RestoreView(atlas.history[atlas.at])) = atlas.view

(***************************************************************************)
(* No panel compares a thing with itself; a brief has each state once; a   *)
(* state with a larger count is ranked before one with a smaller count,    *)
(* the place that is told of a state is its place in the ranking, among as *)
(* many as the map shows; the lens says of the selected year what the      *)
(* inspector says; and a cell that is withheld has a place in no ranking   *)
(* and no plot, and no mark.                                               *)
(***************************************************************************)
PanelsTruthful ==
  LET v == atlas.view
      rank == RankPanel(v)
      order == [i \in DOMAIN rank.rows |-> rank.rows[i].state]
      above(s) == {t \in AtlasStates :
                     \E n \in Cell(v, t, v.primary), k \in Cell(v, s, v.primary) : n > k}
      marked == {s \in AtlasStates : MapPanel(v)[s].of # {}}
  IN /\ v.a # v.b /\ v.primary # v.secondary
     /\ Len(v.saved) <= MaxSaved /\ IsInjective(v.saved)
     /\ \A i \in DOMAIN order : above(order[i]) \subseteq ToSet(SubSeq(order, 1, i - 1))
     /\ ToSet(order) = marked /\ rank.unranked = AtlasStates \ marked
     /\ \A note \in RankNote(v) :
          note.total = Cardinality(marked) /\ order[note.rank] = v.state
     /\ DOMAIN ScatterPanel(v) \subseteq marked
     /\ \A s \in DOMAIN ScatterPanel(v) : MatrixPanel(v)[s][v.secondary].of # {}
     /\ v.level = "state" =>
          /\ v.state # Nowhere
          /\ LensPanel(v).years[v.year] = InspectorPanel(v)[v.primary]
          /\ LensPanel(v).note # {} <=> v.state \in marked
          /\ LensPanel(v).fingerprint = MatrixPanel(v)[v.state]
     /\ \A i \in DOMAIN v.saved :
          LET s == v.saved[i]
          IN BriefPanel(v)[i] = TablePanel([v EXCEPT !.state = s])[s][v.primary]
=============================================================================
