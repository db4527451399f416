---------------------------- MODULE MCAlgorithms ----------------------------
(***************************************************************************)
(* Instance for TLC: the inputs of the pure components, chosen so that     *)
(* every check and every branch of the code meets its boundary.            *)
(***************************************************************************)
EXTENDS Algorithms

\* Two cases; every accident row of them, and one that names another state.
Accident(c, s, f, ok) == [case |-> c, state |-> s, fatals |-> f, placed |-> ok]
MCAccidents == {Accident("1", "A", 1, TRUE), Accident("1", "A", 2, TRUE), Accident("1", "A", 1, FALSE),
                Accident("2", "A", 0, TRUE), Accident("2", "B", 1, TRUE)}
Person(c, s, veh, per, type, body, injury) ==
  [case |-> c, state |-> s, veh |-> veh, per |-> per, type |-> type, body |-> body, injury |-> injury]
MCPersons == {Person("1", "A", 1, 1, 1, 4, 4), Person("1", "A", 1, 2, 2, 80, 3),
              Person("1", "A", 0, 1, 5, 0, 4), Person("1", "A", 0, 2, 8, 0, 4),
              Person("2", "A", 1, 1, 9, 98, 0), Person("2", "B", 0, 1, 19, 0, 4),
              Person("2", "B", 1, 1, 6, 0, 4), Person("3", "A", 1, 1, 1, 4, 0)}
MCJoinTasks ==
  [accidents : SeqOf(MCAccidents, 2), persons : SeqOf(MCPersons, 3), regime : {"union"}]
    \cup [accidents : SeqOf(MCAccidents, 1), persons : SeqOf(MCPersons, 2), regime : {"2020", "2022"}]

\* A release that is replaced has one crash, in which the driver died, or has lost that crash.
MCCaseOrder     == [c \in {"1", "2"} |-> IF c = "2" THEN 1 ELSE 2]
MCInvalidLimits == {[num |-> 0, den |-> 1], [num |-> 1, den |-> 2]}
MCPriorArchives ==
  {[accidents |-> <<Accident("1", "A", 1, TRUE)>>,
    persons   |-> <<Person("1", "A", 1, 1, 1, 4, 4)>>, regime |-> "union"],
   [accidents |-> <<Accident("1", "A", 1, FALSE), Accident("2", "B", 1, TRUE)>>,
    persons   |-> <<Person("1", "A", 1, 1, 1, 4, 4), Person("2", "B", 0, 1, 19, 0, 4)>>,
    regime    |-> "union"]}

\* Two states; state A has codes for one county twice and a sentinel.
MCStates   == {"A", "B"}
MCCounties == [s \in MCStates |-> IF s = "A" THEN {"a1", "a2"} ELSE {"b1"}]
Kind(s, c, ms) == [state |-> s, county |-> c, modes |-> ms]
MCKinds == {Kind("A", "1", {"walk"}), Kind("A", "1", {"walk", "ride"}), Kind("A", "2", {"ride"}),
            Kind("A", "3", {"ride"}), Kind("A", "3", {"walk"}), Kind("A", "997", {"walk"}),
            Kind("B", "1", {"ride"})}
Snapshots(n) == {b \in [MCKinds -> 0..3] : SumOver(b, MCKinds) <= n}
Row(s, c, g, st) == [state |-> s, code |-> c, geoid |-> g, status |-> st]
Crosswalk(old) == {Row("A", "1", "a1", "exact"), Row("B", "1", "b1", "exact"),
                   Row("A", "3", "a2", "exact")} \cup old
MCRetired  == Crosswalk({Row("A", "2", "a1", "retired_to_current")})
MCDoubled  == Crosswalk({Row("A", "2", "a1", "exact")})
MCPending  == Crosswalk({Row("A", "2", "none", "unresolved")})
MCForeign  == Crosswalk({Row("A", "2", "b1", "retired_to_current")})
MCDocumentTasks ==
  [bag : Snapshots(5), requested : {3}, rows : {MCRetired, MCPending}, countyK : {3}]
    \cup [bag : Snapshots(4), requested : {1, 4}, rows : {MCRetired}, countyK : {3}]
    \cup [bag : Snapshots(3), requested : {3}, rows : {Crosswalk({}), MCDoubled, MCForeign}, countyK : {3}]

\* Distances around the limit 2 and the margin 1; near is what an index may return.
Crash(day, hour, ms, x, y, near) ==
  [day |-> day, hour |-> hour, modes |-> ms, near |-> near,
   dist |-> [s \in {"x", "y"} |-> IF s = "x" THEN x ELSE y]]
MCCrashes == <<Crash(5, 6, {"walk"}, 0, 2, {"x", "y"}), Crash(5, 6, {"walk", "ride"}, 2, 4, {"x"}),
               Crash(5, 9, {"ride"}, 1, 3, {"x", "y"}), Crash(5, NoHour, {}, 0, 9, {"x"}),
               Crash(5, NoHour, {"unknown", "walk"}, 0, 9, {"x", "y"}),
               Crash(5, 10, {"walk"}, 2, 3, {"x", "y"}), Crash(5, 23, {"walk"}, 3, 3, {"x", "y"}),
               Crash(5, 5, {"walk"}, 9, 9, {}), Crash(7, 6, {"walk"}, 0, 9, {"x"}),
               Crash(4, 6, {"walk"}, 0, 9, {"x"})>>
Rising == {w \in SeqOf(DOMAIN MCCrashes, 4) : \A i \in 2..Len(w) : w[i - 1] <= w[i]}
MCContextTasks ==
  {[records |-> [i \in DOMAIN w |-> MCCrashes[w[i]]], window |-> window, requested |-> k] :
     w \in Rising, window \in {5..6}, k \in {1, 3}}

MCStreetAt  == <<4, 10, 10>>
MCGazetteer == [a \in {"known"} |-> 10]
Report(day, time, at, address, token, hazard) ==
  [day |-> day, time |-> time, at |-> at, address |-> address, token |-> token, hazard |-> hazard,
   mode |-> "bike", blurred |-> FALSE]
MCBodies == {Report(5, 50, 4, "", "t", "debris"), Report(5, 51, 5, "", "t", "signal"),
             Report(5, 52, 6, "", "", "signal"), Report(6, 53, 4, "", "u", "debris"),
             Report(5, NoTime, 4, "", "t", "debris"), Report(4, 50, 4, "", "t", "debris"),
             Report(5, 51, Unset, "known", "", "debris"), Report(5, 51, Unset, "lost", "", "new")}
Numbered(bodies, ids) ==
  [i \in DOMAIN bodies |-> [id |-> ids[i], day |-> bodies[i].day, time |-> bodies[i].time,
     at |-> bodies[i].at, address |-> bodies[i].address, token |-> bodies[i].token,
     hazard |-> bodies[i].hazard, mode |-> bodies[i].mode, blurred |-> ids[i] = 1]]
MCPipelineTasks ==
  {[reports |-> Numbered(bodies, ids), first |-> window[1], last |-> window[2]] :
     bodies \in [1..3 -> MCBodies], ids \in {<<1, 2, 3>>, <<2, 3, 1>>, <<3, 2, 1>>},
     window \in {<<Open, Open>>, <<5, 5>>, <<5, Open>>}}

\* Two reports of one hazard that only have addresses, which are far from each other.
MCFarPlaces    == [a \in {"known", "lost"} |-> IF a = "known" THEN 10 ELSE 4]
MCAddressTasks ==
  {[reports |-> Numbered(<<Report(5, 50, Unset, first, "", "debris"), Report(5, 51, Unset, second, "", "debris")>>,
                         <<1, 2>>), first |-> Open, last |-> Open] :
     first \in {"known", "lost"}, second \in {"known", "lost", "nowhere"}}

Link(street, a, b) == [street |-> street, ends |-> {a, b}, spanned |-> TRUE]
Bare(street, a, b) == [Link(street, a, b) EXCEPT !.spanned = FALSE]
MCNetworks == {<<Link("1st", 2, 3), Link("1st", 1, 2), Link("1st", 3, 4), Link("1st", 5, 6)>>,
               <<Link("1st", 1, 2), Link("2nd", 2, 3), Bare("1st", 2, 4), Link("1st", 4, 5)>>,
               <<Link("1st", 1, 2), Link("1st", 2, 3), Link("1st", 3, 4), Link("1st", 4, 1)>>,
               <<Link("1st", 1, 2), Link("1st", 1, 3), Link("1st", 1, 4), Link("1st", 1, 5)>>,
               <<Link("1st", 1, 2), Link("1st", 2, 1), Link("1st", 3, 4), Link("2nd", 4, 5)>>}
MCClusterTasks ==
  {[network |-> network,
    stats |-> [p |-> p, positive |-> 1..4 \ down, alone |-> alone, count |-> count, floor |-> 3,
               alpha |-> [num |-> 20, den |-> 1]]] :
     network \in MCNetworks, p \in [1..4 -> {2, 10, 15, 25}], down \in {{}, {1}},
     alone \in {{}, {3}}, count \in {<<3, 3, 4, 5>>, <<0, 3, 2, 3>>}}

\* Three segments of which two touch; two earlier runs, and every count around both thresholds.
MCRow == <<Link("1st", 1, 2), Link("1st", 2, 3), Link("2nd", 3, 4)>>
Input(rated, hot, count, low, floor, small) ==
  [network |-> MCRow, rated |-> rated, hot |-> hot \cap rated, count |-> count,
   primary |-> [s \in 1..3 |-> IF s \in low /\ count[s] > 0 THEN count[s] - 1 ELSE count[s]],
   floor |-> floor, small |-> small]
MCEarlier == {Input(1..3, 1..3, count, {}, 4, 6) : count \in {<<4, 4, 0>>, <<0, 4, 2>>}}
MCLater == {Input(rated, hot, count, low, floor, small) :
              rated \in {1..3, {1, 2}, {}}, hot \in {1..3, {1, 2}, {}}, count \in [1..3 -> {0, 2, 4}],
              low \in {{}, {2}}, floor \in {2, 4}, small \in {4, 6}}
MCDatasetTasks ==
  [old : MCEarlier, new : MCLater, written : {1, 2}, flag : {0}]
    \cup [old : {Input(1..3, 1..3, <<4, 4, 0>>, {}, 4, 6)}, new : MCLater, written : {3}, flag : {0, 3}]

\* Streets with equal rates, equal reports and no rate; a dataset without a hotspot.
Street(id, name, rate, n, hot, parts) ==
  [id |-> id, name |-> name, rate |-> rate, n |-> n, hot |-> hot, parts |-> parts]
CityReply(rows, over, counted) ==
  [ok |-> TRUE, rows |-> rows, over |-> over, under |-> {}, counted |-> counted]
MCCityReplies ==
  {CityReply({Street(1, 3, 5, 4, TRUE, {"elm"}), Street(2, 1, 5, 7, FALSE, {}),
               Street(3, 2, Rateless, 0, FALSE, {"elm"}), Street(4, 4, 2, 7, TRUE, {}),
               Street(5, 3, 1, 2, FALSE, {})}, {1}, {}),
   CityReply({Street(1, 3, 5, 4, FALSE, {}), Street(2, 1, 9, 4, FALSE, {"elm"})}, {}, {2}),
   CityReply({}, {}, {})}
CityLink(data, name, encoded, lang) == [data |-> data, city |-> name, encoded |-> encoded, lang |-> lang]
MCCityLinks == {CityLink(<<>>, <<>>, FALSE, "es"), CityLink(<<"riverside">>, <<>>, FALSE, "en"),
                CityLink(<<"riverside">>, <<"davis">>, FALSE, "en"),
                CityLink(<<>>, <<"riverside">>, TRUE, "es")}
MCCityMessage ==
  [l \in {"en", "es", "keys"} |->
     CASE l = "en" -> <<Piece("open", "li"), Piece("link", "#data-table"), Piece("text", ""),
                        Piece("close", "a"), Piece("close", "li")>>
       [] l = "es" -> <<Piece("open", "em"), Piece("text", ""), Piece("close", "em"), Piece("close", "em")>>
       [] OTHER -> <<Piece("text", "")>>]

\* The archive of each year, and one digest with a second size.
MCArchives == {[sha |-> "A", size |-> 2], [sha |-> "B", size |-> 3], [sha |-> "A", size |-> 4]}
MCPinnedArchive == [y \in {"2023", "2024"} |->
  IF y = "2023" THEN [sha |-> "A", size |-> 2] ELSE [sha |-> "B", size |-> 3]]

\* A hotspot that stays, one that cools and one that is withheld later.
Found(significant, publishable, rate) ==
  [significant |-> significant, publishable |-> publishable, rate |-> rate]
MCBundles ==
  {<<Found(TRUE, TRUE, {5}), Found(TRUE, TRUE, {3}), Found(TRUE, FALSE, {9}), Found(FALSE, TRUE, {})>>,
   <<Found(TRUE, TRUE, {5}), Found(FALSE, TRUE, {1}), Found(TRUE, TRUE, {9})>>,
   <<Found(FALSE, FALSE, {5}), Found(TRUE, TRUE, {4}), Found(FALSE, TRUE, {}), Found(FALSE, TRUE, {})>>}

\* One source of each core kind, one of which may be old, synthetic or missing, and others.
Source(id, kind, made, updated, limit) ==
  [id |-> id, kind |-> kind, synthetic |-> made, updated |-> updated, limit |-> limit]
MCSources ==
  {{Source("x", "exposure", FALSE, 5, 2)} \cup a \cup b \cup c :
     a \in {{}, {Source("s", "streets", FALSE, 4, 3)}, {Source("x", "streets", FALSE, 4, 3)}},
     b \in {{}, {Source("i", "incidents", FALSE, 5, 1)}, {Source("i", "incidents", TRUE, 5, 9)}},
     c \in {{}, {Source("fars", "official_outcomes", FALSE, 1, 0), Source("v", "interventions", FALSE, 9, 0)}}}
    \cup {{}, {Source("s", "streets", FALSE, 4, -1)}}
MCRegistries == [sources : MCSources, quarters : {0, 2, 4, 5}, partner : SUBSET {"organization", "review"}]
Measure(tier, n) == [tier |-> tier, estimate |-> n]
MCExposure == {[s \in ss |-> m[s]] : ss \in SUBSET {"s1", "s2", "elsewhere"},
                                    m \in [{"s1", "s2", "elsewhere"} -> {Measure("observed", 2), Measure("modeled", 2),
                                                                        Measure("observed", 1)}]}
MCCoverageTasks ==
  [registry : {r \in MCRegistries : r.quarters \in 1 .. 4 /\ r.partner # {"review"}},
   input : [exposure : {e \in MCExposure : Cardinality(DOMAIN e) \in {0, 2}}, asOf : {{6}, {7}}, reports : {{}}, verified : {TRUE}]]
    \cup [registry : MCRegistries,
          input : [exposure : {<<>>}, asOf : {{}}, reports : {{}, {6}, {6, 7}}, verified : BOOLEAN]]

\* A file of tier 0 or 1, one that can reach every tier, and one that is no evidence at all.
Evidence(n, located, dated) == [rows |-> n, located |-> located, dated |-> dated]
MCEvidenceFiles == [f \in {"weak", "strong", "broken"} |->
  CASE f = "weak" -> Evidence(4, 3, 2) [] f = "strong" -> Evidence(12, 12, 12) [] OTHER -> Unparsed]
MCSampleRows == Evidence(6, 6, 6)

\* Three states of which one is withheld in each mode and year, and two links.
MCAtlasNames == <<"CA", "NY", "TX">>
MCAtlasCells ==
  [y \in {"2023", "2024"} |-> [s \in ToSet(MCAtlasNames) |->
     [m \in {"pedalcyclist", "pedestrian", "motorist"} |->
        CASE m = "pedalcyclist" -> IF s = "NY" /\ y = "2023" THEN {} ELSE {12}
          [] m = "pedestrian" -> IF s = "CA" THEN {30} ELSE IF y = "2023" THEN {} ELSE {20}
          [] OTHER -> IF s = "TX" THEN {11} ELSE {}]]]
MCAtlasLinks ==
  {Blank("2024"),
   [Blank("2023") EXCEPT !.state = "TX", !.a = "TX", !.b = "NY", !.primary = "pedestrian",
                         !.level = "state", !.saved = <<"TX", "CA">>]}

MCVersions ==
  [v \in {"old", "reviewed", "new"} |->
     [path \in {"manifest", "deployment", "404", "headers", "index", "national", "coverage"}
                 \cup (IF v = "new" THEN {"raw"} ELSE {}) |->
        CASE path \in {"manifest", "deployment"} -> v
          [] path = "index" -> IF v = "old" THEN "first" ELSE "second"
          [] path = "coverage" -> IF v = "new" THEN "third" ELSE "second"
          [] OTHER -> "same"]]
MCProbes == <<"raw", "retired">>
MCFiles == <<"404", "headers", "coverage", "deployment", "national", "index">>
=============================================================================
