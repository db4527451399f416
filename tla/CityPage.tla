------------------------------ MODULE CityPage ------------------------------
(***************************************************************************)
(* The page of one city (web/app.js): its dataset is fetched behind two    *)
(* language catalogs, and the reader sorts, filters, prints and switches   *)
(* the language while they arrive.  A panel keeps what it was last drawn   *)
(* with, so each is recorded with its content and the language of its      *)
(* words.                                                                  *)
(***************************************************************************)
EXTENDS Integers, FiniteSets, Sequences, SequencesExt, Orderings

CONSTANTS CityLinks,     \* the queries the page is opened with: [data, city, encoded, lang]
          CityReplies,   \* what the server sends: [ok, rows, over, under, counted]
          CityMessage,   \* CityMessage[lang]: the pieces of a translated sentence
          SafeLinks,     \* the targets a translated link may have
          MaxCityEvents  \* a bound of the instance

CityLanguages == {"en", "es"}
Rateless == -1
CitySorts == {"name", "rate", "n"}
CityStreets == [id : Int, name : Int, rate : Int, n : Int, hot : BOOLEAN, parts : SUBSET STRING]
Pieces == Seq([kind : {"text", "open", "link", "close"}, tag : STRING])

\* The streets of a dataset have different ids, and one that is significant has a rate.
ASSUME CityPageAssumption ==
  /\ \A reply \in CityReplies :
       /\ IsFiniteSet(reply.rows) /\ reply.rows \subseteq CityStreets
       /\ \A r, s \in reply.rows : r.id = s.id => r = s
       /\ \A r \in reply.rows : r.hot => r.rate # Rateless
  /\ \A link \in CityLinks : link.lang \in CityLanguages /\ {link.data, link.city} \subseteq Seq(STRING)
  /\ CityMessage \in [CityLanguages \cup {"keys"} -> Pieces] /\ MaxCityEvents \in Nat

VARIABLE city

\* A selector that is given twice, in both ways or encoded is no selector.
DatasetSlug(link) ==
  LET given == link.data \o link.city
  IN IF Len(given) = 1 /\ ~link.encoded /\ given[1] # "invalid" THEN given[1] ELSE "davis"
DatasetUrl(link) == IF DatasetSlug(link) = "riverside" THEN "riverside" ELSE "davis"

\* A message in the current language, else in English, else its key.
MessageIn(catalog, current) ==
  CASE catalog[current] = "full" -> current
    [] catalog[current] # "full" /\ catalog["en"] = "full" -> "en"
    [] OTHER -> "keys"
Words(c) == MessageIn(c.catalog, c.current)

Piece(kind, tag) == [kind |-> kind, tag |-> tag]

\* The marks of a sentence, as a walk over its pieces with the stack of what is open.
Walk(w, piece) ==
  CASE w.failed \/ piece.kind = "text" -> w
    [] piece.kind = "close" /\ w.open # <<>> /\ Last(w.open) = piece.tag /\ ~w.failed ->
         [w EXCEPT !.open = Front(@)]
    [] piece.kind = "open" /\ ~w.failed /\ (piece.tag = "li" => w.open = <<>>) ->
         [w EXCEPT !.open = Append(@, piece.tag)]
    [] piece.kind = "link" /\ ~w.failed /\ piece.tag \in SafeLinks ->
         [w EXCEPT !.open = Append(@, "a")]
    [] OTHER -> [w EXCEPT !.failed = TRUE]

\* Marked, or the whole sentence with its marks as text.
RenderTranslation(pieces) ==
  LET walk[i \in 0 .. Len(pieces)] ==
        IF i = 0 THEN [open |-> <<>>, failed |-> FALSE] ELSE Walk(walk[i - 1], pieces[i])
      w == walk[Len(pieces)]
  IN IF w.failed \/ w.open # <<>> THEN [plain |-> pieces] ELSE [marked |-> pieces]

HasRate(row) == row.rate # Rateless
RatedStreets(c) == {row \in c.rows : HasRate(row)}
HotRows(c) == {row \in RatedStreets(c) : row.hot}
Top(rows, k) == SubSeq(rows, 1, IF Len(rows) < k THEN Len(rows) ELSE k)

\* A sort by name moves only the streets whose names differ: equal ones stay in the order of the
\* last sort by a number, which is kept with it.
Resort(c, key, asc) ==
  IF key = "name" /\ c.stage = "shown" THEN <<key, asc, c.sort[3], c.sort[4]>> ELSE <<key, asc, key, asc>>

\* The order of compare(key, dir) on the rows as they are: a missing rate is the lowest, and
\* equal numbers go by the id.
Lower(a, b, asc) == IF asc THEN a < b ELSE a > b
Ahead(sort, r, s) ==
  \/ Lower(r[sort[1]], s[sort[1]], sort[2])
  \/ r[sort[1]] = s[sort[1]] /\ Lower(r[sort[3]], s[sort[3]], sort[4])
  \/ r[sort[1]] = s[sort[1]] /\ r[sort[3]] = s[sort[3]] /\ r.id < s.id
Sorted(rows, sort) == InOrder(rows, {p \in rows \X rows : Ahead(sort, p[1], p[2])})

\* Worst first; the sort is stable.
ByRate(rows, sort) ==
  InOrder(rows, {p \in rows \X rows : IF p[1].rate = p[2].rate THEN Ahead(sort, p[1], p[2])
                                      ELSE p[1].rate > p[2].rate})

\* The panels ---------------------------------------------------------------------------------
MatchesFilter(c, row) == c.filter = "" \/ c.filter \in row.parts

TableDrawn(c) ==
  [rows |-> Sorted({row \in RatedStreets(c) : MatchesFilter(c, row)}, c.sort),
   of |-> Cardinality(RatedStreets(c)), words |-> Words(c)]

\* The busiest street is the first of those with the most reports.
Busiest(c) ==
  CHOOSE b \in RatedStreets(c) :
    \A r \in RatedStreets(c) \ {b} : r.n < b.n \/ (r.n = b.n /\ Ahead(c.sort, b, r))

MapsDrawn(c) ==
  IF RatedStreets(c) = {} THEN [streets |-> 0, busiest |-> 0, hot |-> {}, words |-> Words(c)]
  ELSE [streets |-> Cardinality(c.rows), busiest |-> Busiest(c).id,
        hot |-> {row.id : row \in HotRows(c)}, words |-> Words(c)]

HotspotSummary(c) ==
  IF c.rows = {} THEN c.summary ELSE [links |-> ByRate(HotRows(c), c.sort), words |-> Words(c)]

BottomLine(c) ==
  IF c.rows = {} THEN c.bottom
  ELSE [hot |-> Cardinality(HotRows(c)), of |-> Cardinality(RatedStreets(c)),
        top |-> IF HotRows(c) = {} THEN <<>> ELSE Top(ByRate(RatedStreets(c), c.sort), 3),
        words |-> Words(c)]

BiasPanel(c) ==
  IF c.reply.over \cup c.reply.under = {} THEN [hidden |-> TRUE]
  ELSE [over |-> c.reply.over, under |-> c.reply.under, words |-> Words(c)]

Download(c) ==
  IF c.rows = {} THEN [from |-> c.url]
  ELSE [from |-> c.url, words |-> Words(c),
        counted |-> IF c.reply.counted = {} THEN Cardinality(RatedStreets(c))
                    ELSE CHOOSE n \in c.reply.counted : TRUE]

ShareCard(c) ==
  [hot |-> Cardinality(HotRows(c)),
   top |-> Top(ByRate(IF HotRows(c) = {} THEN RatedStreets(c) ELSE HotRows(c), c.sort), 3)]

\* The widget lists what is significant, rated or not (embed.js).
EmbedHotspots(c) == ByRate({row \in c.rows : row.hot}, c.sort)

\* applyI18n, and the panels that need no rows.
Translated(c) ==
  LET spoken == [c EXCEPT !.current = c.lang]
  IN [spoken EXCEPT !.static = [text |-> RenderTranslation(CityMessage[Words(spoken)]),
                                words |-> Words(spoken)]]

Summarized(c) ==
  [c EXCEPT !.summary = HotspotSummary(c), !.bottom = BottomLine(c), !.bias = BiasPanel(c),
            !.download = Download(c)]

Tabled(c) == [c EXCEPT !.table = TableDrawn(c)]
-----------------------------------------------------------------------------
NoReply == [ok |-> FALSE, rows |-> {}, over |-> {}, under |-> {}, counted |-> {}]
Undrawn == [undrawn |-> TRUE]

CityInit ==
  \E link \in CityLinks :
    city = [stage |-> "en", url |-> DatasetUrl(link), link |-> link, lang |-> link.lang,
            current |-> "en", asked |-> [l \in CityLanguages |-> 0],
            catalog |-> [l \in CityLanguages |-> "none"], reply |-> NoReply, rows |-> {},
            filter |-> "", input |-> "", sort |-> <<>>, view |-> "both", pressed |-> "both",
            saved |-> {}, began |-> {}, ended |-> {},
            static |-> Undrawn, table |-> Undrawn, maps |-> Undrawn, summary |-> Undrawn,
            bottom |-> Undrawn, bias |-> Undrawn, download |-> Undrawn, events |-> 0]

\* The catalog is fetched once, and one that fails is empty.
Fetched(c, l, outcome) == [c EXCEPT !.catalog[l] = outcome]

Booted(c) == [Translated(c) EXCEPT !.stage = "data"]
BootEnglish(outcome) ==
  /\ city.stage = "en"
  /\ LET c == Fetched(city, "en", outcome)
     IN city' = IF c.catalog[c.lang] # "none" THEN Booted(c) ELSE [c EXCEPT !.stage = c.lang]
BootLanguage(l, outcome) ==
  /\ city.stage = l /\ l # "en"
  /\ city' = Booted(Fetched(city, l, outcome))

LoadDataset(reply) ==
  /\ city.stage = "data" /\ reply.ok
  /\ LET c == [city EXCEPT !.stage = "shown", !.reply = reply, !.sort = Resort(city, "rate", FALSE),
                           !.rows = reply.rows]
     IN city' = Summarized([Tabled(c) EXCEPT !.maps = MapsDrawn(c)])

FailDataset ==
  /\ city.stage = "data"
  /\ city' = [city EXCEPT !.stage = "failed", !.table = [failed |-> Words(city)],
                          !.maps = [failed |-> Words(city)]]

\* What a reader does while no print is under way.
CityEvent(c) ==
  /\ city.events < MaxCityEvents /\ city.began = {}
  /\ city' = [c EXCEPT !.events = @ + 1]

SortBy(key) ==
  LET asc == city.sort = <<>> \/ SubSeq(city.sort, 1, 2) # <<key, TRUE>>
  IN CityEvent(Tabled([city EXCEPT !.sort = Resort(city, key, asc)]))
FilterBy(text) == CityEvent(Tabled([city EXCEPT !.filter = text, !.input = text]))
ToggleMaps(view) == CityEvent([city EXCEPT !.view = view, !.pressed = view])

\* A catalog that is there is not fetched again, and the switch is at once.
Switched(c, l) ==
  LET s == Summarized(Translated([c EXCEPT !.lang = l]))
  IN IF c.rows = {} THEN s ELSE [Tabled(s) EXCEPT !.maps = MapsDrawn(s)]
AskLanguage(l) ==
  CityEvent(IF city.catalog[l] = "none" THEN [city EXCEPT !.asked[l] = @ + 1] ELSE Switched(city, l))
LanguageArrives(l, outcome) ==
  /\ city.asked[l] > 0
  /\ city' = Switched(Fetched([city EXCEPT !.asked[l] = @ - 1], l, outcome), l)

\* The engine tells of a print by the event, by the media query, or by both in either order.
PrintSignals == {"event", "media"}

BeginPrint(signal) ==
  /\ signal \notin city.began /\ city.ended = {}
  /\ LET begun == [city EXCEPT !.began = @ \cup {signal}]
         c == [begun EXCEPT !.saved = {[view |-> city.view, filter |-> city.filter]}, !.view = "both",
                            !.filter = "", !.input = ""]
     IN city' = IF city.saved # {} THEN begun ELSE IF city.filter = "" THEN c ELSE Tabled(c)

EndPrint(signal) ==
  /\ signal \in city.began \ city.ended
  /\ LET over == city.began = city.ended \cup {signal}
         e == [city EXCEPT !.began = IF over THEN {} ELSE @,
                           !.ended = IF over THEN {} ELSE @ \cup {signal}, !.saved = {}]
     IN city' = IF city.saved = {} THEN e
                ELSE LET saved == CHOOSE s \in city.saved : TRUE
                         c == [e EXCEPT !.view = saved.view]
                     IN IF saved.filter = "" THEN c
                        ELSE Tabled([c EXCEPT !.filter = saved.filter, !.input = saved.filter])

CityNext ==
  \/ \E outcome \in {"full", "empty"} :
       BootEnglish(outcome) \/ \E l \in CityLanguages : BootLanguage(l, outcome) \/ LanguageArrives(l, outcome)
  \/ \E reply \in CityReplies : LoadDataset(reply)
  \/ FailDataset
  \/ \E key \in CitySorts : SortBy(key)
  \/ \E text \in {"", "elm"} : FilterBy(text)
  \/ \E view \in {"both", "reports", "rate"} : ToggleMaps(view)
  \/ \E l \in CityLanguages : AskLanguage(l)
  \/ \E signal \in PrintSignals : BeginPrint(signal) \/ EndPrint(signal)
-----------------------------------------------------------------------------
\* The table has every rated street that the filter box leaves, once, in the order its header
\* announces, and says of how many it is (renderTable, setSortState and compare in web/app.js).
TableIsAuthoritative ==
  city.stage = "shown" =>
    LET rated == {row \in city.reply.rows : row.rate # Rateless}
        shown == city.table.rows
        key   == city.sort[1]
    IN /\ ToSet(shown) = {row \in rated : city.input = "" \/ city.input \in row.parts}
       /\ IsInjective(shown) /\ city.table.of = Cardinality(rated)
       /\ \A i, j \in DOMAIN shown :
            i < j => IF city.sort[2] THEN shown[i][key] <= shown[j][key] ELSE shown[i][key] >= shown[j][key]

\* No street that is left out of the list is worse than one in it.
Worst(list, rows) == /\ ToSet(list) \subseteq rows
                     /\ \A i \in DOMAIN list, row \in rows \ ToSet(list) : row.rate <= list[i].rate

\* The maps, the summary, the bottom line, the card and the widget tell of the same hotspots: the summary links
\* each once, worst first, and no street left out of a list of the worst is worse than one in it
\* (renderMaps, applyHotspotSummary and applyBottomLine in web/app.js, share-card.js, embed.js).
HotspotsAgree ==
  city.stage = "shown" /\ city.rows # {} =>
    LET rated == {row \in city.reply.rows : row.rate # Rateless}
        hot   == {row \in rated : row.hot}
        card  == ShareCard(city)
    IN /\ city.maps.hot = {row.id : row \in hot} /\ {ToSet(city.summary.links), ToSet(EmbedHotspots(city))} = {hot}
       /\ Len(city.summary.links) = Cardinality(hot)
       /\ {city.bottom.hot, card.hot} = {Cardinality(hot)} /\ city.bottom.of = Cardinality(rated)
       /\ Worst(city.bottom.top, rated) /\ Worst(card.top, IF hot = {} THEN rated ELSE hot)
       /\ rated # {} => \E row \in rated : row.id = city.maps.busiest /\ \A r \in rated : r.n <= row.n

\* Every panel is in the language of the page, whichever catalog came first or failed
\* (wireLangSwitch in web/app.js, create in i18n.js).
OneLanguage ==
  city.stage = "shown" /\ city.rows # {} =>
    /\ LET panels == <<city.static, city.table, city.maps, city.summary, city.bottom, city.download>>
       IN \A i \in DOMAIN panels : panels[i].words = Words(city)
    /\ "hidden" \in DOMAIN city.bias \/ city.bias.words = Words(city)
    /\ city.current = city.lang

\* A print shows everything, and after it the reader's filter and view are back, whichever signals
\* the engine gave (wirePrint in web/app.js).
PrintIsComplete ==
  /\ city.saved # {} =>
       city.view = "both" /\ (city.stage = "shown" => Len(city.table.rows) = city.table.of)
  /\ city.began = {} => city.view = city.pressed
  /\ city.filter = city.input

\* A translation is marked only when its marks nest, and an ambiguous query gets the default city
\* (renderTranslation, resolveDatasetSlug in web/app.js).
CityFailsClosed ==
  /\ city.static # Undrawn /\ "marked" \in DOMAIN city.static.text =>
       \A i \in DOMAIN city.static.text.marked :
         LET marks(kinds) == Cardinality({j \in 1..i : city.static.text.marked[j].kind \in kinds})
         IN marks({"close"}) <= marks({"open", "link"})
  /\ city.url = "riverside" => ToSet(city.link.data \o city.link.city) = {"riverside"}

CityPageTruthful ==
  TableIsAuthoritative /\ HotspotsAgree /\ OneLanguage /\ PrintIsComplete /\ CityFailsClosed
=============================================================================
