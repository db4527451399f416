--------------------------- MODULE FarsDocuments ---------------------------
(***************************************************************************)
(* The aggregate documents built from one verified snapshot of joined      *)
(* records: the private national context, the public state document        *)
(* projected from it, and along the county path the feasibility counts,    *)
(* the projection through the reviewed crosswalk and the public county     *)
(* shard.  A snapshot is a bag of record kinds [state, county, modes]; a   *)
(* cell that has no crash is absent in the code and 0 here.  Digests and   *)
(* lineage bind the documents of one snapshot and are left out.            *)
(***************************************************************************)
EXTENDS Naturals, FiniteSets, FiniteSetsExt

CONSTANTS States,       \* the states a national document must cover
          ModeSet,      \* the modes of MODE_ORDER
          Reported,     \* county codes that name a county
          Sentinels,    \* county codes that do not (unknown, not reported, ...)
          Counties,     \* Counties[s]: the county identifiers of a state's boundary shard
          MinimumK,     \* FARS_NATIONAL_CONTEXT_MINIMUM_K
          PublicK       \* FARS_PUBLIC_CONTEXT_EFFECTIVE_K

ASSUME DocumentAssumption ==
  /\ {MinimumK, PublicK} \subseteq Nat \ {0} /\ MinimumK <= PublicK /\ PublicK >= 3
  /\ Reported \cap Sentinels = {}
  /\ IsFiniteSet(States) /\ IsFiniteSet(ModeSet) /\ IsFiniteSet(Reported) /\ IsFiniteSet(Sentinels)
  /\ \A s \in States : IsFiniteSet(Counties[s])

\* A record has a state and a county code of the code books and at least one mode; a review maps no
\* sentinel and no state without coverage.
RecordKinds == [state : States, county : Reported \cup Sentinels, modes : (SUBSET ModeSet) \ {{}}]

DocumentRequest(b, requested, rows, countyK) ==
  /\ IsFiniteSet(DOMAIN b) /\ DOMAIN b \subseteq RecordKinds /\ \A x \in DOMAIN b : b[x] \in Nat
  /\ requested \in Nat /\ countyK \in Nat
  /\ \A r \in rows : r.state \in States /\ r.code \in Reported

Unpublished == [unpublished |-> TRUE]
SuppressedOrZero == 0     \* the marker of a withheld cell; a published cell is positive

Crashes(b, test(_)) == MapThenSumSet(LAMBDA kind : b[kind], {x \in DOMAIN b : test(x)})
CaseCount(b) == Crashes(b, LAMBDA x : TRUE)

SumOver(cells, S) == MapThenSumSet(LAMBDA key : cells[key], S)
Positive(cells)   == {key \in DOMAIN cells : cells[key] > 0}
\* Mutant: a cell at the floor is withheld.
Above(cells, k)   == {key \in DOMAIN cells : cells[key] > k}
AtLeast(cells, k) == {key \in DOMAIN cells : cells[key] >= k}

\* One crash contributes once to each mode involved in it.
StateModeCounts(b) ==
  [key \in States \X ModeSet |->
     Crashes(b, LAMBDA x : x.state = key[1] /\ key[2] \in x.modes)]
StatesWithRecords(b) == {s \in States : \E x \in DOMAIN b : x.state = s /\ b[x] > 0}

(***************************************************************************)
(* The private national context.                                           *)
(***************************************************************************)
NationalAccounting(b, k) ==
  LET counts   == StateModeCounts(b)
      eligible == AtLeast(counts, k)
      total    == SumOver(counts, DOMAIN counts)
      shown    == SumOver(counts, eligible)
  IN [cases      |-> CaseCount(b),
      states     |-> Cardinality(StatesWithRecords(b)),
      eligibleIn |-> Cardinality({key[1] : key \in eligible}),
      positive   |-> Cardinality(Positive(counts)),
      eligible   |-> Cardinality(eligible),
      suppressed |-> Cardinality(Positive(counts)) - Cardinality(eligible),
      total      |-> total,
      shown      |-> shown,
      hidden     |-> total - shown]

NationalValid(doc) ==
  LET acc == doc.accounting IN
  /\ doc.k >= MinimumK
  /\ \A key \in DOMAIN doc.cells : doc.cells[key] \in doc.k..acc.cases
  /\ acc.eligible = Cardinality(DOMAIN doc.cells)
  /\ acc.positive = acc.eligible + acc.suppressed
  /\ acc.shown = SumOver(doc.cells, DOMAIN doc.cells)
  /\ acc.total = acc.shown + acc.hidden
  /\ acc.eligibleIn = Cardinality({key[1] : key \in DOMAIN doc.cells})
  /\ acc.eligibleIn <= acc.states /\ acc.eligibleIn <= acc.eligible
  /\ acc.states = Cardinality(States)
  /\ acc.states <= acc.cases /\ acc.states <= acc.positive
  /\ acc.positive <= acc.total /\ acc.positive <= acc.states * Cardinality(ModeSet)
  /\ acc.total \in acc.cases..(acc.cases * Cardinality(ModeSet))
  /\ IF acc.suppressed = 0 THEN acc.hidden = 0
     ELSE acc.hidden \in acc.suppressed..(acc.suppressed * Min({doc.k - 1, acc.cases}))

NationalContext(b, requested) ==
  LET k      == Max({MinimumK, requested})
      counts == StateModeCounts(b)
      doc    == [k |-> k, accounting |-> NationalAccounting(b, k),
                 cells |-> [key \in AtLeast(counts, k) |-> counts[key]]]
  IN IF StatesWithRecords(b) = States /\ NationalValid(doc) THEN doc ELSE Unpublished

(***************************************************************************)
(* The public state document: every state-mode cell is published or        *)
(* suppressed-or-zero, with the totals of both kinds.  Its validator wants *)
(* no suppressed cell or at least two.                                     *)
(***************************************************************************)
SuppressionHolds(acc) ==
  \/ acc.suppressed = 0 /\ acc.hidden = 0
  \/ acc.suppressed >= 2 /\ acc.hidden \in acc.suppressed..(acc.suppressed * (PublicK - 1))

PublicValid(doc) ==
  LET acc   == doc.accounting
      shown == {key \in DOMAIN doc.cells : doc.cells[key] # SuppressedOrZero}
  IN /\ \A key \in shown : doc.cells[key] <= acc.cases
     /\ acc.published = Cardinality(shown)
     /\ acc.positive = acc.published + acc.suppressed
     /\ acc.shown = SumOver(doc.cells, shown)
     /\ acc.total = acc.shown + acc.hidden
     /\ acc.total \in acc.cases..(acc.cases * Cardinality(ModeSet))
     /\ SuppressionHolds(acc)

(***************************************************************************)
(* The national page validates the document again before it draws it.      *)
(***************************************************************************)
PageAccountingHolds(doc, withheld) ==
  LET acc == doc.accounting IN
  /\ acc.published + Cardinality(withheld) = Cardinality(DOMAIN doc.cells)
  /\ acc.positive = acc.published + acc.suppressed
  /\ acc.suppressed <= Cardinality(withheld)
  /\ \/ acc.suppressed = 0 /\ acc.hidden = 0
     \/ acc.suppressed >= 2 /\ acc.hidden >= acc.suppressed /\ acc.hidden < acc.suppressed * PublicK
  /\ acc.total = acc.shown + acc.hidden
  /\ acc.total \in acc.cases..(acc.cases * Cardinality(ModeSet))

PageAccepts(doc) ==
  LET shown == {key \in DOMAIN doc.cells : doc.cells[key] # SuppressedOrZero} IN
  /\ DOMAIN doc.cells = States \X ModeSet
  /\ \A key \in shown : doc.cells[key] \in PublicK..doc.accounting.cases
  /\ doc.accounting.published = Cardinality(shown)
  /\ doc.accounting.shown = SumOver(doc.cells, shown)
  /\ PageAccountingHolds(doc, DOMAIN doc.cells \ shown)

(***************************************************************************)
(* The audit of a published document: the release index pins it, every     *)
(* cell clears the floor, and its totals are recomputed from its cells.    *)
(***************************************************************************)
CellsClearFloor(doc) ==
  \A key \in DOMAIN doc.cells : doc.cells[key] # SuppressedOrZero => doc.cells[key] >= PublicK

AccountingRecomputes(doc) ==
  LET shown == {key \in DOMAIN doc.cells : doc.cells[key] # SuppressedOrZero} IN
  /\ doc.accounting.published = Cardinality(shown)
  /\ doc.accounting.shown = SumOver(doc.cells, shown)
  /\ doc.accounting.shown + doc.accounting.hidden = doc.accounting.total

AuditAccepts(doc, pinned) ==
  doc = pinned /\ CellsClearFloor(doc) /\ AccountingRecomputes(doc)

(***************************************************************************)
(* The release index validates a document once more before it names it.    *)
(***************************************************************************)
IndexAccepts(doc) ==
  LET acc      == doc.accounting
      shown    == {key \in DOMAIN doc.cells : doc.cells[key] # SuppressedOrZero}
      withheld == DOMAIN doc.cells \ shown
  IN /\ DOMAIN doc.cells = States \X ModeSet
     /\ \A key \in shown : doc.cells[key] \in PublicK..acc.cases
     /\ acc.published = Cardinality(shown)
     /\ acc.positive = acc.published + acc.suppressed /\ acc.suppressed <= Cardinality(withheld)
     /\ acc.shown = SumOver(doc.cells, shown) /\ acc.total = acc.shown + acc.hidden
     /\ acc.total \in acc.cases..(acc.cases * Cardinality(ModeSet))
     /\ SuppressionHolds(acc)

PublicContext(national) ==
  LET private == national.accounting
      doc == [cells |-> [key \in States \X ModeSet |->
                           IF key \in DOMAIN national.cells THEN national.cells[key]
                           ELSE SuppressedOrZero],
              accounting |-> [cases |-> private.cases, published |-> private.eligible,
                              positive |-> private.positive,
                              suppressed |-> private.suppressed, total |-> private.total,
                              shown |-> private.shown, hidden |-> private.hidden]]
  IN IF national # Unpublished /\ national.k = PublicK /\ PublicValid(doc)
     THEN doc ELSE Unpublished

(***************************************************************************)
(* The county feasibility counts: reported counties, sentinels and the     *)
(* totals of each state and mode, which its validator adds up again.       *)
(***************************************************************************)
CountyCells(b, codes) ==
  [key \in States \X codes \X ModeSet |->
     Crashes(b, LAMBDA x : x.state = key[1] /\ x.county = key[2] /\ key[3] \in x.modes)]

FeasibilityValid(f) ==
  LET Part(cells, s, m) == SumOver(cells, {key \in DOMAIN cells : key[1] = s /\ key[3] = m})
      total == SumOver(f.totals, DOMAIN f.totals)
  IN /\ \A cells \in {f.county, f.sentinel} : \A key \in DOMAIN cells : cells[key] <= f.cases
     /\ \A s \in States, m \in ModeSet :
          f.totals[<<s, m>>] = Part(f.county, s, m) + Part(f.sentinel, s, m)
     /\ total = SumOver(f.county, DOMAIN f.county) + SumOver(f.sentinel, DOMAIN f.sentinel)
     /\ total \in f.cases..(f.cases * Cardinality(ModeSet))

Feasibility(b) ==
  LET f == [cases |-> CaseCount(b), county |-> CountyCells(b, Reported),
            sentinel |-> CountyCells(b, Sentinels), totals |-> StateModeCounts(b)]
  IN IF StatesWithRecords(b) = States /\ FeasibilityValid(f) THEN f ELSE Unpublished

(***************************************************************************)
(* The reviewed crosswalk: rows [state, code, geoid, status].  A county    *)
(* that several codes name needs a row that says a code was retired, and   *)
(* at most one exact row.  "none" is the geoid of an unresolved row.       *)
(***************************************************************************)
CrosswalkValid(rows) ==
  /\ \A r, q \in rows : r.state = q.state /\ r.code = q.code => r = q
  /\ \A r \in rows : (r.status = "unresolved") <=> (r.geoid = "none")
  /\ \A r \in rows : r.geoid # "none" =>
       LET same == {q \in rows : q.geoid = r.geoid} IN
       \/ Cardinality(same) = 1
       \/ /\ \E q \in same : q.status = "retired_to_current"
          /\ \A q \in same : q.status \in {"exact", "retired_to_current"}
          /\ Cardinality({q \in same : q.status = "exact"}) <= 1

CrosswalkResolved(rows) ==
  /\ CrosswalkValid(rows)
  /\ \A r \in rows : r.status # "unresolved"
  /\ \A r \in rows : r.geoid \in Counties[r.state]

\* The projection adds up the codes of a county; sentinels are only accounted for.
Projection(f, rows) ==
  LET used == {<<key[1], key[2]>> : key \in Positive(f.county)}
      To(s, g) == {r.code : r \in {q \in rows : q.state = s /\ q.geoid = g}}
      places == {p \in States \X UNION {Counties[s] : s \in States} : p[2] \in Counties[p[1]]}
  IN IF \/ f = Unpublished \/ ~CrosswalkResolved(rows)
        \/ ~(used \subseteq {<<r.state, r.code>> : r \in rows})
     THEN Unpublished
     ELSE [cells |-> [key \in places \X ModeSet |->
                        SumOver(f.county, {key[1][1]} \X To(key[1][1], key[1][2]) \X {key[2]})],
           sentinel |-> SumOver(f.sentinel, DOMAIN f.sentinel)]

\* Mutant: the withheld cells are those with a crash, as in the state document.
CountyShardOfPositive(p, state, k) ==
  LET cells == [key \in Counties[state] \X ModeSet |-> p.cells[<<<<state, key[1]>>, key[2]>>]]
      shown == AtLeast(cells, k)
  IN IF p = Unpublished \/ k < PublicK THEN Unpublished
     ELSE [k |-> k, counties |-> Cardinality(Counties[state]),
           published |-> Cardinality(shown),
           withheld |-> Cardinality(Positive(cells) \ shown),
           cells |-> [key \in DOMAIN cells |->
                        IF key \in shown THEN cells[key] ELSE SuppressedOrZero]]

(***************************************************************************)
(* The public county shard of a state: no total of contributions at all.   *)
(***************************************************************************)
CountyShard(p, state, k) ==
  LET cells == [key \in Counties[state] \X ModeSet |-> p.cells[<<<<state, key[1]>>, key[2]>>]]
      shown == AtLeast(cells, k)
  IN IF p = Unpublished \/ k < PublicK THEN Unpublished
     ELSE [k |-> k, counties |-> Cardinality(Counties[state]),
           published |-> Cardinality(shown),
           withheld |-> Cardinality(DOMAIN cells) - Cardinality(shown),
           cells |-> [key \in DOMAIN cells |->
                        IF key \in shown THEN cells[key] ELSE SuppressedOrZero]]

CountyShardValid(doc, state) ==
  LET shown == {key \in DOMAIN doc.cells : doc.cells[key] # SuppressedOrZero} IN
  /\ DOMAIN doc.cells = Counties[state] \X ModeSet
  /\ \A key \in shown : doc.cells[key] >= doc.k
  /\ doc.counties = Cardinality(Counties[state]) /\ doc.published = Cardinality(shown)
  /\ doc.withheld = Cardinality(DOMAIN doc.cells \ shown)

-----------------------------------------------------------------------------
(***************************************************************************)
(* All documents of a snapshot, as the release tools build them.           *)
(***************************************************************************)
Documents(b, requested, rows, countyK) ==
  LET national   == NationalContext(b, requested)
      projection == Projection(Feasibility(b), rows)
  IN [national   |-> national,
      public     |-> IF national = Unpublished THEN Unpublished ELSE PublicContext(national),
      projection |-> projection,
      shards     |-> [s \in States |-> IF projection = Unpublished THEN Unpublished
                                       ELSE CountyShard(projection, s, countyK)]]

\* The crashes of a county and mode, through every code the review maps to it.
TrueCount(b, rows, s, g, m) ==
  Crashes(b, LAMBDA x : /\ x.state = s /\ m \in x.modes
                        /\ \E r \in rows : r.state = s /\ r.code = x.county /\ r.geoid = g)

(***************************************************************************)
(* The documents tell one story.  What the county path counts, with its    *)
(* sentinels, is what the state path counts; a shown cell holds the count  *)
(* of the snapshot and a withheld one is below the floor; and the builders *)
(* refuse a national snapshot only for the reasons the reviewers gave: a   *)
(* crosswalk that does not resolve, a floor other than the public one, or  *)
(* exactly one positive cell that the totals would give away.  The page    *)
(* draws every document that is published, and the audit passes it.        *)
(***************************************************************************)
DocumentsAgree(b, requested, rows, countyK, docs) ==
  StatesWithRecords(b) = States =>
    LET counts   == StateModeCounts(b)
        k        == Max({MinimumK, requested})
        hidden   == Positive(counts) \ AtLeast(counts, k)
        resolves == /\ CrosswalkResolved(rows)
                    /\ \A x \in DOMAIN b : b[x] > 0 /\ x.county \in Reported =>
                         \E r \in rows : r.state = x.state /\ r.code = x.county
    IN /\ docs.national # Unpublished
       /\ (docs.public # Unpublished) <=> (k = PublicK /\ Cardinality(hidden) # 1)
       /\ docs.public # Unpublished =>
            \A key \in DOMAIN counts :
              IF counts[key] >= PublicK THEN docs.public.cells[key] = counts[key]
              ELSE docs.public.cells[key] = SuppressedOrZero
       /\ docs.public # Unpublished => /\ PageAccepts(docs.public) /\ IndexAccepts(docs.public)
                                      /\ AuditAccepts(docs.public, docs.public)
       /\ (docs.projection # Unpublished) <=> resolves
       /\ docs.projection # Unpublished =>
            /\ SumOver(docs.projection.cells, DOMAIN docs.projection.cells)
                 + docs.projection.sentinel = SumOver(counts, DOMAIN counts)
            /\ \A s \in States : docs.shards[s] # Unpublished =>
                 /\ CountyShardValid(docs.shards[s], s)
                 /\ \A g \in Counties[s], m \in ModeSet :
                   LET n == TrueCount(b, rows, s, g, m) IN
                   docs.shards[s].cells[<<g, m>>]
                     = IF n >= countyK THEN n ELSE SuppressedOrZero

\* The snapshots that differ from this one in one crash: it is added, removed or another one.
Added(b, x) ==
  [y \in DOMAIN b \cup {x} |-> IF y # x THEN b[y] ELSE IF x \in DOMAIN b THEN b[x] + 1 ELSE 1]
Removed(b, x) == [b EXCEPT ![x] = @ - 1]
OneCrashApart(b) ==
  LET fewer == {Removed(b, x) : x \in {y \in DOMAIN b : b[y] > 0}}
  IN fewer \cup {Added(c, x) : c \in {b} \cup fewer, x \in RecordKinds}

(***************************************************************************)
(* A county shard tells nothing about a withheld cell beyond the floor:    *)
(* the count of any county that the review can reach could be another one, *)
(* in a snapshot with the same shard that differs in one crash.            *)
(***************************************************************************)
ShardKeepsWithheld(b, rows, s, countyK, doc) ==
  LET ShardOf(c) == CountyShard(Projection(Feasibility(c), rows), s, countyK)
  IN doc # Unpublished =>
       \A g \in Counties[s], m \in ModeSet :
         doc.cells[<<g, m>>] = SuppressedOrZero /\ (\E r \in rows : r.state = s /\ r.geoid = g) =>
           \E c \in OneCrashApart(b) : /\ TrueCount(c, rows, s, g, m) # TrueCount(b, rows, s, g, m)
                                    /\ ShardOf(c) = doc
=============================================================================
