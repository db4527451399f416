--------------------------- MODULE YearContracts ---------------------------
(***************************************************************************)
(* The registry of reviewed annual sources (fars_year_contracts.py): a     *)
(* history of contracts for each year, each bound to the digest of the one *)
(* before it.  A maintainer appends a revision or amends one, and the      *)
(* module is imported only when the whole registry is valid.  A digest     *)
(* names exactly one contract, so it is the contract itself, and what a    *)
(* year fixes for good (address, members, encodings, semantic regime, code *)
(* systems, row bounds) is its profile.                                    *)
(***************************************************************************)
EXTENDS Naturals, FiniteSets, Sequences, SequencesExt

CONSTANTS ContractYears,   \* the supported years
          ArfYear,         \* the year of the reviewed correction, 2024
          Archives,        \* [sha, size]: what may be found at an address
          PinnedArchive,   \* PinnedArchive[year]: the archive of the first audit
          MappingVersions, \* the versions of a mapping, in Nat
          MaxRevisions,    \* two bounds of the instance
          MaxRegistryEdits

ASSUME ContractAssumption ==
  /\ ArfYear \in ContractYears /\ 1 \in MappingVersions /\ MappingVersions \subseteq Nat
  /\ {MaxRevisions, MaxRegistryEdits} \subseteq Nat

VARIABLES registry,        \* registry[year]: its contracts, oldest first
          registryEdits

registryVars == <<registry, registryEdits>>

ReleaseStages == <<"preliminary", "annual_report_file", "final">>
StageRank(stage) == CHOOSE i \in DOMAIN ReleaseStages : ReleaseStages[i] = stage
InitialReview == "initial"
ArfReview     == "arf"
Categories    == {"mode_counts", "record_counts"}

FirstContract(year) ==
  [year |-> year, revision |-> 1, predecessor |-> {}, review |-> InitialReview, allowed |-> {},
   id |-> <<"initial", PinnedArchive[year].sha>>, profile |-> year, stage |-> "final",
   versions |-> <<1, 1>>, raw |-> PinnedArchive[year]]

ArfCorrection(previous) ==
  [previous EXCEPT !.revision = 2, !.predecessor = {previous}, !.review = ArfReview, !.allowed = {},
                   !.id = <<"arf", previous.raw.sha>>, !.stage = "annual_report_file"]

\* What a single contract is held to when it is made.
ContractValid(c) ==
  /\ c.year \in ContractYears /\ c.profile = c.year
  /\ c.revision >= 1 /\ Cardinality(c.predecessor) <= 1
  /\ c.allowed \subseteq Categories /\ Contains(ReleaseStages, c.stage)
  /\ \A i \in 1..2 : c.versions[i] \in MappingVersions
  /\ c.raw.size >= 1

AllowedChanges == {"revision", "predecessor", "review", "id", "stage"}

\* Both contracts are pinned, and nothing else changed between them.
ProvenanceCorrection(current, previous) ==
  /\ previous = FirstContract(ArfYear) /\ current = ArfCorrection(previous)
  /\ \A field \in DOMAIN previous \ AllowedChanges : current[field] = previous[field]

PredecessorValid(c, history) ==
  IF history = <<>>
  THEN c.predecessor = {} /\ c.review = InitialReview /\ c.allowed = {} /\ c.stage = "final"
  ELSE c.predecessor = {Last(history)}

\* Mutant: neither the stage nor the archive is compared.
MappingOfVersions(c, history) ==
  history # <<>> => \A i \in 1..2 : c.versions[i] >= Last(history).versions[i]

MappingValid(c, history) ==
  history # <<>> =>
    LET previous == Last(history) IN
    /\ \A i \in 1..2 : c.versions[i] >= previous.versions[i]
    /\ \/ StageRank(c.stage) >= StageRank(previous.stage)
       \/ ProvenanceCorrection(c, previous)
    /\ \/ c.raw # previous.raw
       \/ \E i \in 1..2 : c.versions[i] > previous.versions[i]
       \/ ProvenanceCorrection(c, previous)

Contracts(r) == UNION {{<<year, i>> : i \in DOMAIN r[year]} : year \in ContractYears}

\* No two contracts share an id, no two years an archive, no digest two sizes.
IdentitiesHold(r) ==
  \A p, q \in Contracts(r) :
    LET c == r[p[1]][p[2]]  d == r[q[1]][q[2]] IN
    /\ p # q => c.id # d.id
    /\ c.raw.sha = d.raw.sha => c.raw.size = d.raw.size /\ p[1] = q[1]

HistoryEntryValid(c, year, i, earlier) ==
  /\ ContractValid(c) /\ c.year = year /\ c.revision = i
  /\ PredecessorValid(c, earlier) /\ MappingValid(c, earlier)

RegistryValid(r) ==
  /\ \A year \in ContractYears :
       /\ r[year] # <<>>
       /\ \A i \in DOMAIN r[year] :
            HistoryEntryValid(r[year][i], year, i, SubSeq(r[year], 1, i - 1))
  /\ IdentitiesHold(r)

\* The contract of a year is its last; a descriptor gives back the contract that it describes.
YearContract(year) == Last(registry[year])
ContractOf(descriptor) ==
  {c \in {registry[year][i] : year \in {descriptor.year}, i \in {descriptor.revision}} : c = descriptor}
IdentifiesArchive(c, archive) == c.raw = archive
-----------------------------------------------------------------------------
RegistryInit ==
  /\ registryEdits = 0
  /\ registry = [year \in ContractYears |->
       IF year = ArfYear THEN <<FirstContract(year), ArfCorrection(FirstContract(year))>>
       ELSE <<FirstContract(year)>>]

Revised(c) ==
  {[c EXCEPT !.stage = stage, !.versions = versions, !.raw = raw, !.id = id, !.predecessor = predecessor] :
     stage \in ToSet(ReleaseStages), versions \in MappingVersions \X MappingVersions, raw \in Archives,
     id \in {c.id, <<"review", c.year, c.revision>>}, predecessor \in {c.predecessor, {}}}

\* Nothing is built upon a registry that is refused.
RegistryEdit ==
  /\ RegistryValid(registry)
  /\ registryEdits < MaxRegistryEdits /\ registryEdits' = registryEdits + 1

AppendRevision(year) ==
  /\ RegistryEdit /\ Len(registry[year]) < MaxRevisions
  /\ LET last == YearContract(year)
         next == [last EXCEPT !.revision = @ + 1, !.predecessor = {last}, !.review = "review"]
     IN \E c \in Revised(next) : registry' = [registry EXCEPT ![year] = Append(@, c)]

AmendRevision(year, i) ==
  /\ RegistryEdit /\ i \in DOMAIN registry[year]
  /\ \E c \in Revised(registry[year][i]) :
       c # registry[year][i] /\ registry' = [registry EXCEPT ![year][i] = c]

RegistryNext ==
  \E year \in ContractYears : AppendRevision(year) \/ \E i \in 1..MaxRevisions : AmendRevision(year, i)
-----------------------------------------------------------------------------
\* In a registry that is imported a mapping never goes back, however many revisions lie between; a
\* stage goes back only by the reviewed correction; an archive is ingested under the contract of one
\* year at most; and a descriptor gives back its own contract alone (validate_fars_year_contract_registry
\* and fars_year_contract_from_descriptor in fars_year_contracts.py).
RegistryHolds ==
  RegistryValid(registry) =>
    /\ \A year \in ContractYears : \A i, j \in DOMAIN registry[year] :
         i < j => LET old == registry[year][i]  new == registry[year][j] IN
           /\ \A v \in 1..2 : old.versions[v] <= new.versions[v]
           /\ \/ StageRank(old.stage) <= StageRank(new.stage)
              \/ \E k \in i..(j - 1) : ProvenanceCorrection(registry[year][k + 1], registry[year][k])
    /\ \A archive \in Archives :
         Cardinality({year \in ContractYears : IdentifiesArchive(YearContract(year), archive)}) <= 1
    /\ \A p \in Contracts(registry) : ContractOf(registry[p[1]][p[2]]) = {registry[p[1]][p[2]]}

\* A change that leaves the registry valid keeps every contract that has a successor, so what was
\* ingested under it can still be told (the digest chain of fars_year_contracts.py).
SucceededStays ==
  RegistryValid(registry) /\ RegistryValid(registry') =>
    \A year \in ContractYears : \A i \in 1..(Len(registry[year]) - 1) :
      registry'[year][i] = registry[year][i]
=============================================================================
