---------------------------- MODULE JoinArtifact ----------------------------
(***************************************************************************)
(* The private artifact of a joined archive: what the builder writes of    *)
(* the records and the accounting of FarsJoin, what the validators demand  *)
(* of it, the gate that a replacement passes, and the same comparison in   *)
(* the lineage verifier.                                                   *)
(*                                                                         *)
(* An artifact is [policy, release, limit, records, crash, person, cases]: *)
(* policy is the set of regressions that an operator allowed, limit the    *)
(* share [num, den] of crashes that may be rejected.  Hashes, member       *)
(* descriptors, versions and jurisdictions are left out.                   *)
(***************************************************************************)
EXTENDS FarsJoin, Orderings

CONSTANTS CaseOrder,      \* the place of each case in the order of dates and identities
          InvalidLimits,  \* shares [num, den]
          PriorArchives   \* [accidents, persons, regime] of releases that may be replaced

\* Accepted crashes are dated, limits are shares, and what is replaced was accepted.
ASSUME JoinArtifactAssumption ==
  /\ \A c \in DOMAIN CaseOrder : CaseOrder[c] \in Nat
  /\ \A c, d \in DOMAIN CaseOrder : CaseOrder[c] = CaseOrder[d] => c = d
  /\ InvalidLimits \subseteq [num : Nat, den : Nat \ {0}]
  /\ \A old \in PriorArchives :
       /\ JoinRequest(old.accidents, old.persons, old.regime)
       /\ {row.case : row \in Accepted(old.accidents)} \subseteq DOMAIN CaseOrder
       /\ Coherent(old.accidents, old.persons, old.regime) /\ Accepted(old.accidents) # {}

Allowances == {"records", "modes", "release"}
Releases   == {"preliminary", "final"}

ModesIn(counts) == SelectSeq(ModeOrder, LAMBDA m : counts[m] > 0)

Artifact(result, limit, release, policy) ==
  LET record(c) == CHOOSE r \in result.records : r.case = c
      kept      == {r.case : r \in result.records}
      listed    == InOrder(kept, {d \in kept \X kept : CaseOrder[d[1]] < CaseOrder[d[2]]})
      write(r)  == [case |-> r.case, fatals |-> r.fatals, people |-> r.people,
                    involved |-> ModesIn(r.people.involved), dying |-> ModesIn(r.people.fatal)]
  IN [policy |-> policy, release |-> release, limit |-> limit,
      records |-> [i \in DOMAIN listed |-> write(record(listed[i]))],
      crash |-> [read |-> result.crashes.read, accepted |-> result.crashes.accepted,
                 rejected |-> result.crashes.read - result.crashes.accepted],
      person |-> result.persons, cases |-> result.cases]

\* The crash half, an artifact in its own right.
OutcomesAccept(a) ==
  /\ a.records # <<>> /\ a.crash.accepted = Len(a.records)
  /\ a.crash.accepted + a.crash.rejected = a.crash.read
  /\ a.crash.rejected * a.limit.den <= a.limit.num * a.crash.read
  /\ \A r \in ToSet(a.records) : r.fatals >= 1
  /\ \A i, j \in DOMAIN a.records :
       i < j => CaseOrder[a.records[i].case] < CaseOrder[a.records[j].case]

SummaryAccepts(r) ==
  /\ r.involved = ModesIn(r.people.involved) /\ r.dying = ModesIn(r.people.fatal)
  /\ \A m \in Modes : r.people.fatal[m] <= r.people.involved[m]
  /\ Total(r.people.involved) >= 1
  /\ Total(r.people.fatal) = r.fatals

PeopleOf(a) ==
  LET size == [i \in DOMAIN a.records |-> Total(a.records[i].people.involved)]
  IN MapThenSumSet(LAMBDA i : size[i], DOMAIN a.records)

CrossAccounting(a) ==
  /\ a.cases.joined = Len(a.records)
  /\ a.person.accepted = PeopleOf(a)
  /\ a.person.accepted + a.person.excluded = a.person.read
  /\ a.cases.excluded <= a.person.excluded
  /\ a.crash.accepted = a.cases.joined
  /\ a.cases.joined + a.cases.excluded = a.crash.read
  /\ a.crash.rejected = a.cases.excluded

ArtifactAccepts(a) ==
  /\ OutcomesAccept(a) /\ CrossAccounting(a)
  /\ \A r \in ToSet(a.records) : SummaryAccepts(r)

(***************************************************************************)
(* A replacement.                                                          *)
(***************************************************************************)
Counts(a)     == <<a.crash.read, a.crash.accepted, a.person.read, a.person.accepted, a.cases.joined>>
Exclusions(a) == <<a.person.excluded, a.cases.excluded>>

ModeTotals(a) ==
  [kind \in {"involved", "fatal"} |-> [m \in Modes |->
     LET count == [i \in DOMAIN a.records |-> a.records[i].people[kind][m]]
     IN MapThenSumSet(LAMBDA i : count[i], DOMAIN a.records)]]

RecordsRegressed(new, old) ==
  \/ \E i \in DOMAIN Counts(new) : Counts(new)[i] < Counts(old)[i]
  \/ \E i \in DOMAIN Exclusions(new) : Exclusions(new)[i] > Exclusions(old)[i]

ModesRegressed(new, old) ==
  \E kind \in {"involved", "fatal"}, m \in Modes : ModeTotals(new)[kind][m] < ModeTotals(old)[kind][m]

\* At the command line, with the allowances given there.
GateAccepts(new, old, allowed) ==
  /\ ArtifactAccepts(new) /\ new.policy = allowed
  /\ ArtifactAccepts(old)
  /\ "records" \in allowed \/ ~RecordsRegressed(new, old)
  /\ "release" \in allowed \/ <<old.release, new.release>> # <<"final", "preliminary">>
  /\ "modes" \in allowed \/ ~ModesRegressed(new, old)

\* Years later, from the two artifacts alone.
LineageAccepts(new, old) ==
  /\ ArtifactAccepts(new) /\ ArtifactAccepts(old)
  /\ old.release = "final" /\ new.release # "final" => "release" \in new.policy
  /\ RecordsRegressed(new, old) => "records" \in new.policy
  /\ ModesRegressed(new, old) => "modes" \in new.policy
-----------------------------------------------------------------------------
(***************************************************************************)
(* Two files that agree give an artifact that every validator accepts,     *)
(* unless no crash is left or too many were rejected: the accounting of    *)
(* the adapter and that of the validators are written apart, and the       *)
(* second may not refuse what the first is right about.  A gate that let a *)
(* replacement in leaves a lineage that the verifier accepts, and one that *)
(* kept it out had the reason that the verifier has.  A release that only  *)
(* adds accepted crashes, and people of accepted crashes, needs no         *)
(* allowance.                                                              *)
(***************************************************************************)
ReplacementHolds(accidents, persons, regime, result, old) ==
  LET Old(limit, release)          == Artifact(Collect(old.accidents, old.persons, old.regime), limit, release, {})
      New(limit, release, allowed) == Artifact(result, limit, release, allowed)
      all == [num |-> 1, den |-> 1]
  IN /\ \A was, is \in Releases, allowed \in SUBSET Allowances, limit \in InvalidLimits :
          GateAccepts(New(limit, is, allowed), Old(limit, was), allowed)
            <=> LineageAccepts(New(limit, is, allowed), Old(limit, was))
     /\ /\ regime = old.regime
        /\ ToSet(old.accidents) \subseteq ToSet(accidents)
        /\ ToSet(old.persons) \subseteq ToSet(persons)
        /\ ToSet(accidents) \ ToSet(old.accidents) \subseteq Accepted(accidents)
        /\ \A p \in ToSet(persons) \ ToSet(old.persons) :
             \E row \in Accepted(accidents) : row.case = p.case
        => GateAccepts(New(all, "final", {}), Old(all, "final"), {})

ArtifactHolds(accidents, persons, regime, result) ==
  LET placed == Cardinality({i \in DOMAIN accidents : accidents[i].placed /\ accidents[i].fatals >= 1})
      lost   == Len(accidents) - placed
  IN result # Refused =>
       /\ \A limit \in InvalidLimits :
            ArtifactAccepts(Artifact(result, limit, "final", {}))
              <=> placed > 0 /\ lost * limit.den <= limit.num * Len(accidents)
       /\ \A old \in PriorArchives : ReplacementHolds(accidents, persons, regime, result, old)
=============================================================================
