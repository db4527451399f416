------------------------------ MODULE FarsJoin ------------------------------
(***************************************************************************)
(* The joined FARS adapter: accident rows and person rows of one archive   *)
(* become one record for every accepted crash, with the people and the     *)
(* deaths of each mode, and a provenance that accounts for every row.      *)
(*                                                                         *)
(* An accident row is [case, state, fatals, placed]: placed says whether   *)
(* the crash mapping accepts its date and location.  A person row is       *)
(* [case, state, veh, per, type, body, injury].  Rows that are not digits, *)
(* of another year, or of an unknown column are refused before this code   *)
(* and are left out.                                                       *)
(***************************************************************************)
EXTENDS Naturals, Sequences, FiniteSets, FiniteSetsExt, SequencesExt

Refused == [refused |-> TRUE]

ModeOrder == <<"occupant", "motorcyclist", "cyclist", "pedestrian", "other", "unknown">>
Modes     == ToSet(ModeOrder)

OccupantTypes   == {1, 2, 3, 9}
AllowedInjuries == 0..6 \cup {9}
Fatal           == 4

\* The person types a semantic regime knows, and those of them that are "other".
TypeDomain(regime) ==
  CASE regime = "union" -> [allowed |-> 1..13 \cup {19}, other |-> {4, 8, 10, 11, 12, 13}]
    [] regime = "2020"  -> [allowed |-> (1..13) \ {8}, other |-> {4, 10, 11, 12, 13}]
    [] regime = "2022"  -> [allowed |-> 1..10 \cup {19}, other |-> {4, 8, 10}]

\* A body type is a number, 0 for an empty field.
Mode(p, regime) ==
  CASE p.type = 5                         -> "pedestrian"
    [] p.type \in {6, 7}                  -> "cyclist"
    [] p.type \in TypeDomain(regime).other -> "other"
    [] p.type = 19                        -> "unknown"
    [] OTHER -> CASE p.body \in {0, 98, 99} -> "unknown"
                  [] p.body \in 80..89      -> "motorcyclist"
                  [] OTHER                  -> "occupant"

\* What is read of an archive: rows in any order, under one of the regimes.
Cases == STRING \ {"refused"}
AccidentRows == [case : Cases, state : STRING, fatals : Nat, placed : BOOLEAN]
PersonRows   == [case : Cases, state : STRING, veh : Nat, per : Nat, type : Nat, body : Nat, injury : Nat]

JoinRequest(accidents, persons, regime) ==
  /\ accidents \in Seq(AccidentRows) /\ persons \in Seq(PersonRows)
  /\ regime \in {"union", "2020", "2022"}

NoPeople == [involved |-> [m \in Modes |-> 0], fatal |-> [m \in Modes |-> 0]]

(***************************************************************************)
(* The accident index: cases are unique and there is at least one row (the *)
(* set of years must have exactly one member).                             *)
(***************************************************************************)
AccidentIndex(accidents) ==
  LET cases == {accidents[i].case : i \in DOMAIN accidents} IN
  IF accidents = <<>> \/ Cardinality(cases) # Len(accidents)
  THEN Refused
  ELSE [c \in cases |-> CHOOSE row \in ToSet(accidents) : row.case = c]

\* Mutant: a person row that repeats another is counted again.
RowRefusedUnlessRepeated(index, before, p, regime) ==
  \/ p.case \notin DOMAIN index
  \/ p.state # index[p.case].state
  \/ p.injury \notin AllowedInjuries
  \/ p.type \notin TypeDomain(regime).allowed
  \/ p.type \in OccupantTypes /\ p.veh < 1
  \/ p.type \notin OccupantTypes /\ p.veh # 0

\* What refuses a person row, given the index and the rows before it.
RowRefused(index, before, p, regime) ==
  \/ \E q \in ToSet(before) : <<q.case, q.veh, q.per>> = <<p.case, p.veh, p.per>>
  \/ p.case \notin DOMAIN index
  \/ p.state # index[p.case].state
  \/ p.injury \notin AllowedInjuries
  \/ p.type \notin TypeDomain(regime).allowed
  \/ p.type \in OccupantTypes /\ p.veh < 1
  \/ p.type \notin OccupantTypes /\ p.veh # 0

\* One person row added to the summary of its case.
Counted(summaries, p, regime) ==
  LET mode == Mode(p, regime)
      old  == IF p.case \in DOMAIN summaries THEN summaries[p.case] ELSE NoPeople
      dead == IF p.injury = Fatal THEN 1 ELSE 0
      new  == [involved |-> [old.involved EXCEPT ![mode] = @ + 1],
               fatal    |-> [old.fatal EXCEPT ![mode] = @ + dead]]
  IN [c \in DOMAIN summaries \cup {p.case} |-> IF c = p.case THEN new ELSE summaries[c]]

Total(counts) == MapThenSumSet(LAMBDA m : counts[m], Modes)

\* The summaries after the i-th person row.
Tallied(index, persons, regime, summaries, i) ==
  IF summaries = Refused \/ RowRefused(index, SubSeq(persons, 1, i - 1), persons[i], regime)
  THEN Refused ELSE Counted(summaries, persons[i], regime)

(***************************************************************************)
(* The person index: the rows in their order, then the checks of the whole *)
(* batch: every case has people, and its deaths are the accident's FATALS. *)
(***************************************************************************)
PersonIndex(index, persons, regime) ==
  LET sums[i \in 0 .. Len(persons)] ==
        IF i = 0 THEN <<>> ELSE Tallied(index, persons, regime, sums[i - 1], i)
      summaries == sums[Len(persons)]
  IN IF \/ summaries = Refused
        \/ DOMAIN summaries # DOMAIN index
        \/ \E c \in DOMAIN summaries : Total(summaries[c].fatal) # index[c].fatals
     THEN Refused ELSE summaries

\* The crash mapping: rows without date or location, or without a death, are rejected.
Accepted(accidents) == {row \in ToSet(accidents) : row.placed /\ row.fatals >= 1}

(***************************************************************************)
(* The records of the accepted crashes and the accounting of both files.   *)
(***************************************************************************)
Collect(accidents, persons, regime) ==
  LET index  == AccidentIndex(accidents)
      people == IF index = Refused THEN Refused ELSE PersonIndex(index, persons, regime)
      kept   == {row.case : row \in Accepted(accidents)}
      size   == [c \in DOMAIN people |-> Total(people[c].involved)]
      in     == MapThenSumSet(LAMBDA c : size[c], kept)
  IN IF people = Refused THEN Refused
     ELSE [records   |-> {[case |-> c, fatals |-> index[c].fatals, people |-> people[c]] : c \in kept},
           crashes   |-> [read |-> Len(accidents), accepted |-> Cardinality(kept)],
           persons   |-> [read |-> Len(persons), accepted |-> in,
                          excluded |-> Len(persons) - in],
           cases     |-> [joined   |-> Cardinality(kept),
                          excluded |-> Cardinality(DOMAIN people \ kept)]]
-----------------------------------------------------------------------------
(***************************************************************************)
(* The reference: what the two files say, read as relations and not row    *)
(* by row.                                                                 *)
(***************************************************************************)
Coherent(accidents, persons, regime) ==
  /\ accidents # <<>>
  /\ \A i, j \in DOMAIN accidents : accidents[i].case = accidents[j].case => i = j
  /\ \A i, j \in DOMAIN persons :
       <<persons[i].case, persons[i].veh, persons[i].per>>
         = <<persons[j].case, persons[j].veh, persons[j].per>> => i = j
  /\ \A i \in DOMAIN persons :
       /\ \E j \in DOMAIN accidents : /\ accidents[j].case = persons[i].case
                                      /\ accidents[j].state = persons[i].state
       /\ persons[i].injury \in AllowedInjuries
       /\ persons[i].type \in TypeDomain(regime).allowed
       /\ (persons[i].veh = 0) <=> (persons[i].type \notin OccupantTypes)
  /\ \A j \in DOMAIN accidents :
       LET mine == {i \in DOMAIN persons : persons[i].case = accidents[j].case}
       IN /\ mine # {}
          /\ Cardinality({i \in mine : persons[i].injury = Fatal}) = accidents[j].fatals

(***************************************************************************)
(* collect_joined refuses an archive exactly when its two files disagree,  *)
(* in whatever order their rows come.  Otherwise every record holds the    *)
(* people of its own crash and no others, its deaths are those of both     *)
(* files, and each person row is in one record or is excluded with the     *)
(* rejected crash it belongs to.                                           *)
(***************************************************************************)
JoinHolds(accidents, persons, regime, result) ==
  /\ (result = Refused) <=> ~Coherent(accidents, persons, regime)
  /\ result # Refused =>
       /\ \A j \in DOMAIN accidents :
            LET row  == accidents[j]
                mine == {i \in DOMAIN persons : persons[i].case = row.case}
                recs == {r \in result.records : r.case = row.case}
            IN IF row.placed /\ row.fatals >= 1
               THEN /\ Cardinality(recs) = 1
                    /\ \A r \in recs, m \in Modes :
                         r.people.involved[m]
                           = Cardinality({i \in mine : Mode(persons[i], regime) = m})
                    /\ \A r \in recs : Total(r.people.fatal) = row.fatals
               ELSE recs = {}
       /\ result.persons.read = result.persons.accepted + result.persons.excluded
       /\ result.persons.excluded
            = Cardinality({i \in DOMAIN persons :
                 persons[i].case \notin {r.case : r \in result.records}})
       /\ result.cases.joined + result.cases.excluded = result.crashes.read
       /\ result.cases.joined = result.crashes.accepted
=============================================================================
