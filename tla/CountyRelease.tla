--------------------------- MODULE CountyRelease ---------------------------
(***************************************************************************)
(* The directory of the county release: revisions of a state's value       *)
(* shard, its one boundary shard, the correction ledger and the index.     *)
(* An operator changes files, the index tool pins what it is told to, and  *)
(* the verifier accepts the directory before it is assembled into a site.  *)
(*                                                                         *)
(* One year and one state.  A value shard is [data, boundary]: its bytes   *)
(* contain the digest of the boundary it was made for.  The path of a      *)
(* value has its revision, the path of a boundary has none.  Bytes,        *)
(* digests and sizes are one thing: equal or not.                          *)
(***************************************************************************)
EXTENDS Naturals, FiniteSets

CONSTANTS Revisions,        \* the revisions of the value shard
          Boundaries,       \* the boundary shards an operator may supply
          Data,             \* the counts of a value shard
          MaxCorrections,   \* FARS_COUNTY_PUBLIC_MAX_CORRECTIONS
          MaxEdits          \* a bound of the instance

ASSUME CountyReleaseAssumption == {MaxCorrections, MaxEdits} \subseteq Nat

Shards == [data : Data, boundary : Boundaries]
Absent == [absent |-> TRUE]

VARIABLES values,     \* the value shard of each revision, or Absent
          boundary,   \* the boundary shard
          ledger,     \* the corrections of the ledger file
          index,      \* the index file, or Absent
          released,   \* what the verifier accepted last, or Absent
          edits       \* the changes so far

countyVars == <<values, boundary, ledger, index, released, edits>>

ValuePin(r) == [rev |-> r, shard |-> values[r]]
Present     == {r \in Revisions : values[r] # Absent}

\* A correction says what changed, and its pins must say the same.
CorrectionPinPair(c) ==
  /\ c.impact # {}
  /\ ("values" \in c.impact) <=> (c.prior # c.replacement)
  /\ ("geometry" \in c.impact) <=> (c.priorBoundary # c.replacementBoundary)

LedgerValid(corrections) ==
  /\ Cardinality(corrections) <= MaxCorrections
  /\ \A c \in corrections : CorrectionPinPair(c)

\* A value may only be indexed with the boundary it was made for.
IndexEntry(pin, b) == pin.shard # Absent /\ pin.shard.boundary = b

\* Every file a correction names is there with the bytes it names.
CorrectionPinsHold(corrections) ==
  \A c \in corrections :
    /\ ValuePin(c.prior.rev) = c.prior
    /\ ValuePin(c.replacement.rev) = c.replacement
    /\ boundary = c.priorBoundary
    /\ boundary = c.replacementBoundary

Retained(corrections) ==
  {c.prior.rev : c \in corrections} \cup {c.replacement.rev : c \in corrections}

DirectoryVerifies ==
  /\ index # Absent
  /\ index.ledger = ledger /\ LedgerValid(ledger)
  /\ ValuePin(index.value.rev) = index.value /\ boundary = index.boundary
  /\ IndexEntry(index.value, index.boundary)
  /\ CorrectionPinsHold(ledger)
  /\ Present = {index.value.rev} \cup Retained(ledger)

Edit == edits < MaxEdits /\ edits' = edits + 1

WriteValue(r, shard) ==
  /\ Edit
  /\ values[r] # shard
  /\ values' = [values EXCEPT ![r] = shard]
  /\ UNCHANGED <<boundary, ledger, index, released>>

WriteBoundary(b) ==
  /\ Edit
  /\ b # boundary
  /\ boundary' = b
  /\ UNCHANGED <<values, ledger, index, released>>

\* A correction is written from two shards at hand; the prior boundary may be gone.
AppendCorrection(r, s, b, impact) ==
  LET c == [prior |-> ValuePin(r), replacement |-> ValuePin(s), priorBoundary |-> b,
            replacementBoundary |-> boundary, impact |-> impact]
  IN /\ Edit
     /\ r \in Present /\ s \in Present
     /\ c \notin ledger /\ LedgerValid(ledger \cup {c})
     /\ ledger' = ledger \cup {c}
     /\ UNCHANGED <<values, boundary, index, released>>

\* The tool reads the files it is told to and refuses what its own checks refuse.
BuildIndex(r) ==
  /\ Edit
  /\ LedgerValid(ledger) /\ IndexEntry(ValuePin(r), boundary)
  /\ index' = [value |-> ValuePin(r), boundary |-> boundary, ledger |-> ledger]
  /\ index' # index
  /\ UNCHANGED <<values, boundary, ledger, released>>

VerifyDirectory ==
  /\ DirectoryVerifies
  /\ released' = [values |-> values, boundary |-> boundary, ledger |-> ledger,
                  active |-> index.value.rev]
  /\ UNCHANGED <<values, boundary, ledger, index, edits>>

CountyInit ==
  /\ \E b \in Boundaries, d \in Data :
       /\ boundary = b
       /\ values = [r \in Revisions |-> IF r = 1 THEN [data |-> d, boundary |-> b] ELSE Absent]
  /\ ledger = {} /\ index = Absent /\ released = Absent /\ edits = 0

CountyNext ==
  \/ \E r \in Revisions, shard \in Shards \cup {Absent} : WriteValue(r, shard)
  \/ \E b \in Boundaries : WriteBoundary(b)
  \/ \E r, s \in Revisions, b \in Boundaries, impact \in SUBSET {"values", "geometry", "copy"} :
       AppendCorrection(r, s, b, impact)
  \/ \E r \in Revisions : BuildIndex(r)
  \/ VerifyDirectory
-----------------------------------------------------------------------------
(***************************************************************************)
(* The verifier looks at one directory, yet the bytes that a correction    *)
(* names outlive it: a release whose ledger keeps a correction of the      *)
(* release before serves what that one served at both its revisions, and   *)
(* at the boundary.  As a boundary has one path, no release may ever hold  *)
(* a correction of the geometry.  A correction may be dropped, and of a    *)
(* revision that none names only its boundary is checked: its counts can   *)
(* be written again, indexed and released, although the module "refuses    *)
(* ... silent revision replacement" (fars_county_public_index.py:7-8).     *)
(***************************************************************************)
ReleasesKeepHistory ==
  [][released' # released =>
       /\ released'.values[released'.active].boundary = released'.boundary
       /\ \A c \in released'.ledger : "geometry" \notin c.impact
       /\ released # Absent =>
            \A c \in released.ledger \cap released'.ledger :
              /\ released'.boundary = released.boundary
              /\ \A r \in {c.prior.rev, c.replacement.rev} :
                   released'.values[r] = released.values[r] /\ released.values[r] # Absent]_countyVars
=============================================================================
