---------------------------- MODULE StateRelease ----------------------------
(***************************************************************************)
(* The directory of the state release: annual artifacts by year and        *)
(* revision, the index that was published first, the index that replaces   *)
(* it, and the ledger of the one correction between them.  An operator     *)
(* exports artifacts again or removes them, the tools build an index and   *)
(* the ledger from the files at hand, and the verifier accepts the         *)
(* directory before the site is assembled.                                 *)
(*                                                                         *)
(* The bytes of an artifact are its provenance, which its path tells, and  *)
(* its counts.  The code pins the digests of the first index and of the    *)
(* first revision of the corrected year; here these are known counts.      *)
(***************************************************************************)
EXTENDS Naturals

CONSTANTS ReleaseYears,      \* SUPPORTED_FARS_YEARS
          PublishedYears,    \* the years of the first index
          CorrectedYear,     \* the year with a second revision
          AnnualCounts,      \* the counts an export may give
          PublishedCounts,   \* those of the artifacts that were published first
          NoFile,            \* a file that is not there
          MaxReleaseEdits    \* a bound of the instance

ASSUME StateReleaseAssumption ==
  /\ PublishedYears \subseteq ReleaseYears /\ CorrectedYear \in PublishedYears
  /\ PublishedCounts \in AnnualCounts /\ NoFile \notin AnnualCounts
  /\ MaxReleaseEdits \in Nat

ReleasePaths == (ReleaseYears \X {1}) \cup {<<CorrectedYear, 2>>}

VARIABLES annual,          \* the counts of each artifact, or NoFile
          catalogue,       \* the "legacy" and the "current" index, or NoFile
          corrections,     \* the ledger, in a set that is empty when there is none
          accepted,        \* what the verifier accepted last, or NoFile
          releaseEdits     \* the changes so far

releaseVars == <<annual, catalogue, corrections, accepted, releaseEdits>>

OnDisk == {path \in ReleasePaths : annual[path] # NoFile}

ReleaseEntry(path) == [rev |-> path[2], counts |-> annual[path]]

\* An index of one artifact for each of some years.
ReleaseIndex(paths) ==
  [y \in {path[1] : path \in paths} |-> ReleaseEntry(CHOOSE path \in paths : path[1] = y)]

ImmutableIndex == [y \in PublishedYears |-> [rev |-> 1, counts |-> PublishedCounts]]

Declared(index) == {<<y, index[y].rev>> : y \in DOMAIN index}

IndexReleasesHold(index) == \A y \in DOMAIN index : annual[<<y, index[y].rev>>] = index[y].counts

\* The second revision changes nothing but provenance.
ProvenanceOnlyDelta(legacy, current, before, after) ==
  /\ after = before
  /\ DOMAIN current = DOMAIN legacy
  /\ \A y \in DOMAIN legacy \ {CorrectedYear} : current[y] = legacy[y]

SelectsCorrection(index) == CorrectedYear \in DOMAIN index /\ index[CorrectedYear].rev = 2

ReleaseVerifies ==
  LET first == annual[<<CorrectedYear, 1>>]
      second == annual[<<CorrectedYear, 2>>]
  IN /\ NoFile \notin {catalogue.current, catalogue.legacy}
     /\ catalogue.legacy = ImmutableIndex
     /\ corrections = {[prior |-> first, replacement |-> second,
                        priorIndex |-> catalogue.legacy, replacementIndex |-> catalogue.current]}
     /\ IndexReleasesHold(catalogue.legacy) /\ IndexReleasesHold(catalogue.current)
     /\ first = PublishedCounts
     /\ SelectsCorrection(catalogue.current)
     /\ ProvenanceOnlyDelta(catalogue.legacy, catalogue.current, first, second)
     /\ OnDisk = Declared(catalogue.legacy) \cup Declared(catalogue.current)

\* The national page knows the revision of every year that it was reviewed with.
PageValidatesIndex(index) ==
  /\ DOMAIN index # {} /\ DOMAIN index \subseteq ReleaseYears
  /\ \A y \in DOMAIN index : index[y].rev = IF y = CorrectedYear THEN 2 ELSE 1

ReleaseEdit == releaseEdits < MaxReleaseEdits /\ releaseEdits' = releaseEdits + 1

\* The export writes under the one name of its year and revision; an operator may remove it.
WriteAnnual(path, counts) ==
  /\ ReleaseEdit
  /\ annual[path] # counts
  /\ annual' = [annual EXCEPT ![path] = counts]
  /\ UNCHANGED <<catalogue, corrections, accepted>>

\* The index goes to the file that it is told to.
BuildReleaseIndex(paths, name) ==
  /\ ReleaseEdit
  /\ paths # {} /\ paths \subseteq OnDisk
  /\ \A p, q \in paths : p[1] = q[1] => p = q
  /\ catalogue' = [catalogue EXCEPT ![name] = ReleaseIndex(paths)]
  /\ catalogue' # catalogue
  /\ UNCHANGED <<annual, corrections, accepted>>

BuildCorrectionLedger ==
  LET first == annual[<<CorrectedYear, 1>>]
      second == annual[<<CorrectedYear, 2>>]
  IN /\ ReleaseEdit
     /\ NoFile \notin {second, catalogue.current, catalogue.legacy}
     /\ first = PublishedCounts /\ catalogue.legacy = ImmutableIndex
     /\ SelectsCorrection(catalogue.current)
     /\ catalogue.current[CorrectedYear].counts = second
     /\ ProvenanceOnlyDelta(catalogue.legacy, catalogue.current, first, second)
     /\ corrections' = {[prior |-> first, replacement |-> second,
                         priorIndex |-> catalogue.legacy, replacementIndex |-> catalogue.current]}
     /\ UNCHANGED <<annual, catalogue, accepted>>

VerifyRelease ==
  /\ ReleaseVerifies
  /\ accepted' = [current |-> catalogue.current, annual |-> annual]
  /\ UNCHANGED <<annual, catalogue, corrections, releaseEdits>>

\* The first release, before anything was corrected.
ReleaseInit ==
  /\ annual = [path \in ReleasePaths |-> IF path \in Declared(ImmutableIndex) THEN PublishedCounts
                                         ELSE NoFile]
  /\ catalogue = [legacy |-> ImmutableIndex, current |-> NoFile]
  /\ corrections = {} /\ accepted = NoFile /\ releaseEdits = 0

ReleaseNext ==
  \/ \E path \in ReleasePaths, counts \in AnnualCounts \cup {NoFile} : WriteAnnual(path, counts)
  \/ \E paths \in SUBSET ReleasePaths, name \in {"legacy", "current"} : BuildReleaseIndex(paths, name)
  \/ BuildCorrectionLedger \/ VerifyRelease
-----------------------------------------------------------------------------
(***************************************************************************)
(* Whatever is exported, removed and indexed again, an accepted directory  *)
(* serves the years and the counts that were published first, and its      *)
(* index is one that the page accepts; neither a year nor a count can be   *)
(* changed by the files alone.  A ledger that the tool agrees to build is  *)
(* one that the verifier accepts, when every published artifact is in      *)
(* place and no other one is there.                                        *)
(***************************************************************************)
CountsStayPublished ==
  /\ [][accepted' # accepted =>
          /\ DOMAIN accepted'.current = PublishedYears
          /\ \A y \in PublishedYears :
               /\ accepted'.current[y].counts = PublishedCounts
               /\ accepted'.annual[<<y, 1>>] = PublishedCounts
          /\ PageValidatesIndex(accepted'.current)]_releaseVars
  /\ [][corrections' # corrections
          /\ (\A y \in PublishedYears : annual[<<y, 1>>] = PublishedCounts)
          /\ OnDisk = (PublishedYears \X {1}) \cup {<<CorrectedYear, 2>>}
        => ReleaseVerifies']_releaseVars
=============================================================================
