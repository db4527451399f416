------------------------------- MODULE Studio -------------------------------
(***************************************************************************)
(* The Studio page: evidence is read in the browser, a readiness check     *)
(* sets the tier, the tier bounds the claim, and the claim is handed to a  *)
(* dossier page through the session storage.                               *)
(*                                                                         *)
(* A file is read asynchronously and no serial number tells an old read    *)
(* from a new one.  Evidence is what the check looks at: how many rows     *)
(* there are, and how many of them have a place and a date.                *)
(***************************************************************************)
EXTENDS Naturals, FiniteSets

CONSTANTS EvidenceFiles,     \* EvidenceFiles[name]: its evidence, or Unparsed
          SampleRows,        \* the evidence of the safe sample
          Places,            \* what may be typed as the place; "" is nothing
          MaxStudioEvents    \* a bound of the instance

ASSUME StudioAssumption == "none" \notin DOMAIN EvidenceFiles /\ MaxStudioEvents \in Nat

Declarations == {"exposure", "official", "review"}
Unparsed == [rows |-> 0, located |-> 0, dated |-> 0]    \* also no rows at all, of tier 0
None     == [none |-> TRUE]

VARIABLE studio    \* the state of both pages, see StudioInit

ReadinessTier(e, declared) ==
  IF e.located # e.rows \/ e.rows < 3 THEN 0
  ELSE IF e.rows < 10 \/ e.dated # e.rows \/ ~({"exposure", "review"} \subseteq declared) THEN 1
  ELSE IF "official" \notin declared THEN 2 ELSE 3

Selected(s) == IF s.file = "none" THEN s.held ELSE EvidenceFiles[s.file]

InvalidateReadiness(s) == [s EXCEPT !.result = None, !.claim = None, !.stale = FALSE]

\* The declarations and the place are those of the moment the rows are there.  A claim that is on the
\* screen stays there, and does not have the rows of a file that is no longer selected.
Assess(s, rows, stale) ==
  IF rows = Unparsed THEN s
  ELSE [s EXCEPT !.held = rows, !.result = [tier |-> ReadinessTier(rows, s.declared), rows |-> rows.rows],
                 !.stale = stale, !.claimPlace = s.corridor,
                 !.claim = IF stale /\ @ # None THEN [@ EXCEPT !.stale = TRUE] ELSE @]

CompileClaim(s) ==
  [tier |-> s.result.tier, place |-> IF s.claimPlace = "" THEN "the named corridor" ELSE s.claimPlace,
   rows |-> s.result.rows, stale |-> s.stale]

StudioEvent(s) == studio.events < MaxStudioEvents /\ studio' = [s EXCEPT !.events = @ + 1]

LoadSample == StudioEvent([InvalidateReadiness(studio) EXCEPT !.held = SampleRows])

\* Mutant: another file is chosen and the result of the old one stays.
ChooseFileKeeping(file) == file # studio.file /\ StudioEvent([studio EXCEPT !.file = file, !.held = Unparsed])

ChooseFile(file) ==
  /\ file # studio.file
  /\ StudioEvent([InvalidateReadiness(studio) EXCEPT !.file = file, !.held = Unparsed])

Declare(d) ==
  StudioEvent([InvalidateReadiness(studio) EXCEPT
                 !.declared = IF d \in @ THEN @ \ {d} ELSE @ \cup {d}])

\* The place of the decision is copied to the claim; only a result is invalidated by it.
TypeCorridor(place) ==
  LET typed == [studio EXCEPT !.corridor = place, !.claimPlace = place]
  IN place # studio.corridor /\ StudioEvent(IF studio.result = None THEN typed ELSE InvalidateReadiness(typed))

TypeClaimPlace(place) ==
  place # studio.claimPlace /\ StudioEvent([studio EXCEPT !.claimPlace = place])

\* A chosen file comes before rows that are held; its text arrives later.
SubmitReadiness ==
  StudioEvent(IF studio.file = "none" THEN Assess(studio, studio.held, FALSE)
              ELSE [studio EXCEPT !.reading[studio.file] = @ + 1])

FileIsRead(file) ==
  /\ studio.reading[file] > 0
  /\ studio' = Assess([studio EXCEPT !.reading[file] = @ - 1], EvidenceFiles[file], file # studio.file)

\* The handoff carries the tier and the place as it was typed; the storage may refuse it.
SubmitClaim(saved) ==
  /\ studio.result # None
  /\ StudioEvent([studio EXCEPT !.claim = CompileClaim(studio),
                    !.link = IF saved THEN [tier |-> studio.result.tier, place |-> studio.claimPlace]
                             ELSE None])

\* The dossier page reads the handoff and compiles the claim again.
StudioHandoff(link) == IF link = None \/ link.place = "" THEN None ELSE link

\* Without a handoff it can use, the page keeps its fictional sample.
OpenDossier ==
  /\ studio.claim # None
  /\ StudioEvent([studio EXCEPT !.dossier = [draft |-> StudioHandoff(studio.link), claim |-> studio.claim]])

\* A link from the atlas fixes the tier before there is any evidence.
StudioInit ==
  \E atlas \in BOOLEAN, place \in Places \ {""} :
    studio = [file |-> "none", held |-> Unparsed, declared |-> {}, corridor |-> place,
              claimPlace |-> place, reading |-> [f \in DOMAIN EvidenceFiles |-> 0],
              result |-> IF atlas THEN [tier |-> 0, rows |-> 0] ELSE None,
              stale |-> FALSE, claim |-> None, link |-> None, dossier |-> None, events |-> 0]

StudioNext ==
  \/ LoadSample \/ SubmitReadiness \/ OpenDossier
  \/ \E file \in DOMAIN EvidenceFiles : ChooseFile(file) \/ FileIsRead(file)
  \/ ChooseFile("none")
  \/ \E d \in Declarations : Declare(d)
  \/ \E place \in Places : TypeCorridor(place) \/ TypeClaimPlace(place)
  \/ \E saved \in BOOLEAN : SubmitClaim(saved)
-----------------------------------------------------------------------------
(***************************************************************************)
(* The tier on the screen is the tier of the selected evidence under the   *)
(* declarations as they are now, a claim on the screen has that tier, and  *)
(* a draft in the dossier has the tier and place of the claim it was       *)
(* opened from.  Exempt are a result and a claim that come from a file     *)
(* which was still being read when another one was selected, a claim that  *)
(* such a file finds on the screen, and a claim about no named place, for  *)
(* which the dossier shows its sample.                                     *)
(***************************************************************************)
ClaimGrounded ==
  /\ studio.result # None /\ ~studio.stale =>
       studio.result.tier = ReadinessTier(Selected(studio), studio.declared)
  /\ studio.claim # None /\ studio.result # None /\ ~studio.stale /\ ~studio.claim.stale =>
       studio.claim.tier = studio.result.tier
  /\ studio.dossier # None /\ studio.dossier.draft # None =>
       /\ studio.dossier.draft.tier = studio.dossier.claim.tier
       /\ studio.dossier.draft.place = studio.dossier.claim.place
=============================================================================
