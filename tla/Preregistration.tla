-------------------------- MODULE Preregistration --------------------------
(***************************************************************************)
(* A prediction that is frozen before the data it is scored with           *)
(* (preregister.py).  The command writes the artifact of the day and then  *)
(* the manifest with its digest, and may be killed in between or within a  *)
(* write; nothing is locked, and one command runs at a time.  A digest is  *)
(* the artifact itself.                                                    *)
(***************************************************************************)
EXTENDS Naturals, FiniteSets

CONSTANTS Bundles,         \* what an analysis finds: [segment -> [significant, publishable, rate]]
          Signoffs,        \* what the sign-off record says
          RegistrationDays,
          MaxCommands      \* a bound of the instance

ASSUME PreregistrationAssumption ==
  MaxCommands \in Nat /\ \A bundle \in Bundles : IsFiniteSet(DOMAIN bundle)

\* In a directory: nothing, half of a file, or one that says something.
Missing == [missing |-> TRUE]
Torn    == [torn |-> TRUE]

VARIABLE prereg   \* [artifact, manifest, scored: by day; job: what is being written; commands]

FlaggedSegments(bundle) ==
  {s \in DOMAIN bundle : bundle[s].significant /\ bundle[s].publishable /\ bundle[s].rate # {}}

BuildRegistration(bundle, signoff, day) ==
  [day |-> day, signoff |-> signoff,
   predicted |-> [s \in FlaggedSegments(bundle) |-> bundle[s].rate]]

Whole(file) == file \notin {Missing, Torn}

\* Each flagged segment is a hit, a miss, or cannot be told.
ScoreRegistration(registration, held) ==
  LET flagged    == DOMAIN registration.predicted
      evaluable  == {s \in flagged \cap DOMAIN held : held[s].publishable /\ held[s].rate # {}}
      hits       == {s \in evaluable : held[s].significant}
  IN IF evaluable = {} THEN Missing
     ELSE [flagged |-> Cardinality(flagged), hits |-> Cardinality(hits), missed |-> evaluable \ hits,
           unevaluable |-> flagged \ evaluable, held |-> held]

VerifyRegistration(day) ==
  Whole(prereg.artifact[day]) /\ Whole(prereg.manifest[day]) /\ prereg.manifest[day] = prereg.artifact[day]
-----------------------------------------------------------------------------
Idle == [step |-> "idle"]
PreregInit ==
  LET nothing == [day \in RegistrationDays |-> Missing]
  IN prereg = [artifact |-> nothing, manifest |-> nothing, scored |-> nothing, job |-> Idle, commands |-> 0]

Command(job) ==
  /\ prereg.job = Idle /\ prereg.commands < MaxCommands
  /\ prereg' = [prereg EXCEPT !.job = job, !.commands = @ + 1]

\* What is there already, whole or not, is not written over.
Preregister(bundle, signoff, day) ==
  /\ prereg.artifact[day] = Missing
  /\ Command([step |-> "artifact", registration |-> BuildRegistration(bundle, signoff, day)])

WriteArtifact ==
  /\ prereg.job.step = "artifact"
  /\ LET r == prereg.job.registration IN
     prereg' = [prereg EXCEPT !.artifact[r.day] = r, !.job.step = "manifest"]
WriteManifest ==
  /\ prereg.job.step = "manifest"
  /\ LET r == prereg.job.registration IN
     prereg' = [prereg EXCEPT !.manifest[r.day] = r, !.job = Idle]

\* A kill leaves the file that was to be written as it was, or half of it.
KillCommand ==
  /\ prereg.job # Idle
  /\ LET day == prereg.job.registration.day
         killed == [prereg EXCEPT !.job = Idle]
     IN \/ prereg' = killed
        \/ prereg.job.step = "artifact" /\ prereg' = [killed EXCEPT !.artifact[day] = Torn]
        \/ prereg.job.step = "manifest" /\ prereg' = [killed EXCEPT !.manifest[day] = Torn]

\* All scores are made on one day, so that a later one replaces the earlier.
ScorePreregistration(day, held) ==
  /\ prereg.job = Idle /\ prereg.commands < MaxCommands /\ Whole(prereg.artifact[day])
  /\ LET score == ScoreRegistration(prereg.artifact[day], held) IN
     /\ score # Missing
     /\ prereg' = [prereg EXCEPT !.scored[day] = score, !.commands = @ + 1]

PreregNext ==
  \/ \E bundle \in Bundles, day \in RegistrationDays :
       \/ \E signoff \in Signoffs : Preregister(bundle, signoff, day)
       \/ ScorePreregistration(day, bundle)
  \/ WriteArtifact \/ WriteManifest \/ KillCommand
-----------------------------------------------------------------------------
\* A manifest vouches for the artifact beside it wherever a command was killed; a score tells of every
\* segment that the day's artifact had flagged, once, and calls a miss only what could be told
\* (write_registration, verify_registration and score_registration in preregister.py).
PredictionsHold ==
  \A day \in RegistrationDays :
    /\ Whole(prereg.manifest[day]) => VerifyRegistration(day)
    /\ LET score == prereg.scored[day]  flagged == DOMAIN prereg.artifact[day].predicted IN
       score # Missing =>
         /\ score.hits + Cardinality(score.missed) + Cardinality(score.unevaluable) = Cardinality(flagged)
         /\ score.flagged = Cardinality(flagged) /\ score.missed \cup score.unevaluable \subseteq flagged
         /\ \A s \in score.missed : ~score.held[s].significant /\ score.held[s].rate # {}

\* A prediction that was written whole is never another one (write_registration in preregister.py).  A
\* score may be: write_score_result writes over that of the day, "win or lose" (preregister.py:333).
PredictionFrozen ==
  \A day \in RegistrationDays :
    Whole(prereg.artifact[day]) => prereg'.artifact[day] = prereg.artifact[day]
=============================================================================
