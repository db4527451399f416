-------------------------- MODULE ContextActivation --------------------------
(***************************************************************************)
(* src/nearmiss/fars_context_activation.py: a city's context generations   *)
(* are derived from the active generation of the joined source, which      *)
(* other processes replace meanwhile under a lock of their own.  Nothing   *)
(* locks both sources.                                                     *)
(*                                                                         *)
(* The joined source takes the steps of ActiveDataset, which Ingestion is  *)
(* shown to implement, with its lock held.  The context source is a run of *)
(* run_ingestion with this module's callbacks.  These and the reader       *)
(* verify_active_fars_context make one access at a time.                   *)
(* A run and its receipts have the completion times of one clock that does *)
(* not go back, so a snapshot is complete before a run that uses it starts.*)
(***************************************************************************)
EXTENDS Naturals, Sequences, FiniteSets

CONSTANTS
    MaxJoined,    \* bound on the joined ingestion runs
    MaxContext,   \* bound on the context activations
    MaxCalls,     \* bound on the two together
    MaxFailures,  \* bound on the runs that break
    MaxSuccesses, \* _MAX_SUCCESS_GENERATIONS
    MaxReceipts,  \* _MAX_RECEIPTS
    Configs,      \* configurations and networks of the city
    Payloads,     \* normalized contents of joined generations
    Payload,      \* that of each joined generation
    Counts,       \* record counts of each content
    JoinedTime,   \* when each joined run completes
    JoinedPlace,  \* its place when the runs are sorted by time and attempt id
    ContextTime,  \* when each context activation completes
    None,
    Settled

ASSUME ContextAssumption ==
    /\ MaxJoined \in Nat /\ MaxContext \in Nat /\ MaxCalls \in Nat /\ MaxFailures \in Nat
    /\ MaxSuccesses \in Nat /\ MaxReceipts \in Nat
    /\ Payload \in [1 .. MaxJoined -> Payloads] /\ Counts \in [Payloads -> Nat]
    /\ None \notin 1 .. MaxJoined /\ None \notin Payloads
    /\ Settled \notin 1 .. MaxJoined
    /\ None # Settled

\* The clock does not go back; equal times are sorted by the attempt id.
ASSUME ClockAssumption ==
    /\ JoinedTime \in [1 .. MaxJoined -> Nat] /\ JoinedPlace \in [1 .. MaxJoined -> Nat]
    /\ ContextTime \in [1 .. MaxContext -> Nat]
    /\ \A i, j \in 1 .. MaxJoined : i < j =>
          /\ JoinedTime[i] <= JoinedTime[j] /\ JoinedPlace[i] # JoinedPlace[j]
          /\ JoinedTime[i] < JoinedTime[j] => JoinedPlace[i] < JoinedPlace[j]
    /\ \A i, j \in 1 .. MaxContext : i < j => ContextTime[i] <= ContextTime[j]

(* full: activate_fars_context_full_history.  history and audit:           *)
(* activate_fars_context_audit_only with and without a joined root.        *)
Modes == {"full", "history", "audit"}

VARIABLES
    joinedLock,      \* the lock of the joined source: free, held or stale
    joinedActive,    \* its active generation or None
    joinedFallback,  \* what a withdrawal restores, or Settled
    joinedArchive,   \* its archived generations
    replaced,        \* which generation each one was put over
    joinedFailed,    \* failure receipts in its history
    joinedClutter,   \* a broken run left what the readers of the store refuse
    context,         \* the context source: the same in one record
    joinedRuns,      \* joined runs so far; a run's number names its generation
    contextRuns,     \* context activations so far
    failures,        \* runs that broke so far
    cpc,             \* the stage of the context activation
    look,            \* the stage of a verification of the joined source within it
    job,             \* the locals of the context activation
    vpc,             \* the stage of verify_active_fars_context
    view,            \* what that reader has read
    span,            \* ghost: joined generations active, unlocked, between checks
    coexisted,       \* ghost: both markers were in place since the second was read
    disturbed        \* ghost: a lock was held at some moment of the verification

joinedVars == <<joinedLock, joinedActive, joinedFallback, joinedArchive,
                replaced, joinedFailed, joinedClutter, joinedRuns>>
runnerVars == <<contextRuns, cpc, look, job>>
readerVars == <<vpc, view>>
vars == <<joinedVars, context, contextRuns, failures, cpc, look, job,
          vpc, view, span, coexisted, disturbed>>

\* A run breaks: an exception where none is expected, an interrupt or a kill.
Breaks == failures < MaxFailures /\ failures' = failures + 1

\* A run that breaks may leave a temporary file in receipts/, or a second link to
\* an entry, which no verifier reads past (_scan_receipts, _read_file).
Littered(before) == {before, TRUE}

-----------------------------------------------------------------------------
(* The joined source: another process ingests, and may break.              *)

Joined == INSTANCE ActiveDataset WITH
    Generations <- 1 .. MaxJoined, active <- joinedActive,
    fallback <- joinedFallback, archive <- joinedArchive

JoinedBegins ==
    /\ joinedLock = "free" /\ joinedLock' = "held"
    /\ joinedRuns < MaxJoined /\ joinedRuns + contextRuns < MaxCalls
    /\ joinedRuns' = joinedRuns + 1
    /\ UNCHANGED <<joinedActive, joinedFallback, joinedArchive, replaced,
                   joinedFailed, joinedClutter, failures>>

\* Of the active marker of a run that stopped before it did, or of its own.
JoinedArchives ==
    /\ joinedLock = "held"
    /\ Joined!Archive
    /\ UNCHANGED <<joinedLock, replaced, joinedFailed, joinedClutter, joinedRuns, failures>>

JoinedActivates ==
    /\ joinedLock = "held"
    /\ Joined!Activate
    /\ joinedActive' = joinedRuns /\ joinedFallback' = joinedActive
    /\ replaced' = [replaced EXCEPT ![joinedRuns] = joinedActive]
    /\ UNCHANGED <<joinedLock, joinedFailed, joinedClutter, joinedRuns, failures>>

\* The run is over with its marker in the history; or it fails before it puts one,
\* and writes a receipt of that unless preflight ended it.
JoinedReleases ==
    /\ joinedLock = "held" /\ joinedLock' = "free"
    /\ Joined!Settle
    /\ \/ joinedFallback # Settled /\ joinedActive \in joinedArchive /\ UNCHANGED joinedFailed
       \/ joinedFallback = Settled /\ joinedFailed' \in {joinedFailed, joinedFailed + 1}
    /\ UNCHANGED <<replaced, joinedClutter, joinedRuns, failures>>

\* Mutant: a run may fail and roll back after its receipt is in the history.
JoinedWithdrawsLate ==
    /\ joinedLock = "held" /\ joinedLock' = "free"
    /\ Joined!Withdraw
    /\ joinedFailed' = joinedFailed + 1
    /\ UNCHANGED <<replaced, joinedClutter, joinedRuns, failures>>

\* The run fails and rolls its marker back before the history has it.
JoinedWithdraws ==
    /\ joinedLock = "held" /\ joinedLock' = "free"
    /\ joinedActive \notin joinedArchive
    /\ Joined!Withdraw
    /\ joinedFailed' = joinedFailed + 1
    /\ UNCHANGED <<replaced, joinedClutter, joinedRuns, failures>>

\* The run breaks: its marker stays or is rolled back, and a receipt of it that is
\* already linked stays in the history; the lock is released or stays.
JoinedBreaks ==
    /\ joinedLock = "held"
    /\ Breaks
    /\ \/ Joined!Settle /\ joinedLock' \in {"free", "stale"}
       \/ Joined!Withdraw /\ joinedLock' = "free"
    /\ joinedFailed' \in {joinedFailed, joinedFailed + 1}
    /\ joinedClutter' \in Littered(joinedClutter)
    /\ UNCHANGED <<replaced, joinedRuns>>

JoinedCleared ==
    /\ joinedLock = "stale" /\ joinedLock' = "free"
    /\ UNCHANGED <<joinedActive, joinedFallback, joinedArchive, replaced,
                   joinedFailed, joinedClutter, joinedRuns, failures>>

JoinedStep ==
    /\ \/ JoinedBegins \/ JoinedArchives \/ JoinedActivates \/ JoinedReleases
       \/ JoinedWithdraws \/ JoinedBreaks \/ JoinedCleared
    /\ UNCHANGED <<context, runnerVars, readerVars>>

-----------------------------------------------------------------------------
(* What a verifier makes of the joined history.                            *)

PayloadOf(g) == IF g = None THEN None ELSE Payload[g]

Earlier(g) == {x \in joinedArchive : JoinedPlace[x] < JoinedPlace[g]}

\* The generation before g in the sorted history.
Before(p, g) ==
    IF Earlier(g) = {} THEN p = None
    ELSE p \in Earlier(g) /\ \A x \in Earlier(g) : JoinedPlace[x] <= JoinedPlace[p]

\* _scan_receipts: every name is a receipt's, and there are not too many.
JoinedScanned ==
    ~joinedClutter /\ Cardinality(joinedArchive) + joinedFailed <= MaxReceipts

\* _ordered_successes and _verify_joined_chain: g is the one latest success; every
\* success names the content before its own, and none but that one comes back.
\* A regression was refused when the run put its marker over that content.
JoinedReplays(g) ==
    /\ JoinedScanned
    /\ g \in joinedArchive
    /\ Cardinality(joinedArchive) <= MaxSuccesses
    /\ \A x \in joinedArchive \ {g} : JoinedTime[x] < JoinedTime[g]
    /\ \A x \in joinedArchive : \E p \in joinedArchive \cup {None} :
          /\ Before(p, x)
          /\ PayloadOf(replaced[x]) = PayloadOf(p)
          /\ \/ PayloadOf(p) = Payload[x]
             \/ \A e \in Earlier(x) : Payload[e] # Payload[x]

-----------------------------------------------------------------------------
(* The context source, one run_ingestion at a time.                        *)

NewSource == [lock |-> "free", active |-> None, fallback |-> Settled,
              history |-> <<>>, failed |-> 0, clutter |-> FALSE]

Members(h) == {h[i] : i \in DOMAIN h}

\* Preflight archives the active marker of a run that stopped before it did.
Begun(s) ==
    [s EXCEPT !.lock = "held",
              !.history = IF s.active \in Members(@) \cup {None} THEN @
                          ELSE Append(@, s.active)]

Activated(s, g) == [s EXCEPT !.active = g, !.fallback = s.active]

Archived(s) == [s EXCEPT !.history = Append(@, s.active)]

Finished(s) == [s EXCEPT !.fallback = Settled, !.lock = "free"]

\* A marker that the run has put is rolled back.
RolledBack(s) ==
    [s EXCEPT !.active = IF s.fallback = Settled THEN @ ELSE s.fallback,
              !.fallback = Settled, !.lock = "free"]

\* The run fails, rolls back and writes a receipt of it.
Failed(s) == [RolledBack(s) EXCEPT !.failed = @ + 1]

\* The run stops without a rollback.
Stopped(s, lock) == [s EXCEPT !.fallback = Settled, !.lock = lock]

Scanned(s) == ~s.clutter /\ Len(s.history) + s.failed <= MaxReceipts

\* _ordered_successes: the active marker is archived, as the one latest success.
Latest(g, h) ==
    /\ h # <<>> /\ h[Len(h)] = g
    /\ Len(h) <= MaxSuccesses
    /\ \A i \in 1 .. Len(h) - 1 : ContextTime[h[i].id] < ContextTime[g.id]

-----------------------------------------------------------------------------
(* Packages, artifacts and the chain of context generations.               *)

\* A dependency package: the joined generation, the city's configuration, and
\* whether it carries the review and override references.
Packages == [source : 1 .. MaxJoined, config : Configs, override : BOOLEAN]

\* A context generation names the artifact it replaced.
Generations == [id : 1 .. MaxContext, package : Packages,
                prev : {None} \cup [source : 1 .. MaxJoined, config : Configs]]

ASSUME GenerationAssumption == {None, Settled} \cap Generations = {}

Artifact(p) == [source |-> p.source, config |-> p.config]

\* _validate_candidate: a changed composition, or counts that fall, ask for a
\* reference; the same artifact again does not.
CandidateValid(p, old) ==
    old # None =>
        \/ Artifact(p) = old
        \/ p.override
        \/ p.config = old.config /\ Counts[Payload[p.source]] >= Counts[Payload[old.source]]

ArtifactOf(g) == IF g = None THEN None ELSE Artifact(g.package)

\* The artifact of a generation that is not the latest does not come back.
Reuses(a, h) ==
    /\ a # Artifact(h[Len(h)].package)
    /\ \E i \in DOMAIN h : Artifact(h[i].package) = a

\* _verify_context_chain over a joined history.
ContextChainValid(h, sources) ==
    \A i \in DOMAIN h :
        LET old == IF i = 1 THEN None ELSE Artifact(h[i - 1].package)
        IN /\ h[i].prev = old
           /\ h[i].package.source \in sources
           /\ CandidateValid(h[i].package, old)
           /\ i > 1 => ~Reuses(Artifact(h[i].package), SubSeq(h, 1, i - 1))

-----------------------------------------------------------------------------
(* The context activation.                                                 *)

NoJob == [mode |-> "full", package |-> None, prev |-> None, seen |-> None,
          again |-> FALSE, expected |-> None]

To(stage, step, j) == cpc' = stage /\ look' = step /\ job' = j

OutsideRunner == UNCHANGED <<joinedVars, readerVars>>
RunnerOnly == OutsideRunner /\ UNCHANGED failures

StartActivation ==
    /\ cpc = "idle"
    /\ contextRuns < MaxContext /\ joinedRuns + contextRuns < MaxCalls
    /\ contextRuns' = contextRuns + 1
    /\ \E m \in Modes : To("snapshot", "lock", [NoJob EXCEPT !.mode = m])
    /\ UNCHANGED context /\ RunnerOnly

Leaving == To("idle", "none", NoJob) /\ UNCHANGED contextRuns

\* One access of _load_verified_active_fars_joined_activation_state; its last is
\* the second look at the lock, with what the caller makes of the result.
JoinedAccessHolds ==
    \/ look = "lock" /\ joinedLock = "free"
    \/ look = "read" /\ joinedActive # None
    \/ look = "scan" /\ JoinedReplays(job.seen)
    \/ look = "reread" /\ joinedActive = job.seen

NextAccess == [lock |-> "read", read |-> "scan", scan |-> "reread", reread |-> "relock"]

AccessJoined ==
    /\ look \in DOMAIN NextAccess
    /\ JoinedAccessHolds
    /\ To(cpc, NextAccess[look],
          IF look = "read" THEN [job EXCEPT !.seen = joinedActive] ELSE job)
    /\ UNCHANGED <<context, contextRuns>> /\ RunnerOnly

\* The snapshot is verified, and the package built from it.
SnapshotLoaded ==
    /\ cpc = "snapshot" /\ look = "relock" /\ joinedLock = "free"
    /\ \E p \in Packages :
          /\ p.source = job.seen
          /\ To("begin", "none", [job EXCEPT !.package = p, !.seen = None])
    /\ UNCHANGED <<context, contextRuns>> /\ RunnerOnly

\* run_ingestion under the context lock, or ConcurrentIngestionError.
ContextBegins ==
    /\ cpc = "begin"
    /\ IF context.lock = "free"
       THEN /\ context' = Begun(context)
            /\ To("normalize", "none", [job EXCEPT !.prev = context.active])
            /\ UNCHANGED contextRuns
       ELSE Leaving /\ UNCHANGED context
    /\ RunnerOnly

\* Mutant: the candidate is not compared with the artifact it replaces.
ContextNormalizesAlone ==
    /\ cpc = "normalize"
    /\ To("history", IF job.mode = "audit" THEN "none" ELSE "lock", job)
    /\ UNCHANGED <<context, contextRuns>> /\ RunnerOnly

\* normalize and validate_normalized.
ContextNormalizes ==
    /\ cpc = "normalize"
    /\ IF CandidateValid(job.package, ArtifactOf(job.prev))
       THEN /\ To("history", IF job.mode = "audit" THEN "none" ELSE "lock", job)
            /\ UNCHANGED <<context, contextRuns>>
       ELSE Leaving /\ context' = Failed(context)
    /\ RunnerOnly

\* What the history callbacks ask of the context store itself; without an active
\* marker the history may hold no success (_reject_orphan_success_history).
ContextHistoryValid ==
    /\ Scanned(context)
    /\ IF context.active = None THEN context.history = <<>>
       ELSE /\ Latest(context.active, context.history)
            /\ ~Reuses(Artifact(job.package), context.history)
            /\ job.mode # "audit" =>
                  ContextChainValid(context.history, joinedArchive)

\* _reject_context_normalized_reuse_locked.
AuditHistoryChecked ==
    /\ cpc = "history" /\ job.mode = "audit"
    /\ ContextHistoryValid
    /\ To("commit", "none", job)
    /\ UNCHANGED <<context, contextRuns>> /\ RunnerOnly

\* Mutant: the joined state is not compared with the one before the commit.
ConcludesLoosely ==
    cpc = "history" =>
        /\ job.package.source = job.seen
        /\ (context.active = None \/ ~job.again) => ContextHistoryValid

\* What is required of the joined generation that a callback has verified.
Concludes ==
    /\ cpc = "history" =>
          /\ job.package.source = job.seen
          /\ (context.active = None \/ ~job.again) => ContextHistoryValid
    /\ cpc = "activated" => job.seen = job.expected

\* _validate_context_history_candidate_locked: with an active context the whole
\* of both histories is verified first, and the joined state then read again.
HistoryChecked ==
    /\ cpc = "history" /\ look = "relock" /\ joinedLock = "free"
    /\ Concludes
    /\ IF context.active # None /\ ~job.again
       THEN To("history", "lock", [job EXCEPT !.again = TRUE])
       ELSE To("commit", "none",
               [job EXCEPT !.expected = job.seen, !.seen = None, !.again = FALSE])
    /\ UNCHANGED <<context, contextRuns>> /\ RunnerOnly

ContextCommits ==
    /\ cpc = "commit"
    /\ context' = Activated(context, [id |-> contextRuns, package |-> job.package,
                                      prev |-> ArtifactOf(job.prev)])
    /\ LET after == [job EXCEPT !.prev = None]
       IN IF job.mode = "full" THEN To("activated", "lock", after)
          ELSE To("receipt", "none", after)
    /\ UNCHANGED contextRuns /\ RunnerOnly

\* _verify_activated_context_locked: evidence is minted.
ActivatedChecked ==
    /\ cpc = "activated" /\ look = "relock" /\ joinedLock = "free"
    /\ Concludes
    /\ To("receipt", "none", [job EXCEPT !.seen = None, !.expected = None])
    /\ UNCHANGED <<context, contextRuns>> /\ RunnerOnly

CheckHolds ==
    \/ look \in DOMAIN NextAccess /\ JoinedAccessHolds
    \/ look = "relock" /\ joinedLock = "free" /\ Concludes
    \/ cpc = "history" /\ job.mode = "audit" /\ ContextHistoryValid

\* A check that does not hold ends the activation, and rolls a marker back.
CheckFails ==
    /\ cpc \in {"snapshot", "history", "activated"}
    /\ ~CheckHolds
    /\ context' = IF cpc = "snapshot" THEN context ELSE Failed(context)
    /\ Leaving /\ RunnerOnly

\* The success marker is linked into the history.
ContextArchives ==
    /\ cpc = "receipt"
    /\ To("archived", "none", job)
    /\ context' = Archived(context)
    /\ UNCHANGED contextRuns /\ RunnerOnly

ContextFinishes ==
    /\ cpc = "archived"
    /\ context' = Finished(context)
    /\ Leaving /\ RunnerOnly

Working == {"normalize", "history", "commit", "activated", "receipt", "archived"}

\* The run breaks, with or without a rollback; what the history has it keeps.
ContextBreaks ==
    /\ cpc \in Working
    /\ Breaks
    /\ \E after \in {Failed(context), RolledBack(context),
                   Stopped(context, "free"), Stopped(context, "stale")} :
          \E clutter \in Littered(context.clutter) :
             context' = [after EXCEPT !.clutter = clutter]
    /\ Leaving
    /\ OutsideRunner

ContextCleared ==
    /\ context.lock = "stale"
    /\ context' = [context EXCEPT !.lock = "free"]
    /\ UNCHANGED runnerVars /\ RunnerOnly

RunnerStep ==
    \/ StartActivation \/ AccessJoined \/ SnapshotLoaded \/ ContextBegins
    \/ ContextNormalizes \/ AuditHistoryChecked \/ HistoryChecked
    \/ ContextCommits \/ ActivatedChecked \/ CheckFails \/ ContextArchives
    \/ ContextFinishes \/ ContextBreaks \/ ContextCleared

-----------------------------------------------------------------------------
(* verify_active_fars_context: no lock, two sources.                       *)

NoView == [context |-> None, joined |-> None, contexts |-> <<>>]

ReaderStages == <<"context lock", "joined lock", "context", "joined",
                  "contexts", "joineds", "context again", "joined again",
                  "context relock", "joined relock">>

\* Mutant: the context marker is not read again.
AccessHoldsOnce(stage) ==
    \/ stage \in {"context lock", "context relock"} /\ context.lock = "free"
    \/ stage \in {"joined lock", "joined relock"} /\ joinedLock = "free"
    \/ stage = "context" /\ context.active # None
    \/ stage = "joined" /\ joinedActive # None
    \/ stage = "contexts" /\ Latest(view.context, context.history)
    \/ stage = "joineds" /\ view.context.package.source = view.joined
    \/ stage = "context again"
    \/ stage = "joined again" /\ joinedActive = view.joined

\* The checks that follow an access, with both histories read the replay and that
\* the context is derived from the active joined generation.
AccessHolds(stage) ==
    \/ stage \in {"context lock", "context relock"} /\ context.lock = "free"
    \/ stage \in {"joined lock", "joined relock"} /\ joinedLock = "free"
    \/ stage = "context" /\ context.active # None
    \/ stage = "joined" /\ joinedActive # None
    \/ stage = "contexts" /\ Scanned(context) /\ Latest(view.context, context.history)
    \/ /\ stage = "joineds"
       /\ JoinedReplays(view.joined)
       /\ ContextChainValid(view.contexts, joinedArchive)
       /\ view.context.package.source = view.joined
    \/ stage = "context again" /\ context.active = view.context
    \/ stage = "joined again" /\ joinedActive = view.joined

Viewed(stage) ==
    CASE stage = "context" -> [view EXCEPT !.context = context.active]
      [] stage = "joined"  -> [view EXCEPT !.joined = joinedActive]
      [] stage = "contexts" -> [view EXCEPT !.contexts = context.history]
      [] stage = "joineds" -> [view EXCEPT !.contexts = <<>>]
      [] OTHER -> view

\* vpc counts the accesses made; 0 is outside a call.
Stage == ReaderStages[vpc + 1]

ReadsOn ==
    /\ vpc + 1 < Len(ReaderStages)
    /\ AccessHolds(Stage)
    /\ vpc' = vpc + 1
    /\ view' = Viewed(Stage)

Returned == vpc' = 0 /\ view' = NoView

Accepts == vpc + 1 = Len(ReaderStages) /\ AccessHolds(Stage) /\ Returned

Refuses == vpc > 0 /\ ~AccessHolds(Stage) /\ Returned

ReaderStep ==
    /\ ReadsOn \/ Accepts \/ Refuses
    /\ UNCHANGED <<joinedVars, context, failures, runnerVars>>

-----------------------------------------------------------------------------
\* The ghosts: which joined generations were active, and not locked, from the
\* history check to the last look at the marker of the activation check; and
\* what happens while the reader runs.
Ghosts ==
    /\ span' = IF cpc' \in {"commit", "activated"} /\ look' # "relock"
               THEN span \cup (IF joinedLock' = "free" THEN {joinedActive'} ELSE {})
               ELSE IF cpc' \in {"activated", "receipt", "archived"} THEN span ELSE {}
    /\ coexisted' =
          IF view'.joined = None THEN FALSE
          ELSE coexisted \/ (context'.active = view'.context /\ joinedActive' = view'.joined)
    /\ disturbed' = (vpc' > 0 /\ (\/ disturbed
                                  \/ "free" # context'.lock
                                  \/ "free" # joinedLock'))

Init ==
    /\ Joined!Init /\ joinedLock = "free" /\ joinedRuns = 0
    /\ replaced = [g \in 1 .. MaxJoined |-> None] /\ joinedFailed = 0 /\ joinedClutter = FALSE
    /\ context = NewSource
    /\ contextRuns = 0 /\ failures = 0
    /\ cpc = "idle" /\ look = "none" /\ job = NoJob
    /\ vpc = 0 /\ view = NoView
    /\ span = {} /\ coexisted = FALSE /\ disturbed = FALSE

Next == (JoinedStep \/ RunnerStep \/ ReaderStep) /\ Ghosts

Spec == Init /\ [][Next]_vars

-----------------------------------------------------------------------------
(* Properties.                                                             *)

\* The types of the variables; a run holds the context lock exactly in the stages
\* of run_ingestion.
TypeOK ==
    /\ joinedLock \in {"free", "held", "stale"}
    /\ joinedActive \in (1 .. MaxJoined) \cup {None}
    /\ joinedFallback \in (1 .. MaxJoined) \cup {None, Settled}
    /\ joinedArchive \subseteq 1 .. MaxJoined
    /\ replaced \in [1 .. MaxJoined -> (1 .. MaxJoined) \cup {None}]
    /\ joinedFailed \in Nat /\ joinedClutter \in BOOLEAN
    /\ context.lock \in {"free", "held", "stale"}
    /\ context.active \in Generations \cup {None}
    /\ context.fallback \in Generations \cup {None, Settled}
    /\ context.history \in Seq(Generations)
    /\ context.failed \in Nat /\ context.clutter \in BOOLEAN
    /\ joinedRuns \in 0 .. MaxJoined /\ contextRuns \in 0 .. MaxContext
    /\ failures \in 0 .. MaxFailures
    /\ (context.lock = "held") = (cpc \in Working)
    /\ (context.fallback # Settled) = (cpc \in {"activated", "receipt", "archived"})
    /\ look \in {"none", "lock", "read", "scan", "reread", "relock"}
    /\ vpc \in 0 .. Len(ReaderStages) - 1

\* Evidence of an activation says that one joined generation was the settled one
\* from the check before the marker is committed to the check after it, and that
\* it is the one the committed artifact was derived from.
EvidenceSpansCommit ==
    (cpc \in {"receipt", "archived"} /\ job.mode = "full") =>
        /\ span \subseteq {job.package.source}
        /\ job.package.source \in joinedArchive

\* The context history, with the active marker that a killed run did not archive,
\* is at all times a chain that the reader can replay: every generation is derived
\* from an archived joined generation, no regression lacks its reference, and no
\* older artifact comes back, whichever of the three entry points wrote it, and
\* also when a marker is rolled back after its receipt was linked.
ContextChainReplays ==
    ContextChainValid(Begun(context).history, joinedArchive)

\* The pair that the reader accepts was in place on both sides at one moment after
\* the reader had seen both markers, though no lock covers the two sources and a
\* marker may be rolled back meanwhile; and the context is derived from its partner.
AcceptedPairCoexisted ==
    [][Accepts => /\ coexisted
                  /\ view.context.package.source = view.joined]_vars

\* A run that broke left litter in the joined store, or its receipt in the history
\* of a generation that it withdrew; or the history holds too many receipts.
JoinedSpoilt ==
    \/ failures > 0 /\ joinedClutter
    \/ failures > 0 /\ \E g \in joinedArchive \ {joinedActive} :
                          \A x \in joinedArchive : replaced[x] # g
    \/ Cardinality(joinedArchive) + joinedFailed > MaxReceipts

\* Likewise the context store, or its marker is not in the history yet; and there
\* the active generation may be the one that fills the history, or completes at
\* the time of another.
ContextSpoilt ==
    \/ failures > 0 /\ (context.clutter \/ context.history = <<>>
                        \/ context.history[Len(context.history)] # context.active)
    \/ Len(context.history) + context.failed > MaxReceipts
    \/ Len(context.history) > MaxSuccesses
    \/ \E i, k \in DOMAIN context.history :
          i # k /\ ContextTime[context.history[i].id] = ContextTime[context.history[k].id]

\* A reader that no lock of either source came in the way of refuses only when
\* nothing is active, one of the stores is spoilt, or the joined source has moved on
\* from the context.  In particular the context chain itself is never a cause, and
\* a joined generation that brings an older content back, completes at the time of
\* another or is one too many never is one alone: it is refused before a context
\* is derived from it, so the joined source has then moved on as well.
RefusalHasCause ==
    [][(Refuses /\ ~disturbed) =>
          \/ context.active = None \/ joinedActive = None
          \/ JoinedSpoilt \/ ContextSpoilt
          \/ context.active.package.source # joinedActive]_vars
=============================================================================
