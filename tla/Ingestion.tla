------------------------------ MODULE Ingestion ------------------------------
(***************************************************************************)
(* run_ingestion (src/nearmiss/ingestion.py): runners that fetch, preserve *)
(* and normalize a payload and activate it as the dataset of one source,   *)
(* serialized by a lock directory.  An action is one stage of the          *)
(* function: the code between two points where another process, a failure  *)
(* or a reader can see what the stage left on disk.                        *)
(*                                                                         *)
(* Callbacks (fetch, normalize and the five validators) either return or   *)
(* raise.  Failures of the file system, KeyboardInterrupt/SystemExit, a    *)
(* killed process and a power loss are injected, up to MaxFaults of them.  *)
(***************************************************************************)
EXTENDS PrivateStore

CONSTANTS
    Runners,   \* processes that call run_ingestion
    MaxRuns,   \* bound on the calls
    ReuseIds,  \* TRUE: callers may pass an attempt_id that was used before
    ClockSteps,  \* what the injected clock may advance by between two readings
    Settled    \* stands for "nothing to fall back to" in the refinement

ASSUME RunAssumption ==
    /\ MaxRuns \in Nat \ {0}
    /\ AttemptIds = 1 .. MaxRuns
    /\ ReuseIds \in BOOLEAN
    /\ ClockSteps \subseteq Nat
    /\ {None, Settled} \cap Receipts = {}
    /\ None # Settled

VARIABLES
    lock,    \* 0, or the identity of the lock directory: the run that made it
    clock,   \* the injected clock, read for completion timestamps
    runs,    \* number of calls so far
    pc,      \* the stage of each runner
    job      \* the local variables of each runner's call

vars == <<storeVars, lock, clock, runs, pc, job>>

NoJob ==
    [id |-> None, run |-> 0, prev |-> None, raw |-> None, rawRef |-> None,
     normRef |-> None, cand |-> None, stage |-> "none", exc |-> "none",
     rbFailed |-> FALSE, retain |-> FALSE, result |-> "none"]

\* Stages inside the try block of run_ingestion: an exception there is handled.
Protected == {"fetch", "raw", "normalize", "history", "precommit", "commit",
              "validate", "finalize", "receipt"}
\* Stages before it: an exception releases the lock and propagates.
Preflight == {"load", "archive", "own", "limit"}
Recovery  == {"handle", "rollback", "failure"}
Owning    == Preflight \cup Protected \cup Recovery \cup {"release"}
Stages    == Owning \cup {"idle", "lock"}

Results == {"none", "success", "failed", "unrecorded", "undetermined",
            "interrupted", "raised"}

Owns(r) == pc[r] \in Owning

Goto(r, stage, j) ==
    /\ pc' = [pc EXCEPT ![r] = stage]
    /\ job' = [job EXCEPT ![r] = j]

Dies(r) == Goto(r, "idle", NoJob)

Quiet == UNCHANGED <<disk, volatile, doubled, unlinked, current, durable>>

\* An exception inside the try block; a kill runs no handler.
Raise(r, e) ==
    /\ e \in Stops
    /\ IF e = "kill" THEN Dies(r)
       ELSE Goto(r, "handle", [job[r] EXCEPT !.stage = pc[r], !.exc = e])

\* Leave the call with the given outcome, through the release of the lock.
Leave(r, outcome) == Goto(r, "release", [job[r] EXCEPT !.result = outcome])

LeaveRaising(r, e, outcome) ==
    /\ e \in Stops
    /\ IF e = "kill" THEN Dies(r)
       ELSE Leave(r, IF e = "interrupt" THEN "interrupted" ELSE outcome)

-----------------------------------------------------------------------------
(* Before the lock: the start timestamp and the attempt id are taken.      *)

Start(r) ==
    /\ pc[r] = "idle"
    /\ runs < MaxRuns
    /\ runs' = runs + 1
    /\ \E i \in (IF ReuseIds THEN 1 .. runs' ELSE {runs'}) :
          Goto(r, "lock", [NoJob EXCEPT !.id = i, !.run = runs'])
    /\ Quiet /\ Calm
    /\ UNCHANGED <<lock, clock>>

\* Mutant: mkdir with exist_ok, so a lock that is there is taken over.
AcquireLockExisting(r) ==
    /\ pc[r] = "lock"
    /\ lock' = job[r].run
    /\ Goto(r, "load", job[r])
    /\ Quiet /\ Calm
    /\ UNCHANGED <<clock, runs>>

\* mkdir of the lock directory, or ConcurrentIngestionError.
AcquireLock(r) ==
    /\ pc[r] = "lock"
    /\ IF lock = 0
       THEN lock' = job[r].run /\ Goto(r, "load", job[r])
       ELSE UNCHANGED lock /\ Dies(r)
    /\ Quiet /\ Calm
    /\ UNCHANGED <<clock, runs>>

\* stat, chmod or sync fails: the new directory is removed, if that works.
AcquireFails(r) ==
    /\ pc[r] = "lock"
    /\ lock = 0
    /\ Strike("exception")
    /\ lock' \in {0, job[r].run}
    /\ Dies(r)
    /\ Quiet
    /\ UNCHANGED <<clock, runs>>

-----------------------------------------------------------------------------
(* The built-in preflight (_preflight_attempt) and the locked preflight.   *)

\* _load_active_marker; the caller's byte limits may be below the marker's.
LoadActive(r) ==
    /\ pc[r] = "load"
    /\ \/ /\ current = None
          /\ Goto(r, "own", job[r])
       \/ /\ current # None
          /\ Resolves(current)
          /\ Goto(r, "archive", [job[r] EXCEPT !.prev = current])
       \/ /\ current # None
          /\ Goto(r, "limit", job[r])
       \/ /\ current # None
          /\ ~Resolves(current)
          /\ Leave(r, "raised")
    /\ Quiet /\ Calm
    /\ UNCHANGED <<lock, clock, runs>>

\* Mutant: the active marker is not copied into the receipt history.
ArchiveActiveSkipped(r) ==
    /\ pc[r] = "archive"
    /\ Goto(r, "own", job[r])
    /\ Quiet /\ Calm
    /\ UNCHANGED <<lock, clock, runs>>

\* The active marker becomes an immutable receipt, if it is not one already.
\* A larger receipt under its name raises _ActiveArtifactLimitError.
ArchiveActive(r) ==
    /\ pc[r] = "archive"
    /\ LET m == job[r].prev
           f == ReceiptFile(m.id)
       IN \/ Install(f, m) /\ Goto(r, "own", job[r]) /\ Calm
          \/ \E e \in Stops :
                InstallRaises(f, m, e) /\ LeaveRaising(r, e, "raised")
          \/ /\ ~Installable(f, m)
             /\ f \notin doubled
             /\ Goto(r, "limit", [job[r] EXCEPT !.prev = None])
             /\ Quiet /\ Calm
    /\ UNCHANGED <<lock, clock, runs>>

\* Mutant: a receipt collision propagates without releasing the lock.
CheckOwnReceiptLeaking(r) ==
    /\ pc[r] = "own"
    /\ \/ /\ disk[ReceiptFile(job[r].id)] = None
          /\ Goto(r, "fetch", job[r])
       \/ Dies(r)
    /\ Quiet /\ Calm
    /\ UNCHANGED <<lock, clock, runs>>

\* The attempt's own receipt must not exist; then the caller's locked preflight.
CheckOwnReceipt(r) ==
    /\ pc[r] = "own"
    /\ \/ /\ disk[ReceiptFile(job[r].id)] = None
          /\ Goto(r, "fetch", job[r])
       \/ Leave(r, "raised")
    /\ Quiet /\ Calm
    /\ UNCHANGED <<lock, clock, runs>>

\* Mutant: a failure references the payload before it is preserved.
FailureOfFetched(j) ==
    [kind |-> "failure", id |-> j.id, run |-> j.run, done |-> 0,
     raw |-> j.raw, norm |-> j.normRef,
     prev |-> IF j.prev = None THEN None ELSE j.prev.norm,
     activated |-> j.rbFailed]

Failure(j) ==
    [kind |-> "failure", id |-> j.id, run |-> j.run, done |-> 0,
     raw |-> j.rawRef, norm |-> j.normRef,
     prev |-> IF j.prev = None THEN None ELSE j.prev.norm,
     activated |-> j.rbFailed]

\* _write_preflight_limit_failure, unless a caller's check under the lock rejects.
RecordLimit(r) ==
    /\ pc[r] = "limit"
    /\ LET f == ReceiptFile(job[r].id)
           c == Failure(job[r])
       IN \/ Install(f, c) /\ Leave(r, "failed") /\ Calm
          \/ \E e \in Stops :
                InstallRaises(f, c, e) /\ LeaveRaising(r, e, "unrecorded")
          \/ Leave(r, "raised") /\ Quiet /\ Calm
    /\ UNCHANGED <<lock, clock, runs>>

PreflightInterrupted(r) ==
    /\ pc[r] \in Preflight
    /\ \E e \in {"exception", "interrupt"} :
          Strike(e) /\ LeaveRaising(r, e, "raised")
    /\ Quiet
    /\ UNCHANGED <<lock, clock, runs>>

\* An interrupt between two try blocks: no handler releases the lock.
InterruptedUnguarded(r) ==
    /\ pc[r] \in {"load", "fetch"}
    /\ Strike("interrupt")
    /\ Dies(r)
    /\ Quiet
    /\ UNCHANGED <<lock, clock, runs>>

-----------------------------------------------------------------------------
(* The protected stages.                                                   *)

Fetch(r) ==
    /\ pc[r] = "fetch"
    /\ \E x \in Raws : Goto(r, "raw", [job[r] EXCEPT !.raw = x])
    /\ Quiet /\ Calm
    /\ UNCHANGED <<lock, clock, runs>>

PreserveRaw(r) ==
    /\ pc[r] = "raw"
    /\ LET x == job[r].raw
       IN \/ /\ Install(RawFile(x), x)
             /\ Goto(r, "normalize", [job[r] EXCEPT !.rawRef = x])
             /\ Calm
          \/ \E e \in Stops : InstallRaises(RawFile(x), x, e) /\ Raise(r, e)
    /\ UNCHANGED <<lock, clock, runs>>

\* normalize and validate_normalized, then the normalized artifact.
PreserveNormalized(r) ==
    /\ pc[r] = "normalize"
    /\ LET y == Normalize[job[r].raw]
       IN \/ /\ Install(NormFile(y), y)
             /\ Goto(r, "history", [job[r] EXCEPT !.normRef = y])
             /\ Calm
          \/ \E e \in Stops : InstallRaises(NormFile(y), y, e) /\ Raise(r, e)
    /\ UNCHANGED <<lock, clock, runs>>

\* Mutants: a success names the whole prior receipt, or its own digest.
SuccessNamingReceipt(j, now) ==
    [kind |-> "success", id |-> j.id, run |-> j.run, done |-> now,
     raw |-> j.rawRef, norm |-> j.normRef, prev |-> j.prev, activated |-> TRUE]

SuccessNamingItself(j, now) ==
    [kind |-> "success", id |-> j.id, run |-> j.run, done |-> now,
     raw |-> j.rawRef, norm |-> j.normRef,
     prev |-> IF j.prev = None THEN None ELSE j.normRef,
     activated |-> TRUE]

Success(j, now) ==
    [kind |-> "success", id |-> j.id, run |-> j.run, done |-> now,
     raw |-> j.rawRef, norm |-> j.normRef,
     prev |-> IF j.prev = None THEN None ELSE j.prev.norm,
     activated |-> TRUE]

\* validate_history, then the success receipt with its completion timestamp.
BuildMarker(r) ==
    /\ pc[r] = "history"
    /\ clock' \in {clock + d : d \in ClockSteps}
    /\ Goto(r, "precommit", [job[r] EXCEPT !.cand = Success(job[r], clock')])
    /\ Quiet /\ Calm
    /\ UNCHANGED <<lock, runs>>

\* _require_precommit_integrity: the candidate's artifacts and the prior marker.
PrecommitHolds(r) ==
    /\ Resolves(job[r].cand)
    /\ current = job[r].prev
    /\ current # None => Resolves(current)

\* A check that does not hold, or an unreadable file, is _ActiveMarkerChangedError;
\* an I/O error while a file is read is not.
Precommit(r) ==
    /\ pc[r] = "precommit"
    /\ \/ PrecommitHolds(r) /\ Goto(r, "commit", job[r]) /\ Calm
       \/ Strike("read") /\ Raise(r, "exception")
       \/ /\ (~PrecommitHolds(r) /\ Calm) \/ Strike("read")
          /\ Goto(r, "handle",
                  [job[r] EXCEPT !.stage = "precommit", !.exc = "changed"])
    /\ Quiet
    /\ UNCHANGED <<lock, clock, runs>>

Commit(r) ==
    /\ pc[r] = "commit"
    /\ \/ ReplaceMarker(job[r].cand) /\ Goto(r, "validate", job[r]) /\ Calm
       \/ \E e \in Stops : ReplaceMarkerRaises(job[r].cand, e) /\ Raise(r, e)
    /\ UNCHANGED <<lock, clock, runs>>

\* validate_activated and _require_activated_integrity.
ValidateActivated(r) ==
    /\ pc[r] = "validate"
    /\ IF Resolves(job[r].cand) /\ current = job[r].cand
       THEN Goto(r, "finalize", job[r])
       ELSE Raise(r, "exception")
    /\ Quiet /\ Calm
    /\ UNCHANGED <<lock, clock, runs>>

FinalizationAllowed(r) ==
    /\ pc[r] = "finalize"
    /\ Goto(r, "receipt", job[r])
    /\ Quiet /\ Calm
    /\ UNCHANGED <<lock, clock, runs>>

\* Mutant: an error while the success receipt is written is swallowed.
WriteReceiptLoosely(r) ==
    /\ pc[r] = "receipt"
    /\ LET f == ReceiptFile(job[r].id)
       IN \/ Install(f, job[r].cand) /\ Leave(r, "success") /\ Calm
          \/ InstallRaises(f, job[r].cand, "exception") /\ Leave(r, "success")
    /\ UNCHANGED <<lock, clock, runs>>

WriteReceipt(r) ==
    /\ pc[r] = "receipt"
    /\ LET f == ReceiptFile(job[r].id)
       IN \/ Install(f, job[r].cand) /\ Leave(r, "success") /\ Calm
          \/ \E e \in Stops : InstallRaises(f, job[r].cand, e) /\ Raise(r, e)
    /\ UNCHANGED <<lock, clock, runs>>

\* A callback of the stage raises: no failure of the environment is needed.
CallbackRaises(r) ==
    /\ pc[r] \in {"fetch", "normalize", "history", "validate", "finalize"}
    /\ Raise(r, "exception")
    /\ Quiet /\ Calm
    /\ UNCHANGED <<lock, clock, runs>>

StageInterrupted(r) ==
    /\ pc[r] \in Protected
    /\ Strike("interrupt")
    /\ Raise(r, "interrupt")
    /\ Quiet
    /\ UNCHANGED <<lock, clock, runs>>

-----------------------------------------------------------------------------
(* The handler of the protected stages.                                    *)

\* Mutant: the stage that raised decides, and not the file.
MarkerStateByStage(j, marker) ==
    IF j.stage \in {"validate", "finalize", "receipt"} THEN "candidate"
    ELSE "previous"

\* _marker_state; a read that fails is ambiguous too.
MarkerState(j, marker) ==
    IF j.cand # None /\ marker = j.cand THEN "candidate"
    ELSE IF marker = j.prev THEN "previous" ELSE "ambiguous"

\* _ActiveMarkerChangedError: nothing of this attempt is vouched for.
HandleChanged(r) ==
    /\ pc[r] = "handle"
    /\ job[r].exc = "changed"
    /\ Goto(r, "failure", [job[r] EXCEPT !.rawRef = None, !.normRef = None])
    /\ Quiet /\ Calm
    /\ UNCHANGED <<lock, clock, runs>>

HandleAmbiguous(r) ==
    /\ pc[r] = "handle"
    /\ job[r].exc # "changed"
    /\ \/ MarkerState(job[r], current) = "ambiguous" /\ Calm
       \/ Strike("read")
    /\ Goto(r, "release",
            [job[r] EXCEPT !.retain = TRUE,
                           !.result = IF job[r].exc = "interrupt"
                                      THEN "interrupted" ELSE "undetermined"])
    /\ Quiet
    /\ UNCHANGED <<lock, clock, runs>>

\* After a failed activated validation the candidate's artifacts are read again.
\* One that cannot be opened, an IngestionError, leaves both unreferenced.
HandleKnown(r) ==
    /\ pc[r] = "handle"
    /\ job[r].exc # "changed"
    /\ LET state == MarkerState(job[r], current)
           after(j) == IF j.exc = "interrupt"
                       THEN Goto(r, "release", [j EXCEPT !.result = "interrupted"])
                       ELSE Goto(r, IF state = "candidate" THEN "rollback"
                                    ELSE "failure", j)
       IN /\ state # "ambiguous"
          /\ \/ after(job[r]) /\ Calm
             \/ /\ job[r].stage = "validate"
                /\ Strike("read")
                /\ after([job[r] EXCEPT !.rawRef = None, !.normRef = None])
    /\ Quiet
    /\ UNCHANGED <<lock, clock, runs>>

\* Mutant: a rollback always removes the marker.
RollbackToNothing(r) ==
    /\ pc[r] = "rollback"
    /\ ReplaceMarker(None)
    /\ Goto(r, "failure", job[r])
    /\ Calm
    /\ UNCHANGED <<lock, clock, runs>>

\* _rollback_activation: the prior marker, or the absence of one, is restored.
Rollback(r) ==
    /\ pc[r] = "rollback"
    /\ ReplaceMarker(job[r].prev)
    /\ Goto(r, "failure", job[r])
    /\ Calm
    /\ UNCHANGED <<lock, clock, runs>>

\* The rollback raises e; what the marker then is decides what can be said.
RollbackRaises(r) ==
    /\ pc[r] = "rollback"
    /\ \E e \in Stops :
          /\ ReplaceMarkerRaises(job[r].prev, e)
          /\ IF e = "kill" THEN Dies(r)
             ELSE \E seen \in {MarkerState(job[r], current'), "ambiguous"} :
                LET j == [job[r] EXCEPT !.rbFailed = seen = "candidate",
                                        !.retain = seen # "previous"]
                IN IF seen = "ambiguous"
                   THEN Goto(r, "release", [j EXCEPT !.result = "undetermined"])
                   ELSE IF e = "interrupt"
                   THEN Goto(r, "release", [j EXCEPT !.result = "interrupted"])
                   ELSE Goto(r, "failure", j)
    /\ UNCHANGED <<lock, clock, runs>>

\* The closed receipt schema: the message of a rejected finalization is not in
\* its enumeration, and an activated failure must reference both artifacts.
Recordable(j) ==
    /\ j.stage # "finalize"
    /\ j.rbFailed => j.rawRef # None /\ j.normRef # None

\* The failure receipt; validate_receipt_finalization may reject it.
RecordFailure(r) ==
    /\ pc[r] = "failure"
    /\ LET f == IF job[r].rbFailed THEN FailureFile(job[r].id)
                ELSE ReceiptFile(job[r].id)
           c == Failure(job[r])
       IN \/ Recordable(job[r]) /\ Install(f, c) /\ Leave(r, "failed") /\ Calm
          \/ /\ Recordable(job[r])
             /\ \E e \in Stops :
                   InstallRaises(f, c, e) /\ LeaveRaising(r, e, "unrecorded")
          \/ Leave(r, "unrecorded") /\ Quiet /\ Calm
    /\ UNCHANGED <<lock, clock, runs>>

\* The handler itself raises and the finally block still runs: a second
\* interrupt, or an OSError while _candidate_artifacts_authenticated reads an
\* artifact it has opened.  Only IngestionError is caught there: the candidate
\* stays active, with neither a rollback nor a receipt.
HandlerEscapes(r) ==
    /\ \/ /\ pc[r] \in {"handle", "failure"}
          /\ Strike("interrupt")
          /\ Leave(r, "interrupted")
       \/ /\ pc[r] = "handle"
          /\ job[r].stage = "validate"
          /\ Strike("read")
          /\ Leave(r, "raised")
    /\ Quiet
    /\ UNCHANGED <<lock, clock, runs>>

\* Mutant: a call whose lock is retained waits for somebody to clear it.
ReleaseLockWaiting(r) ==
    /\ pc[r] = "release"
    /\ ~job[r].retain
    /\ lock' = IF lock = job[r].run THEN 0 ELSE lock
    /\ Calm
    /\ Dies(r)
    /\ Quiet
    /\ UNCHANGED <<clock, runs>>

\* _finalize_lock and _release_lock: a retained lock, a lock that is not the
\* runner's own, and one that cannot be removed all stay.
ReleaseLock(r) ==
    /\ pc[r] = "release"
    /\ \/ /\ Calm
          /\ lock' = IF ~job[r].retain /\ lock = job[r].run THEN 0 ELSE lock
       \/ /\ Strike("exception")
          /\ UNCHANGED lock
    /\ Dies(r)
    /\ Quiet
    /\ UNCHANGED <<clock, runs>>

-----------------------------------------------------------------------------
(* The environment.                                                        *)

Kill(r) ==
    /\ pc[r] # "idle"
    /\ Strike("kill")
    /\ Dies(r)
    /\ Quiet
    /\ UNCHANGED <<lock, clock, runs>>

PowerLoss ==
    /\ LosePower
    /\ pc' = [r \in Runners |-> "idle"]
    /\ job' = [r \in Runners |-> NoJob]
    /\ UNCHANGED <<lock, clock, runs>>

\* An operator removes the lock of a run that has ended, after the inspection
\* that docs/INGESTION.md asks for.
ClearLock ==
    /\ lock # 0
    /\ \A r \in Runners : ~(Owns(r) /\ job[r].run = lock)
    /\ current # None => Resolves(current)
    /\ lock' = 0
    /\ Quiet /\ Calm
    /\ UNCHANGED <<clock, runs, pc, job>>

Step(r) ==
    \/ AcquireLock(r) \/ AcquireFails(r)
    \/ LoadActive(r) \/ ArchiveActive(r) \/ CheckOwnReceipt(r) \/ RecordLimit(r)
    \/ PreflightInterrupted(r) \/ InterruptedUnguarded(r)
    \/ Fetch(r) \/ PreserveRaw(r) \/ PreserveNormalized(r) \/ BuildMarker(r)
    \/ Precommit(r) \/ Commit(r) \/ ValidateActivated(r)
    \/ FinalizationAllowed(r) \/ WriteReceipt(r)
    \/ CallbackRaises(r) \/ StageInterrupted(r)
    \/ HandleChanged(r) \/ HandleAmbiguous(r) \/ HandleKnown(r)
    \/ Rollback(r) \/ RollbackRaises(r) \/ RecordFailure(r)
    \/ HandlerEscapes(r) \/ ReleaseLock(r)

Init ==
    /\ StoreInit
    /\ lock = 0
    /\ clock = 0
    /\ runs = 0
    /\ pc = [r \in Runners |-> "idle"]
    /\ job = [r \in Runners |-> NoJob]

Next ==
    \/ \E r \in Runners : Start(r) \/ Step(r) \/ Kill(r)
    \/ PowerLoss
    \/ ClearLock

Spec == Init /\ [][Next]_vars

(***************************************************************************)
(* A call that is running keeps running: run_ingestion waits for nothing.  *)
(* Nothing makes anybody start a run, or look after a lock left behind.    *)
(***************************************************************************)
FairSpec == Spec /\ \A r \in Runners : WF_vars(Step(r))

-----------------------------------------------------------------------------
(* Properties.                                                             *)

Jobs ==
    [id : AttemptIds \cup {None}, run : 0 .. MaxRuns,
     prev : SuccessReceipts \cup {None}, raw : Raws \cup {None},
     rawRef : Raws \cup {None}, normRef : Norms \cup {None},
     cand : SuccessReceipts \cup {None}, stage : Protected \cup {"none"},
     exc : {"none", "exception", "interrupt", "changed"},
     rbFailed : BOOLEAN, retain : BOOLEAN, result : Results]

(* Every variable holds a value of its kind; in particular nothing but a   *)
(* complete success receipt is ever written to current.json.               *)
TypeOK ==
    /\ StoreTypeOK
    /\ lock \in 0 .. MaxRuns
    /\ clock \in Nat
    /\ runs \in 0 .. MaxRuns
    /\ pc \in [Runners -> Stages]
    /\ job \in [Runners -> Jobs]

(* The lock serializes writers: no two runners are inside the locked part  *)
(* of run_ingestion at once, whatever died or was cleared before, and the  *)
(* lock directory a runner works under is the one it made.                 *)
OneWriter ==
    /\ \A r \in Runners : Owns(r) => lock = job[r].run
    /\ \A r, s \in Runners : Owns(r) /\ Owns(s) => r = s

(* A reader that follows current.json finds both immutable artifacts with  *)
(* the bytes the marker names, through every failure, kill and recovery.   *)
MarkerResolves == current # None => Resolves(current)

(* The bytes the active marker names are on the disk, also after a power   *)
(* loss, which may leave an entry with a second link that no reader takes. *)
MarkerPreserved ==
    current # None => /\ disk[RawFile(current.raw)] = current.raw
                      /\ disk[NormFile(current.norm)] = current.norm

ReceiptsOnDisk ==
    {disk[ReceiptFile(i)] : i \in AttemptIds}
    \cup {disk[FailureFile(i)] : i \in AttemptIds}

SuccessesOnDisk == ReceiptsOnDisk \cap SuccessReceipts
FailuresOnDisk  == ReceiptsOnDisk \cap FailureReceipts

(* The prior generation a success receipt names by its digest is itself in *)
(* the immutable history, and was completed earlier.                       *)
ChainResolves ==
    \A m \in SuccessesOnDisk \cup ({current} \ {None}) :
        m.prev # None =>
            \E old \in SuccessesOnDisk :
                /\ Archived(old)
                /\ old.norm = m.prev
                /\ old.done < m.done

(* A later generation replaces the active one only after preflight has put *)
(* the active marker into the immutable receipt history.                   *)
SupersededIsArchived ==
    [][ /\ current # None
        /\ current' # None
        /\ current'.done > current.done
        => Archived(current) ]_vars

(* What a caller is told is what happened.  A result means that the        *)
(* candidate is active and archived.  A failure that releases the lock     *)
(* means that the marker is the prior one.  After an interrupt that        *)
(* releases the lock it is the prior or the new one.  A failed rollback    *)
(* keeps the lock, and the candidate.  An exception that is not of the     *)
(* package's own leaves a started transaction only from the handler of a   *)
(* failed activated validation, and then the candidate stays active.       *)
ResultTruthful ==
    \A r \in Runners :
        LET j == job[r]
        IN pc[r] = "release" =>
              /\ j.result = "success" => current = j.cand /\ Archived(j.cand)
              /\ /\ j.result \in {"failed", "unrecorded"}
                 /\ j.stage # "none" /\ ~j.rbFailed
                 => ~j.retain /\ current = j.prev
              /\ j.result = "interrupted" /\ ~j.retain /\ j.stage # "none"
                 => current \in {j.prev, j.cand}
              /\ j.rbFailed => j.retain /\ current = j.cand
              /\ j.result = "raised" /\ j.stage # "none"
                 => j.stage = "validate" /\ ~j.retain /\ current = j.cand

(* A failure receipt that says activated = false is never of the run whose *)
(* marker is active; one that says activated = true (a failed rollback) is *)
(* of a run whose marker is active or was archived before it was replaced. *)
FailureReceiptsTruthful ==
    \A f \in FailuresOnDisk :
        IF f.activated
        THEN \E m \in SuccessesOnDisk \cup ({current} \ {None}) : m.run = f.run
        ELSE current # None => current.run # f.run

(* No receipt references an artifact that is not preserved: the digests of *)
(* a receipt are set only after _install_immutable has returned.           *)
ReceiptsResolve ==
    \A m \in SuccessesOnDisk \cup FailuresOnDisk :
        /\ m.raw # None => Holds(RawFile(m.raw), m.raw)
        /\ m.norm # None => Holds(NormFile(m.norm), m.norm)

\* What a preflight makes of a marker: both artifacts are there, and its receipt is or can be.
PreflightAccepts(m) == Resolves(m) /\ Installable(ReceiptFile(m.id), m)

SecondLinks(m) == {RawFile(m.raw), NormFile(m.norm), ReceiptFile(m.id)} \cap doubled

(* Whenever the lock is free, the next preflight can validate the active   *)
(* marker and reconcile it into the receipt history, unless one of the     *)
(* three entries that it reads has a second link: whatever else failed or  *)
(* was killed, no other name or content is in its way.                     *)
Reconcilable ==
    lock = 0 /\ current # None /\ SecondLinks(current) = {} => PreflightAccepts(current)

(* docs/INGESTION.md:70 makes no exception: the preflight that follows an  *)
(* interruption reconciles the active marker.                              *)
InterruptionReconciled == lock = 0 /\ current # None => PreflightAccepts(current)

(* With the lock free and the active marker archived, the success receipts *)
(* form the chain that verified_outcomes.py requires: each names as its    *)
(* predecessor the success that completed just before it.                  *)
AuditChainLinear ==
    lock = 0 /\ current # None /\ Archived(current) =>
        \A m \in SuccessesOnDisk :
            LET earlier == {old \in SuccessesOnDisk : old.done < m.done}
            IN IF earlier = {} THEN m.prev = None
               ELSE \E old \in earlier :
                       /\ \A other \in earlier : other.done <= old.done
                       /\ m.prev = old.norm

(* A call that is running ends, whatever raises inside it.                 *)
RunsEnd == \A r \in Runners : pc[r] # "idle" ~> pc[r] = "idle"

Stale == lock # 0 /\ \A r \in Runners : ~Owns(r)

\* r ends without giving back the lock, and how.
LeavesLock(r) ==
    /\ pc[r] # "idle" /\ pc'[r] = "idle"
    /\ \/ pc[r] = "release" /\ job[r].retain
       \/ /\ faults' > faults
          /\ \/ pc[r] \in {"lock", "load", "fetch", "release"}
             \/ Faults \cap {"kill", "power"} # {}

(* A lock is left behind only by these: a call that was told to retain it; *)
(* a failure in the acquisition, in the gaps before the two try blocks, or *)
(* in the release itself; and, in a run that has them, a kill or a power   *)
(* loss.  Every other exit, by whatever failure, gives it back, and a call *)
(* is told to retain the lock only at a step in which something failed.    *)
StaleLockHasCause ==
    [][ /\ ~Stale /\ Stale' => \E r \in Runners : LeavesLock(r)
        /\ \A r \in Runners :
              ~job[r].retain /\ job'[r].retain => faults' > faults ]_vars

-----------------------------------------------------------------------------
(* What readers of the source are promised: ActiveDataset.                 *)

Tentative(r) ==
    /\ pc[r] \in {"validate", "finalize", "receipt", "handle", "rollback"}
    /\ job[r].cand # None
    /\ current = job[r].cand

Dataset == INSTANCE ActiveDataset WITH
    Generations <- SuccessReceipts,
    active   <- current,
    fallback <- IF \E r \in Runners : Tentative(r)
                THEN job[CHOOSE r \in Runners : Tentative(r)].prev
                ELSE Settled,
    archive  <- SuccessesOnDisk

(* run_ingestion implements the abstract dataset: a generation is replaced *)
(* only once archived, and withdrawn only by the attempt that activated it.*)
ImplementsDataset == Dataset!Spec
=============================================================================
