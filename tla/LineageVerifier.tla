--------------------------- MODULE LineageVerifier ---------------------------
(***************************************************************************)
(* The readers and the callbacks that give an ingestion store its lineage: *)
(*   verify_active_fars, and _load_verified_active_fars_joined_activation_ *)
(*   state (src/nearmiss/verified_outcomes.py), which take no lock;        *)
(*   _load_verified_active_fars_year_snapshot and the three checks that    *)
(*   activate_fars_year runs under the lock (verified_fars_years.py and    *)
(*   fars_year_activation.py);                                             *)
(*   the validate_normalized callbacks of the two ingest commands          *)
(*   (__main__.py).                                                        *)
(*                                                                         *)
(* The runners are those of Ingestion with the callbacks of these callers:  *)
(* a stage goes on exactly if its callback returns.                        *)
(* The clock advances, or fails to, between two calls and not during one.  *)
(* One verifier interleaves with them, one file system access at a time.   *)
(* The caller of the year verifier asks for the revision that is active.   *)
(***************************************************************************)
EXTENDS Ingestion, Sequences

CONSTANTS
    Sources,       \* the kinds of source an instance covers
    Payloads,      \* what a source's callers may fetch
    Metric,        \* records_accepted (and every other count) of an artifact
    Waived,        \* artifacts that record the authorization to regress
    Revision,      \* contract revision a year artifact was built under
    MaxReceipts,   \* _MAX_RECEIPTS, a bound for each source
    MaxSuccesses   \* _MAX_SUCCESS_GENERATIONS, likewise

ASSUME LineageAssumption ==
    /\ Sources \subseteq {"fars", "fars-joined", "fars-year"}
    /\ Payloads \in [Sources -> SUBSET Raws]
    /\ Metric \in [Norms -> Nat]
    /\ Revision \in [Norms -> Nat \ {0}]
    /\ Waived \subseteq Norms
    /\ MaxReceipts \in [Sources -> Nat]
    /\ MaxSuccesses \in [Sources -> Nat]

VARIABLES
    source,     \* the kind of this source, which never changes
    began,      \* started_at of each runner's call
    preflight,  \* the receipt history each year runner saw in its preflight
    vpc,        \* the stage of the verifier
    view,       \* what the verifier has read: the active marker, the history
    disturbed,  \* ghost: the lock was held at some moment of the verification
    shaken,     \* ghost: a failure was injected during the verification
    witnessed   \* ghost: what was active at the moments of the verification when
                \* no run held the lock

verifierVars == <<vpc, view, disturbed, shaken, witnessed>>
lineageVars == <<vars, source, began, preflight, verifierVars>>

VerifyingStages == {"current", "scan", "chain", "reread", "relock"}
VerifierStages  == VerifyingStages \cup {"idle", "accepted", "rejected"}
Verifying == vpc \in VerifyingStages

-----------------------------------------------------------------------------
(* Receipt histories.                                                      *)

Listing   == [i \in AttemptIds |-> disk[ReceiptFile(i)]]
NoListing == [i \in AttemptIds |-> None]
NoView    == [marker |-> None, history |-> NoListing]

Records(h)   == {h[i] : i \in AttemptIds} \ {None}
Successes(h) == {m \in Records(h) : m.kind = "success"}

\* _scan_receipts: each entry is read alone, under the name of its attempt,
\* which the receipt of a failed rollback does not have.
Clean ==
    \A i \in AttemptIds : ReceiptFile(i) \notin doubled /\ disk[FailureFile(i)] = None

\* A temporary file is an entry too: of a killed install, or of one in progress.
TemporaryEntry == faults > 0
Installing == \E r \in Runners : pc[r] \in {"archive", "limit", "receipt", "failure"}

\* _ordered_successes, by completion time; equal times fall as the ids do.
Orderings(S) ==
    {s \in [1 .. Cardinality(S) -> S] :
        \A i, j \in DOMAIN s : i < j => s[i] # s[j] /\ s[i].done <= s[j].done}

\* Mutant: a success that completed at the same time is not refused.
ActiveNotEarlier(m, h) ==
    /\ h[m.id] = m
    /\ \A s \in Successes(h) : s.id # m.id => s.done <= m.done

\* The active receipt is archived as it is, and is the latest success.
ActiveIsLatest(m, h) ==
    /\ h[m.id] = m
    /\ \A s \in Successes(h) : s.id # m.id => s.done < m.done

Regression(new, old) == Metric[new] < Metric[old] /\ new \notin Waived

\* _validate_transition of a year: its counts, and its revision by one at most.
TransitionYear(new, old) ==
    /\ Revision[new] \in {Revision[old], Revision[old] + 1}
    /\ ~Regression(new, old)

SameGeneration(m, n) == m.raw = n.raw /\ m.norm = n.norm

\* _verify_success_chain, _verify_joined_chain and _verify_chain: predecessors,
\* artifacts, regressions; a joined or year generation does not come back.
Chain(s) ==
    \A i \in DOMAIN s :
        /\ s[i].prev = IF i = 1 THEN None ELSE s[i - 1].norm
        /\ \/ Resolves(s[i])
           \/ i > 1 /\ SameGeneration(s[i], s[i - 1])
        /\ source # "fars" =>
              \/ i > 1 /\ SameGeneration(s[i], s[i - 1])
              \/ \A j \in 1 .. i - 1 : s[j].norm # s[i].norm
        /\ i > 1 => IF source = "fars-year"
                    THEN TransitionYear(s[i].norm, s[i - 1].norm)
                    ELSE ~Regression(s[i].norm, s[i - 1].norm)
        /\ (i = 1 /\ source = "fars-year") => Revision[s[i].norm] = 1

-----------------------------------------------------------------------------
(* What the callbacks require of a runner's step, by source.               *)

Passes(r, from, to) == pc[r] = from /\ pc'[r] = to

\* Mutant: the counts are compared in the wrong direction.
CandidateAcceptedReversed(r) ==
    LET j == job[r]
    IN j.prev # None => ~Regression(j.prev.norm, Normalize[j.raw])

\* _validate_fars_normalized_candidate and its joined counterpart.
CandidateAccepted(r) ==
    LET j == job[r]
    IN j.prev # None => ~Regression(Normalize[j.raw], j.prev.norm)

\* Mutant: the check leaves no room for the receipt of this attempt.
RoomForPrior(h) == Cardinality(Records(h)) <= MaxReceipts[source]

RoomForReceipt(h) == Cardinality(Records(h)) < MaxReceipts[source]

Room(h) ==
    /\ RoomForReceipt(h)
    /\ Cardinality(Successes(h)) < MaxSuccesses[source]

\* _preflight_fars_year_ingestion_locked.
PreflightYear(r) == lock = job[r].run /\ Clean /\ Room(Listing)

\* _require_expected_preflight: the lock and the history are those it saw.
AsInPreflight(r) == lock = job[r].run /\ Clean /\ Listing = preflight[r]

\* _validate_fars_year_receipt_finalization_locked.
FinalizationYear(r) ==
    AsInPreflight(r) /\ RoomForReceipt(Listing)

\* _validate_fars_year_history_candidate_locked.
HistoryYear(r) ==
    LET new  == job[r].normRef
        past == Successes(Listing)
    IN /\ AsInPreflight(r)
       /\ RoomForReceipt(Listing)
       /\ IF current = None THEN past = {} /\ Revision[new] = 1
          ELSE /\ ActiveIsLatest(current, Listing)
               /\ \E s \in Orderings(past) : Chain(s)
               /\ current.done < began[r]
               /\ new = current.norm \/ \A m \in past : m.norm # new
               /\ TransitionYear(new, current.norm)

\* _verify_activated_fars_year_locked, with _locked_successes.
ActivatedYear(r) ==
    LET m    == job[r].cand
        past == Successes(Listing)
    IN /\ AsInPreflight(r)
       /\ Room(Listing)
       /\ Listing[m.id] = None
       /\ \A s \in past : s.done < m.done
       /\ \E s \in Orderings(past \cup {m}) : Chain(s)

\* Mutant: run_ingestion is not given validate_history and validate_activated.
YearCheckOfRoom(r) ==
    \/ pc[r] = "own" /\ PreflightYear(r)
    \/ pc[r] \in {"history", "validate"}
    \/ pc[r] \in {"finalize", "failure"} /\ FinalizationYear(r)

\* The check of a year that the stage of r runs.
YearCheck(r) ==
    \/ pc[r] = "own" /\ PreflightYear(r)
    \/ pc[r] = "history" /\ HistoryYear(r)
    \/ pc[r] = "validate" /\ ActivatedYear(r)
    \/ pc[r] \in {"finalize", "failure"} /\ FinalizationYear(r)

Checked == {"own", "limit", "history", "validate", "finalize", "failure"}

\* A checked stage goes on, or installs its receipt, when its check returned.
Returned(r) ==
    \/ Passes(r, "own", "fetch") \/ Passes(r, "history", "precommit")
    \/ Passes(r, "validate", "finalize") \/ Passes(r, "finalize", "receipt")
    \/ pc[r] \in {"limit", "failure"} /\ disk' # disk

\* The other two sources have no such callback, and only they compare counts and
\* take the limits on an artifact from their caller.
Callbacks(r) ==
    /\ Passes(r, "load", "limit") => source # "fars-year"
    /\ Passes(r, "fetch", "raw") => job'[r].raw \in Payloads[source]
    /\ Passes(r, "history", "precommit") => job'[r].cand.done = began[r]
    /\ (source # "fars-year" /\ Passes(r, "normalize", "history"))
          => CandidateAccepted(r)
    /\ (source = "fars-year" /\ Returned(r)) => YearCheck(r)
    /\ (pc[r] \in Checked /\ ~Returned(r) /\ faults' = faults)
          => \/ source = "fars-year" /\ (~YearCheck(r) \/ TemporaryEntry)
             \/ pc[r] = "validate" /\ ~Resolves(job[r].cand)
             \/ pc[r] = "failure" /\ ~(/\ Recordable(job[r])
                                      /\ disk[ReceiptFile(job[r].id)] = None)

RunnerStep(r) ==
    /\ \/ Start(r) /\ \E d \in ClockSteps : began' = [began EXCEPT ![r] = clock + d]
       \/ /\ Step(r) \/ Kill(r)
          /\ Callbacks(r)
          /\ began' = IF pc'[r] = "idle" THEN [began EXCEPT ![r] = 0] ELSE began
    /\ preflight' = [preflight EXCEPT ![r] =
                       IF pc'[r] = "idle" THEN NoListing
                       ELSE IF Passes(r, "own", "fetch") THEN Listing
                       ELSE @]

-----------------------------------------------------------------------------
(* The verifier.                                                           *)

Reject == vpc' = "rejected" /\ view' = NoView

\* _lock_absent, before anything is read.
CheckUnlocked ==
    /\ vpc = "idle"
    /\ vpc' = IF lock = 0 THEN "current" ELSE "rejected"
    /\ UNCHANGED view

\* Mutant: a store without an active marker is not refused.
ReadMarkerAbsent ==
    /\ vpc = "current"
    /\ vpc' = "scan" /\ view' = [view EXCEPT !.marker = current]

ReadMarker ==
    /\ vpc = "current"
    /\ IF current = None THEN Reject
       ELSE vpc' = "scan" /\ view' = [view EXCEPT !.marker = current]

ScanReceipts ==
    /\ vpc = "scan"
    /\ \/ /\ Clean
          /\ Cardinality(Records(Listing)) <= MaxReceipts[source]
          /\ vpc' = "chain" /\ view' = [view EXCEPT !.history = Listing]
       \/ ~(Clean /\ Cardinality(Records(Listing)) <= MaxReceipts[source]) /\ Reject
       \/ (TemporaryEntry \/ Installing) /\ Reject

VerifyChain ==
    /\ vpc = "chain"
    /\ \E s \in Orderings(Successes(view.history)) :
          IF /\ ActiveIsLatest(view.marker, view.history)
             /\ Cardinality(Successes(view.history)) <= MaxSuccesses[source]
             /\ Chain(s)
             /\ s[Len(s)] = view.marker
          THEN vpc' = "reread" /\ UNCHANGED view
          ELSE Reject

\* The marker again, and the history of a year.
RereadMarker ==
    /\ vpc = "reread"
    /\ IF /\ current = view.marker
          /\ source = "fars-year" => Clean /\ Listing = view.history
       THEN vpc' = "relock" /\ UNCHANGED view
       ELSE Reject

\* Mutant: the lock is looked at only before the verification.
CheckStillUnlockedNever ==
    /\ vpc = "relock"
    /\ vpc' = "accepted"
    /\ UNCHANGED view

CheckStillUnlocked ==
    /\ vpc = "relock"
    /\ IF lock = 0 THEN vpc' = "accepted" /\ UNCHANGED view ELSE Reject

VerifierStep ==
    \/ CheckUnlocked \/ ReadMarker \/ ScanReceipts \/ VerifyChain \/ RereadMarker
    \/ CheckStillUnlocked

\* The ghosts say what happens while the verifier runs, and what it accepts keeps
\* of them.
Ghosts ==
    /\ disturbed' = (vpc' \in VerifyingStages /\ (disturbed \/ lock' # 0))
    /\ shaken' = (/\ vpc' \in VerifyingStages \cup {"accepted"}
                  /\ shaken \/ (Verifying /\ faults' # faults))
    /\ witnessed' =
          IF vpc' \in VerifyingStages
          THEN witnessed \cup (IF lock' = 0 THEN {current'} ELSE {})
          ELSE IF vpc' = "accepted" THEN witnessed ELSE {}

LineageInit ==
    /\ Init
    /\ source \in Sources
    /\ began = [r \in Runners |-> 0]
    /\ preflight = [r \in Runners |-> NoListing]
    /\ vpc = "idle"
    /\ view = NoView
    /\ disturbed = FALSE
    /\ shaken = FALSE
    /\ witnessed = {}

LineageNext ==
    /\ UNCHANGED source
    /\ \/ /\ \/ \E r \in Runners : RunnerStep(r)
             \/ ClearLock /\ UNCHANGED <<began, preflight>>
          /\ UNCHANGED <<vpc, view>>
       \/ VerifierStep /\ UNCHANGED <<vars, began, preflight>>
    /\ Ghosts

LineageSpec == LineageInit /\ [][LineageNext]_lineageVars

-----------------------------------------------------------------------------
(* Properties.                                                             *)

\* The types of the variables; a verifier that has read the active marker holds
\* a success receipt (`_active_success').
LineageTypeOK ==
    /\ source \in Sources
    /\ began \in [Runners -> Nat]
    /\ \A r \in Runners, i \in AttemptIds : preflight[r][i] \in Receipts \cup {None}
    /\ vpc \in VerifierStages
    /\ vpc \in {"scan", "chain", "reread", "relock", "accepted"} =>
          view.marker \in SuccessReceipts
    /\ \A i \in AttemptIds : view.history[i] \in Receipts \cup {None}
    /\ {disturbed, shaken} \subseteq BOOLEAN
    /\ witnessed \subseteq SuccessReceipts \cup {None}

\* What a verifier accepted without a lock, and with no failure meanwhile, is the
\* committed lineage: the marker it read is archived and was not rolled back, no
\* success before it is missing from what was replayed, and the replay holds.
AcceptedLineage ==
    (vpc = "accepted" /\ ~shaken) =>
        LET m == view.marker
            past == Successes(view.history)
        IN /\ Archived(m)
           /\ current # None /\ m.done <= current.done
           /\ past = {s \in Successes(Listing) : s.done < m.done} \cup {m}
           /\ \E s \in Orderings(past) : Chain(s)

\* A verification without a failure meanwhile has a moment to which it belongs:
\* one when no run held the lock and the accepted generation was the active one,
\* although the verifier looks at the lock only before and after.
AcceptedWasActive == (vpc = "accepted" /\ ~shaken) => view.marker \in witnessed

Tie   == \E m, n \in Successes(Listing) : m # n /\ m.done = n.done
Reuse == \E m, n \in Successes(Listing) : m # n /\ m.norm = n.norm /\ m.prev # m.norm

\* A store that runs have written without a failure, and that no run holds, is
\* refused only for one of the reasons the runs do not rule out: nothing is active,
\* two successes share a completion time, a joined generation came back, or the
\* history outgrew the verifier.  A year, whose callbacks check all of it, never is.
RejectionHasCause ==
    [][(Verifying /\ vpc' = "rejected" /\ ~disturbed /\ faults = 0) =>
          \/ current = None
          \/ /\ source # "fars-year"
             /\ \/ Tie
                \/ source = "fars-joined" /\ Reuse
                \/ Cardinality(Records(Listing)) > MaxReceipts[source]
                \/ Cardinality(Successes(Listing)) > MaxSuccesses[source]]_lineageVars

\* Between two calls the archived successes of a year up to its active one are a
\* chain of revisions that starts at 1 and skips none, at distinct times, whatever
\* calls failed or were killed in between.
YearChain ==
    (source = "fars-year" /\ lock = 0 /\ current # None /\ Archived(current)) =>
        LET past == {m \in Successes(Listing) : m.done <= current.done}
        IN /\ \E s \in Orderings(past) : Chain(s) /\ s[Len(s)] = current
           /\ \A m, n \in past : m.done = n.done => m = n

\* Unless a rollback has failed, which its failure file tells every reader, the
\* receipts of a year never outgrow what its verifier reads, and an active
\* generation that is not archived yet always has a place.
WithinCapacity ==
    (source = "fars-year" /\ \A i \in AttemptIds : disk[FailureFile(i)] = None) =>
        LET entries == Cardinality(Records(Listing))
        IN /\ entries <= MaxReceipts[source]
           /\ Cardinality(Successes(Listing)) <= MaxSuccesses[source]
           /\ (lock = 0 /\ current # None /\ ~Archived(current)) =>
                 entries < MaxReceipts[source] \/ disk[ReceiptFile(current.id)] # None
=============================================================================
