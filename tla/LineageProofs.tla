---------------------------- MODULE LineageProofs ----------------------------
(* Proofs about LineageVerifier: what a verifier accepts, the room for the *)
(* receipts of a year's calls and the chain they keep.  The runners are    *)
(* those of Ingestion without a power loss, whose invariants hold here.    *)
EXTENDS LineageVerifier, IngestionHistoryProofs, FiniteSetTheorems

(* The stages at which a call may still put the prior marker back.         *)
Late == After \cup {"handle", "rollback"}

\* What is active is m or later, and so is what a call may put back.
Above(m) ==
    /\ current # None /\ m.done <= current.done
    /\ \A r \in Runners : pc[r] \in Late =>
          job[r].prev # None /\ m.done <= job[r].prev.done

\* The call that activated m has installed its receipt and is about to return.
Returning(m) ==
    \E r \in Runners : /\ pc[r] = "release" /\ job[r].result = "success"
                       /\ job[r].cand = m /\ current = m

\* The call that holds the lock, during a verification without a failure.
Held(r) ==
    /\ Owns(r) /\ ~job[r].retain
    /\ pc[r] = "handle" => job[r].exc # "interrupt"
    /\ pc[r] \in Late =>
          /\ job[r].prev \in witnessed
          /\ job[r].cand # None => job[r].cand \notin SuccessesOnDisk
    /\ \/ pc[r] \in Late
       \/ pc[r] = "release" /\ job[r].result = "success"
       \/ current \in witnessed

LockSeen ==
    Verifying /\ ~shaken =>
        IF lock = 0 THEN current \in witnessed ELSE \E r \in Runners : Held(r)

\* What may be under the name receipts/<i>.json.
Receipt(i, x) == x \in Receipts /\ x.id = i

Named ==
    \A i \in AttemptIds :
        disk[ReceiptFile(i)] # None => Receipt(i, disk[ReceiptFile(i)])

\* The marker that was read is settled, about to be, or not in the history.
MarkerSeen ==
    vpc = "scan" /\ ~shaken =>
        LET m == view.marker
        IN /\ m \in SuccessReceipts
           /\ \/ m \notin SuccessesOnDisk
              \/ Above(m) /\ (m \in witnessed \/ Returning(m))

\* Nothing that was read of the history is gone, and nothing older is new.
HistorySeen ==
    vpc \in {"chain", "reread", "relock", "accepted"} /\ ~shaken =>
        LET m == view.marker
            h == view.history
        IN /\ m \in SuccessReceipts
           /\ \A i \in AttemptIds : h[i] # None =>
                 /\ disk[ReceiptFile(i)] = h[i] /\ ReceiptFile(i) \notin doubled
                 /\ Receipt(i, h[i])
           /\ h[m.id] = m =>
                 /\ Above(m)
                 /\ \A x \in Successes(Listing) :
                       x \in Successes(h) \/ m.done <= x.done
                 /\ m \in witnessed \/ (vpc # "accepted" /\ Returning(m))

ChainSeen ==
    vpc \in {"reread", "relock", "accepted"} /\ ~shaken =>
        /\ ActiveIsLatest(view.marker, view.history)
        /\ \E s \in Orderings(Successes(view.history)) : Chain(s)

\* What the verifier may hold.
Views == [marker : SuccessReceipts \cup {None},
          history : [AttemptIds -> Receipts \cup {None}]]

SeenInv ==
    /\ NumberInv /\ Named /\ view \in Views
    /\ vpc \in VerifierStages /\ (vpc = "idle" => ~shaken)
    /\ LockSeen /\ MarkerSeen /\ HistorySeen /\ ChainSeen

Act(r) == Start(r) \/ Step(r) \/ Kill(r)

LEMMA LineageSteps ==
    ASSUME [LineageNext]_lineageVars
    PROVE  \/ \E r \in Runners : Act(r)
           \/ ClearLock
           \/ UNCHANGED vars
BY DEF LineageNext, RunnerStep, Act, lineageVars

LEMMA NumberLineage ==
    ASSUME NumberInv, [LineageNext]_lineageVars
    PROVE  NumberInv'
<1>1. [Next]_vars
  BY LineageSteps DEF Act, Next
<1>2. TrackInv'
  BY <1>1, TrackStep DEF NumberInv
<1>3. CASE \E r \in Runners : Act(r)
  BY <1>2, <1>3, MarksNumberedStep, OwnMarkStep DEF NumberInv, Act
<1>4. CASE ClearLock \/ UNCHANGED vars
  BY <1>2, <1>4, IdleSteps, QuietMarks DEF NumberInv, MarksNumbered, OwnMark
<1>5. QED
  BY <1>3, <1>4, LineageSteps

LEMMA Facts ==
    ASSUME NumberInv
    PROVE  /\ TrackInv /\ TypeInv /\ StoreTypeOK /\ ControlOK /\ Serial
           /\ \A r \in Runners :
                 /\ pc[r] \in Stages /\ job[r] \in Jobs /\ Local(pc[r], job[r])
                 /\ Knows(pc[r], job[r], current, disk, doubled, durable, clock)
                 /\ OwnMark(r)
BY TypeInvIs, JobIs DEF NumberInv, TrackInv, LockInv, Informed

-----------------------------------------------------------------------------
(* How a stage is left.                                                    *)

\* A step of a call that has the lock, when no failure is injected.
CalmStep(r) == Owns(r) /\ Step(r) /\ faults' = faults

LEMMA NoStrike == ASSUME faults \in Nat, faults' = faults, NEW e PROVE ~Strike(e)
BY DEF Strike

LEMMA RaiseLeads ==
    ASSUME ControlOK, NEW r \in Runners, NEW e, Raise(r, e)
    PROVE  \/ e = "kill" /\ pc'[r] = "idle"
           \/ /\ pc'[r] = "handle" /\ job'[r].exc = e
              /\ job'[r].retain = job[r].retain /\ job'[r].result = job[r].result
<1>1. CASE e = "kill"
  BY <1>1, GotoIs DEF Raise, Dies
<1>2. CASE e # "kill"
  <2> DEFINE j == [job[r] EXCEPT !.stage = pc[r], !.exc = e]
  <2>1. /\ j.exc = e /\ j.retain = job[r].retain /\ j.result = job[r].result
    BY JobIs DEF Jobs
  <2>2. Goto(r, "handle", j)
    BY <1>2 DEF Raise
  <2> HIDE DEF j
  <2>3. QED
    BY <2>1, <2>2, GotoIs
<1>3. QED
  BY <1>1, <1>2

LEMMA LeaveLeads ==
    ASSUME ControlOK, NEW r \in Runners, NEW o, Leave(r, o)
    PROVE  /\ pc'[r] = "release" /\ job'[r].result = o
           /\ job'[r].retain = job[r].retain
BY GotoIs, JobIs DEF Leave, Jobs

\* Where a call that has the lock goes without a failure.
Leads(r) ==
    /\ pc'[r] # "lock" /\ (pc'[r] = "idle" => pc[r] = "release")
    /\ pc[r] = "release" =>
          pc'[r] = "idle" /\ lock' = IF ~job[r].retain /\ lock = job[r].run THEN 0 ELSE lock
    /\ pc[r] # "release" =>
          /\ lock' = lock
          /\ job'[r].retain => job[r].retain \/ (pc[r] = "handle" /\ pc'[r] = "release")
    /\ pc[r] = "handle" /\ pc'[r] = "release" =>
          job[r].exc = "interrupt" \/ MarkerState(job[r], current) = "ambiguous"
    /\ pc'[r] = "handle" => job'[r].exc \in {"exception", "changed"}
    /\ pc[r] \in Late =>
          \/ pc'[r] \in Late
          \/ pc'[r] = "failure" /\ pc[r] \in {"handle", "rollback"}
          \/ pc'[r] = "release" /\ (job'[r].result = "success" \/ pc[r] = "handle")
    /\ pc[r] = "receipt" /\ pc'[r] \in Late => UNCHANGED disk
    /\ pc[r] = "commit" => pc'[r] \in Late
    /\ pc[r] \in {"lock", "archive"} => pc'[r] \notin Late
    /\ pc[r] \in {"load", "own", "limit"} => pc'[r] \notin Late
    /\ pc'[r] = "release" /\ job'[r].result = "success" => pc[r] = "receipt"

LEMMA PreflightLeads ==
    ASSUME ControlOK, faults \in Nat, faults' = faults, NEW r \in Runners,
           \/ LoadActive(r) \/ ArchiveActive(r) \/ CheckOwnReceipt(r)
           \/ RecordLimit(r)
    PROVE  Leads(r)
<1>1. job[r] \in Jobs
  BY JobIs
<1>2. /\ pc[r] \in {"load", "archive", "own", "limit"} /\ lock' = lock
      /\ \/ pc'[r] \in {"own", "archive", "limit", "fetch"} /\ job'[r].retain = job[r].retain
         \/ /\ pc'[r] = "release" /\ job'[r].result # "success"
            /\ job'[r].retain = job[r].retain
  <2>1. CASE LoadActive(r)
    BY <1>1, <2>1, GotoIs, LeaveLeads DEF LoadActive, Jobs
  <2>2. CASE CheckOwnReceipt(r)
    BY <1>1, <2>2, GotoIs, LeaveLeads DEF CheckOwnReceipt
  <2>3. ASSUME NEW f, NEW c, NEW e, NEW o, e \in Stops, InstallRaises(f, c, e),
               LeaveRaising(r, e, o)
        PROVE  Leave(r, o) 
    BY <2>3, NoStrike DEF InstallRaises, Collides, FailsUnlinked, FailsLinked,
       LeaveRaising
  <2>4. CASE ArchiveActive(r)
    <3>1. \/ Goto(r, "own", job[r]) \/ Leave(r, "raised")
          \/ Goto(r, "limit", [job[r] EXCEPT !.prev = None])
      BY <2>3, <2>4 DEF ArchiveActive
    <3>2. QED
      BY <1>1, <2>4, <3>1, GotoIs, LeaveLeads DEF ArchiveActive, Jobs
  <2>5. CASE RecordLimit(r)
    <3>1. \E o \in {"failed", "unrecorded", "raised"} : Leave(r, o)
      BY <2>3, <2>5 DEF RecordLimit
    <3>2. QED
      BY <1>1, <2>5, <3>1, LeaveLeads DEF RecordLimit
  <2>6. QED
    BY <2>1, <2>2, <2>4, <2>5
<1>3. QED
  BY <1>2 DEF Leads, Late, After

LEMMA CalmRaises ==
    ASSUME faults \in Nat, faults' = faults, NEW f, NEW c, NEW e, InstallRaises(f, c, e)
    PROVE  e = "exception" /\ UNCHANGED disk
BY NoStrike DEF InstallRaises, Collides, FailsUnlinked, FailsLinked

LEMMA StageLeads ==
    ASSUME ControlOK, faults \in Nat, faults' = faults, NEW r \in Runners,
           \/ Fetch(r) \/ PreserveRaw(r) \/ PreserveNormalized(r) \/ BuildMarker(r)
           \/ Precommit(r) \/ Commit(r) \/ ValidateActivated(r)
           \/ FinalizationAllowed(r) \/ WriteReceipt(r) \/ CallbackRaises(r)
    PROVE  Leads(r)
<1>1. job[r] \in Jobs /\ \A e : ~Strike(e)
  BY JobIs, NoStrike
<1>2. ASSUME Raise(r, "exception"), pc[r] \in Protected, lock' = lock,
             pc[r] = "receipt" => UNCHANGED disk
      PROVE  Leads(r)
  BY <1>2, RaiseLeads DEF Leads, Late, After, Protected
<1>3. ASSUME NEW s \in Protected \ Late, NEW j, Goto(r, s, j), j.retain = job[r].retain,
             pc[r] \in Protected \ (Late \cup {"commit"}), lock' = lock
      PROVE  Leads(r)
  BY <1>3, GotoIs DEF Leads, Late, After, Protected
<1>4. CASE Fetch(r)
  BY <1>1, <1>3, <1>4 DEF Fetch, Jobs, Protected, Late, After
<1>5. CASE PreserveRaw(r) \/ PreserveNormalized(r)
  BY <1>1, <1>2, <1>3, <1>5, CalmRaises DEF PreserveRaw, PreserveNormalized, Jobs,
     Protected, Late, After
<1>6. CASE BuildMarker(r)
  BY <1>1, <1>3, <1>6 DEF BuildMarker, Jobs, Protected, Late, After
<1>7. CASE Precommit(r)
  <2>1. CASE Goto(r, "commit", job[r])
    BY <1>3, <1>7, <2>1 DEF Precommit, Protected, Late, After
  <2>2. CASE Goto(r, "handle", [job[r] EXCEPT !.stage = "precommit", !.exc = "changed"])
    <3> DEFINE j == [job[r] EXCEPT !.stage = "precommit", !.exc = "changed"]
    <3>1. j.exc = "changed" /\ j.retain = job[r].retain
      BY <1>1 DEF Jobs
    <3>2. Goto(r, "handle", j) /\ pc[r] = "precommit" /\ lock' = lock
      BY <1>7, <2>2 DEF Precommit
    <3> HIDE DEF j
    <3>3. QED
      BY <3>1, <3>2, GotoIs DEF Leads, Late, After
  <2>3. QED
    BY <1>1, <1>7, <2>1, <2>2 DEF Precommit
<1>8. CASE Commit(r)
  <2>1. Goto(r, "validate", job[r]) /\ pc[r] = "commit" /\ lock' = lock
    BY <1>1, <1>8 DEF Commit, ReplaceMarkerRaises
  <2>2. QED
    BY <2>1, GotoIs DEF Leads, Late, After
<1>9. CASE ValidateActivated(r) \/ FinalizationAllowed(r)
  <2>1. /\ lock' = lock /\ pc[r] \in {"validate", "finalize"}
        /\ \/ Raise(r, "exception")
           \/ Goto(r, "finalize", job[r]) \/ Goto(r, "receipt", job[r])
    BY <1>9 DEF ValidateActivated, FinalizationAllowed
  <2>2. QED
    BY <1>2, <2>1, GotoIs DEF Leads, Late, After, Protected
<1>10. CASE WriteReceipt(r)
  <2>1. /\ lock' = lock /\ pc[r] = "receipt"
        /\ Leave(r, "success") \/ (Raise(r, "exception") /\ UNCHANGED disk)
    BY <1>1, <1>10, CalmRaises DEF WriteReceipt
  <2>2. QED
    BY <1>2, <2>1, LeaveLeads DEF Leads, Late, After, Protected
<1>11. CASE CallbackRaises(r)
  BY <1>2, <1>11 DEF CallbackRaises, Protected, Quiet
<1>12. QED
  BY <1>4, <1>5, <1>6, <1>7, <1>8, <1>9, <1>10, <1>11

LEMMA HandlerLeads ==
    ASSUME ControlOK, faults \in Nat, faults' = faults, NEW r \in Runners,
           \/ HandleChanged(r) \/ HandleAmbiguous(r) \/ HandleKnown(r)
           \/ Rollback(r) \/ RecordFailure(r) \/ ReleaseLock(r)
    PROVE  Leads(r)
<1>1. job[r] \in Jobs /\ \A e : ~Strike(e)
  BY JobIs, NoStrike
<1>2. CASE HandleChanged(r) \/ HandleAmbiguous(r) \/ HandleKnown(r)
  <2>1. pc[r] = "handle" /\ lock' = lock
    BY <1>2 DEF HandleChanged, HandleAmbiguous, HandleKnown
  <2>2. CASE HandleChanged(r)
    <3> DEFINE j == [job[r] EXCEPT !.rawRef = None, !.normRef = None]
    <3>1. j.retain = job[r].retain
      BY <1>1 DEF Jobs
    <3>2. Goto(r, "failure", j)
      BY <2>2 DEF HandleChanged
    <3> HIDE DEF j
    <3>3. QED
      BY <2>1, <3>1, <3>2, GotoIs DEF Leads, Late, After
  <2>3. CASE HandleAmbiguous(r)
    <3> DEFINE o == IF job[r].exc = "interrupt" THEN "interrupted" ELSE "undetermined"
               j == [job[r] EXCEPT !.retain = TRUE, !.result = o]
    <3>1. o # "success" /\ j.result = o
      BY <1>1 DEF Jobs
    <3>2. Goto(r, "release", j) /\ MarkerState(job[r], current) = "ambiguous"
      BY <1>1, <2>3 DEF HandleAmbiguous
    <3> HIDE DEF o, j
    <3>3. QED
      BY <2>1, <3>1, <3>2, GotoIs DEF Leads, Late, After
  <2>4. CASE HandleKnown(r)
    <3> DEFINE state == MarkerState(job[r], current)
               unreferenced == [job[r] EXCEPT !.rawRef = None, !.normRef = None]
               interrupted(j) == [j EXCEPT !.result = "interrupted"]
               after(j) ==
                  IF j.exc = "interrupt"
                  THEN Goto(r, "release", interrupted(j))
                  ELSE Goto(r, IF state = "candidate" THEN "rollback"
                               ELSE "failure", j)
    <3>1. after(job[r]) \/ after(unreferenced)
      BY <2>4 DEF HandleKnown
    <3>2. /\ unreferenced \in Jobs /\ unreferenced.exc = job[r].exc
          /\ unreferenced.retain = job[r].retain
      BY <1>1, StoreAssumption DEF Jobs
    <3>3. ASSUME NEW j \in Jobs PROVE interrupted(j).result = "interrupted"
      BY DEF Jobs
    <3> HIDE DEF state, unreferenced, interrupted
    <3>4. QED
      BY <1>1, <2>1, <3>1, <3>2, <3>3, GotoIs DEF Leads, Late, After
  <2>5. QED
    BY <1>2, <2>2, <2>3, <2>4
<1>3. CASE Rollback(r)
  BY <1>3, GotoIs DEF Rollback, Leads, Late, After
<1>4. CASE RecordFailure(r)
  <2>1. pc[r] = "failure" /\ lock' = lock
        /\ \E o \in {"failed", "unrecorded"} : Leave(r, o)
    BY <1>1, <1>4, CalmRaises DEF RecordFailure, LeaveRaising
  <2>2. QED
    BY <2>1, LeaveLeads DEF Leads, Late, After
<1>5. CASE ReleaseLock(r)
  BY <1>1, <1>5, GotoIs DEF ReleaseLock, Dies, Leads, Late, After
<1>6. QED
  BY <1>2, <1>3, <1>4, <1>5

LEMMA CalmLeads ==
    ASSUME NumberInv, NEW r \in Runners, CalmStep(r)
    PROVE  Leads(r)
<1>1. ControlOK /\ faults \in Nat /\ faults' = faults /\ pc[r] # "lock"
  BY Facts, StoreAssumption DEF StoreTypeOK, CalmStep, Owns, Owning, Preflight,
     Protected, Recovery
<1>2. \A e : ~Strike(e)
  BY <1>1, NoStrike
<1>3. QED
  BY <1>1, <1>2, PreflightLeads, StageLeads, HandlerLeads
     DEF CalmStep, Step, AcquireLock, AcquireFails, PreflightInterrupted,
         InterruptedUnguarded, StageInterrupted, RollbackRaises,
         ReplaceMarkerRaises, HandlerEscapes

-----------------------------------------------------------------------------
(* What a step keeps, with or without a failure.                           *)

LEMMA EarlyLeads ==
    ASSUME NumberInv, NEW r \in Runners, Act(r), pc[r] \in {"lock", "load", "archive"}
    PROVE  pc'[r] \notin Late
<1>1. ControlOK /\ job[r] \in Jobs
  BY Facts
<1>2. ASSUME NEW o, Leave(r, o) PROVE pc'[r] \notin Late
  BY <1>1, <1>2, LeaveLeads DEF Late, After
<1>3. ASSUME Dies(r) PROVE pc'[r] \notin Late
  BY <1>1, <1>3, GotoIs DEF Dies, Late, After
<1>4. ASSUME NEW e, NEW o, LeaveRaising(r, e, o) PROVE pc'[r] \notin Late
  BY <1>2, <1>3, <1>4 DEF LeaveRaising
<1>5. ASSUME NEW s \in {"load", "own", "archive", "limit"}, NEW j, Goto(r, s, j)
      PROVE  pc'[r] \notin Late
  BY <1>1, <1>5, GotoIs DEF Late, After
<1>6. CASE AcquireLock(r) \/ AcquireFails(r) \/ InterruptedUnguarded(r) \/ Kill(r)
  BY <1>3, <1>5, <1>6 DEF AcquireLock, AcquireFails, InterruptedUnguarded, Kill
<1>7. CASE LoadActive(r) \/ ArchiveActive(r) \/ PreflightInterrupted(r)
  BY <1>2, <1>4, <1>5, <1>7 DEF LoadActive, ArchiveActive, PreflightInterrupted
<1>8. QED
  BY <1>6, <1>7 DEF Act, Start, Step, CheckOwnReceipt, RecordLimit, Fetch,
     PreserveRaw, PreserveNormalized, BuildMarker, Precommit, Commit,
     ValidateActivated, FinalizationAllowed, WriteReceipt, CallbackRaises,
     StageInterrupted, Protected, HandleChanged, HandleAmbiguous, HandleKnown,
     Rollback, RollbackRaises, RecordFailure, HandlerEscapes, ReleaseLock

\* Where a call comes from that may put the prior marker back, and what that is.
LEMMA LateKeeps ==
    ASSUME NumberInv, NEW r \in Runners, Act(r), pc'[r] \in Late
    PROVE  /\ job'[r].prev = job[r].prev
           /\ pc[r] \in Late \/ (pc[r] \in Before /\ job[r].prev = current)
           /\ pc[r] \in Late \/ job'[r].cand = None \/ job'[r].cand \notin SuccessesOnDisk
           /\ job'[r].cand = job[r].cand
<1>1. TypeInv /\ Onward(r) /\ pc[r] \in Stages /\ OwnMark(r)
      /\ Knows(pc[r], job[r], current, disk, doubled, durable, clock)
  BY Facts, StepOnward DEF Act
<1>2. pc[r] \notin {"lock", "load", "archive"}
  BY EarlyLeads
<1>3. pc[r] # "idle" /\ Follows(r, pc'[r], job'[r])
  BY <1>1 DEF Onward, Late, After
<1>4. pc[r] \in Late \cup Before
  BY <1>1, <1>2, <1>3 DEF Follows, Stages, Owning, Preflight, Protected, Recovery,
     Late, After, Before
<1>5. pc'[r] # "precommit"
  BY DEF Late, After
<1>6. /\ job'[r].prev = job[r].prev /\ job'[r].cand = job[r].cand
  BY <1>2, <1>3, <1>5 DEF Follows
<1>7. CASE pc[r] \in Before
  BY <1>1, <1>6, <1>7 DEF Knows, Life, Before, Unbuilt, OwnMark
<1>8. QED
  BY <1>4, <1>6, <1>7

LEMMA AboveStep ==
    ASSUME NumberInv, NEW r \in Runners, Act(r), NEW m \in SuccessReceipts, Above(m)
    PROVE  Above(m)'
<1>1. /\ Onward(r) /\ Moves(r) /\ pc[r] \in Stages /\ job[r] \in Jobs
      /\ Knows(pc[r], job[r], current, disk, doubled, durable, clock)
      /\ Local(pc[r], job[r]) /\ current \in SuccessReceipts
  BY Facts, StepOnward, StepMovesMarker DEF Act, StoreTypeOK, Above
<1>2. /\ m.done \in Nat /\ current.done \in Nat
      /\ job[r].prev # None => job[r].prev \in SuccessReceipts /\ job[r].prev.done \in Nat
      /\ job[r].cand # None => job[r].cand \in SuccessReceipts /\ job[r].cand.done \in Nat
  BY <1>1 DEF SuccessReceipts, Jobs
<1>3. current' # None /\ m.done <= current'.done
  <2>1. CASE current' = current
    BY <2>1 DEF Above
  <2>2. CASE pc[r] = "commit" /\ current' = job[r].cand
    <3>1. job[r].cand \in SuccessReceipts /\ job[r].prev = current
      BY <1>1, <2>2 DEF Local, Knows, Life, Before
    <3>2. current.done <= job[r].cand.done /\ job[r].cand # None
      BY <1>1, <2>2, <3>1, MarksAre, Facts DEF Knows, Timed, Owning, Protected
    <3>3. QED
      BY <1>2, <2>2, <3>1, <3>2 DEF Above
  <2>3. CASE pc[r] = "rollback" /\ current' = job[r].prev
    BY <2>3 DEF Above, Late
  <2>4. QED
    BY <1>1, <2>1, <2>2, <2>3 DEF Moves
<1>4. ASSUME NEW s \in Runners, pc'[s] \in Late
      PROVE  job'[s].prev # None /\ m.done <= job'[s].prev.done
  <2>1. CASE s # r
    BY <1>1, <1>4, <2>1 DEF Onward, Above
  <2>2. CASE s = r
    BY <1>1, <1>4, <2>2, LateKeeps DEF Above
  <2>3. QED
    BY <2>1, <2>2
<1>5. QED
  BY <1>3, <1>4 DEF Above

\* A receipt that a step writes has the name of its attempt.
LEMMA EntriesStep ==
    ASSUME NumberInv, Named, NEW r \in Runners, Act(r), NEW i \in AttemptIds
    PROVE  /\ \/ disk'[ReceiptFile(i)] = disk[ReceiptFile(i)]
              \/ /\ disk[ReceiptFile(i)] = None
                 /\ Adds(r, disk'[ReceiptFile(i)])
                 /\ Receipt(i, disk'[ReceiptFile(i)])
           /\ ReceiptFile(i) \in doubled' =>
                 disk[ReceiptFile(i)] = None \/ ReceiptFile(i) \in doubled
<1>1. /\ StoreTypeOK /\ TypeInv /\ Local(pc[r], job[r]) /\ job[r] \in Jobs
      /\ Knows(pc[r], job[r], current, disk, doubled, durable, clock)
  BY Facts
<1>2. ReceiptFile(i) \in Files
  BY FilesAre
<1>3. CASE UNCHANGED <<disk, doubled>>
  BY <1>3
<1>4. ASSUME NEW f, NEW c, Writing(r, f, c), Puts(f, c)
      PROVE  /\ \/ disk'[ReceiptFile(i)] = disk[ReceiptFile(i)]
                \/ /\ disk[ReceiptFile(i)] = None
                   /\ Adds(r, disk'[ReceiptFile(i)])
                   /\ Receipt(i, disk'[ReceiptFile(i)])
             /\ ReceiptFile(i) \in doubled' =>
                   disk[ReceiptFile(i)] = None \/ ReceiptFile(i) \in doubled
  <2>1. f \in Files
    BY <1>1, <1>4, WritingTyped
  <2>2. /\ \A g \in Files \ {f} : disk'[g] = disk[g]
        /\ disk'[f] = disk[f] \/ (disk[f] = None /\ disk'[f] = c)
    BY <1>1, <1>4, <2>1, PutsIs
  <2>3. doubled' = doubled \/ (disk[f] = None /\ doubled' = doubled \cup {f})
    BY <1>4 DEF Puts, Install, InstallRaises, Collides, FailsUnlinked, FailsLinked
  <2>4. f = ReceiptFile(i) => Adds(r, c) /\ Receipt(i, c)
    <3>1. pc[r] = "receipt" =>
             job[r].cand \in SuccessReceipts /\ job[r].cand.id = job[r].id
      BY <1>1, RunAssumption DEF Knows, Life, Local, Receipts
    <3>2. pc[r] = "archive" => job[r].prev \in SuccessReceipts
      BY <1>1 DEF Local, Jobs
    <3>3. pc[r] \in {"limit", "failure"} =>
             Failure(job[r]) \in FailureReceipts /\ Failure(job[r]).id = job[r].id
      BY <1>1, FailureTyped DEF Local, Failure
    <3>4. QED
      BY <1>4, <3>1, <3>2, <3>3 DEF Writing, Adds, ReceiptFile, FailureFile, RawFile,
         NormFile, Receipt, Receipts
  <2>5. QED
    BY <1>2, <2>2, <2>3, <2>4
<1>5. QED
  BY <1>3, <1>4, StepPuts DEF Act

LEMMA NamedStep ==
    ASSUME NumberInv, Named, [LineageNext]_lineageVars
    PROVE  Named'
<1>1. CASE \E r \in Runners : Act(r)
  BY <1>1, EntriesStep DEF Named
<1>2. CASE ClearLock \/ UNCHANGED vars
  BY <1>2, IdleSteps DEF Named
<1>3. QED
  BY <1>1, <1>2, LineageSteps

\* A success that a step adds to the history is active, and so is not early.
LEMMA NewSuccess ==
    ASSUME NumberInv, Named, NEW r \in Runners, Act(r), NEW x \in Successes(Listing)',
           x \notin Successes(Listing)
    PROVE  x = current
<1>1. PICK i \in AttemptIds : x = disk'[ReceiptFile(i)] /\ x # None
  BY DEF Successes, Records, Listing
<1>2. x.kind = "success" /\ x # disk[ReceiptFile(i)]
  BY <1>1 DEF Successes, Records, Listing
<1>3. Adds(r, x)
  BY <1>1, <1>2, EntriesStep
<1>4. Knows(pc[r], job[r], current, disk, doubled, durable, clock)
  BY Facts
<1>5. QED
  BY <1>2, <1>3, <1>4 DEF Adds, Failure, Knows, Life, After

LEMMA NewSuccessOnDisk ==
    ASSUME NumberInv, NEW r \in Runners, Act(r), NEW x \in SuccessesOnDisk',
           x \notin SuccessesOnDisk
    PROVE  x = current
<1>1. TypeInv /\ Knows(pc[r], job[r], current, disk, doubled, durable, clock)
  BY Facts
<1>2. QED
  BY <1>1, SuccessesStep DEF Act, Knows, Life, After

-----------------------------------------------------------------------------
(* The call that holds the lock, during a verification without a failure.  *)

LEMMA HeldStep ==
    ASSUME NumberInv, NumberInv', NEW r \in Runners, CalmStep(r), Held(r),
           pc[r] # "release", witnessed \subseteq witnessed'
    PROVE  Held(r)' /\ lock' = lock
<1>1. /\ Leads(r) /\ Act(r) /\ Onward(r) /\ Moves(r)
      /\ pc[r] \in Stages /\ pc'[r] \in Stages /\ TypeInv
      /\ Knows(pc[r], job[r], current, disk, doubled, durable, clock)
      /\ Knows(pc[r], job[r], current, disk, doubled, durable, clock)'
  <2>1. pc'[r] \in Stages
        /\ Knows(pc[r], job[r], current, disk, doubled, durable, clock)'
    BY DEF NumberInv, TrackInv, LockInv, TypeInv, TypeOK, Informed
  <2>2. QED
    BY <2>1, Facts, CalmLeads, StepOnward, StepMovesMarker DEF CalmStep, Act
<1>2. lock' = lock /\ Owns(r)'
  BY <1>1 DEF Leads, Owns, Stages
<1>3. ~(pc[r] = "handle" /\ pc'[r] = "release")
  BY <1>1 DEF Leads, Held, Knows, Life, MarkerState
<1>4. ~job'[r].retain /\ (pc'[r] = "handle" => job'[r].exc # "interrupt")
  BY <1>1, <1>3 DEF Leads, Held
<1>5. ASSUME pc'[r] \in Late
      PROVE  /\ job'[r].prev \in witnessed'
             /\ job'[r].cand # None => job'[r].cand \notin SuccessesOnDisk'
  <2>1. /\ job'[r].prev = job[r].prev /\ job'[r].cand = job[r].cand
        /\ pc[r] \in Late \/ (pc[r] \in Before /\ job[r].prev = current)
        /\ pc[r] \in Late \/ job[r].cand = None \/ job[r].cand \notin SuccessesOnDisk
    BY <1>1, <1>5, LateKeeps
  <2>2. job[r].prev \in witnessed
    BY <2>1 DEF Held, Before
  <2>3. job[r].cand # None => job[r].cand \notin SuccessesOnDisk
    BY <2>1 DEF Held
  <2>4. pc[r] = "archive" => pc'[r] \notin Late
    BY <1>1 DEF Leads
  <2>5. pc[r] = "receipt" => SuccessesOnDisk' = SuccessesOnDisk
    BY <1>1, <1>5, ReceiptFilesAre DEF Leads, SuccessesOnDisk
  <2>6. QED
    BY <1>1, <1>5, <2>1, <2>2, <2>3, <2>4, <2>5, SuccessesStep DEF Act
<1>6. \/ pc'[r] \in Late
      \/ pc'[r] = "release" /\ job'[r].result = "success"
      \/ current' \in witnessed'
  <2>1. CASE pc[r] \in Late /\ pc'[r] = "failure"
    <3>1. job[r].prev \in witnessed /\ job'[r].prev = job[r].prev
      BY <1>1, <2>1 DEF Held, Onward, Follows, Late, After
    <3>2. current' = job'[r].prev
      BY <1>1, <1>4, <2>1 DEF Knows, Life
    <3>3. QED
      BY <3>1, <3>2
  <2>2. CASE pc[r] \in Late /\ pc'[r] # "failure"
    BY <1>1, <1>3, <2>2 DEF Leads
  <2>3. CASE pc[r] \notin Late /\ pc'[r] \notin Late
    <3>1. current \in witnessed
      BY <2>3 DEF Held
    <3>2. current' = current
      BY <1>1, <2>3 DEF Leads, Moves, Late
    <3>3. QED
      BY <3>1, <3>2
  <2>4. QED
    BY <2>1, <2>2, <2>3
<1>7. QED
  BY <1>2, <1>4, <1>5, <1>6 DEF Held

\* A call without the lock changes nothing, unless it takes it.
LEMMA OutsiderCalm ==
    ASSUME NumberInv, NEW r \in Runners, Act(r), ~Owns(r), faults' = faults
    PROVE  /\ Quiet
           /\ lock' = lock \/ (lock = 0 /\ pc'[r] = "load")
<1>1. ControlOK /\ faults \in Nat
  BY Facts, StoreAssumption DEF StoreTypeOK
<1>2. pc[r] \in {"idle", "lock"} /\ Quiet
  BY Facts, OutsiderQuiet DEF Act, Owns, Stages, NumberInv
<1>3. CASE Start(r) \/ Kill(r)
  BY <1>2, <1>3 DEF Start, Kill
<1>4. CASE AcquireLock(r)
  BY <1>1, <1>2, <1>4, GotoIs DEF AcquireLock
<1>5. ~AcquireFails(r)
  BY <1>1, NoStrike DEF AcquireFails
<1>6. QED
  BY <1>2, <1>3, <1>4, <1>5 DEF Act, Step, LoadActive, ArchiveActive, CheckOwnReceipt,
     RecordLimit, PreflightInterrupted, Preflight, InterruptedUnguarded, Fetch,
     PreserveRaw, PreserveNormalized, BuildMarker, Precommit, Commit,
     ValidateActivated, FinalizationAllowed, WriteReceipt, CallbackRaises,
     StageInterrupted, Protected, HandleChanged, HandleAmbiguous, HandleKnown,
     Rollback, RollbackRaises, RecordFailure, HandlerEscapes, ReleaseLock

\* The step of a call that has the lock is one of Step, without a failure.
LEMMA OwnerCalm ==
    ASSUME NumberInv, NEW r \in Runners, Act(r), Owns(r), faults' = faults
    PROVE  CalmStep(r)
<1>1. faults \in Nat
  BY Facts, StoreAssumption DEF StoreTypeOK
<1>2. ~Start(r) /\ ~Kill(r)
  BY <1>1, NoStrike DEF Start, Kill, Owns, Owning, Preflight, Protected, Recovery
<1>3. QED
  BY <1>2 DEF Act, CalmStep

LEMMA Owners ==
    ASSUME NumberInv
    PROVE  /\ lock = 0 => \A r \in Runners : ~Owns(r)
           /\ \A r \in Runners : Owns(r) => lock = job[r].run
           /\ \A r, s \in Runners : Owns(r) /\ Owns(s) => r = s
           /\ \A r \in Runners : pc[r] \in Late => Owns(r)
           /\ \A r \in Runners : pc[r] = "release" => Owns(r)
<1>1. Serial /\ runs \in Nat
  BY Facts, TypeInvIs, RunAssumption
<1>2. \A r \in Runners : Owns(r) => pc[r] # "idle"
  BY DEF Owns, Owning, Preflight, Protected, Recovery
<1>3. QED
  BY <1>1, <1>2 DEF Serial, Owns, Owning, Protected, Recovery, Late, After

\* What a step of the runners is, seen by the verifier.
LEMMA RunnerFrame ==
    ASSUME LineageNext, UNCHANGED <<vpc, view>>
    PROVE  /\ source' = source
           /\ Verifying' = Verifying
           /\ ~shaken' /\ (Verifying \/ vpc = "accepted") => ~shaken
           /\ ~shaken' /\ Verifying => faults' = faults
           /\ Verifying => witnessed \subseteq witnessed'
                           /\ (lock' = 0 => current' \in witnessed')
           /\ vpc = "accepted" => witnessed' = witnessed
BY DEF LineageNext, Ghosts, Verifying, VerifyingStages

LEMMA VerifierFrame ==
    ASSUME LineageNext, ~UNCHANGED <<vpc, view>>
    PROVE  /\ source' = source /\ UNCHANGED vars /\ VerifierStep
           /\ ~shaken' /\ Verifying /\ vpc' \in VerifyingStages \cup {"accepted"} => ~shaken
           /\ vpc' \in VerifyingStages => witnessed \subseteq witnessed'
           /\ vpc' \in VerifyingStages /\ lock = 0 => current \in witnessed'
           /\ vpc' = "accepted" => witnessed' = witnessed
BY DEF LineageNext, Ghosts, Verifying, VerifyingStages, vars, storeVars

LEMMA VerifierMoves ==
    ASSUME VerifierStep
    PROVE  \/ vpc = "idle" /\ vpc' \in {"current", "rejected"} /\ (vpc' = "current" => lock = 0)
           \/ Verifying /\ vpc' = "rejected"
           \/ vpc = "current" /\ vpc' = "scan" /\ ReadMarker
           \/ vpc = "scan" /\ vpc' = "chain" /\ ScanReceipts
           \/ vpc = "chain" /\ vpc' = "reread" /\ VerifyChain
           \/ vpc = "reread" /\ vpc' = "relock" /\ view' = view
           \/ vpc = "relock" /\ vpc' = "accepted" /\ view' = view /\ lock = 0
BY DEF VerifierStep, CheckUnlocked, ReadMarker, ScanReceipts, VerifyChain,
   RereadMarker, CheckStillUnlocked, Reject, Verifying, VerifyingStages

-----------------------------------------------------------------------------
(* The verification, one part of the invariant at a time.                  *)

LEMMA LockSeenByRunner ==
    ASSUME SeenInv, NumberInv', LineageNext, UNCHANGED <<vpc, view>>
    PROVE  LockSeen'
<1> SUFFICES ASSUME Verifying', ~shaken'
             PROVE  IF lock' = 0 THEN current' \in witnessed'
                    ELSE \E r \in Runners : Held(r)'
  BY DEF LockSeen
<1>1. /\ NumberInv /\ Verifying /\ ~shaken /\ faults' = faults
      /\ witnessed \subseteq witnessed'
      /\ lock' = 0 => current' \in witnessed'
  BY RunnerFrame DEF SeenInv
<1>2. SUFFICES ASSUME lock' # 0 PROVE \E r \in Runners : Held(r)'
  BY <1>1
<1>3. IF lock = 0 THEN current \in witnessed ELSE \E r \in Runners : Held(r)
  BY <1>1 DEF SeenInv, LockSeen
<1>4. ASSUME NEW r \in Runners, Act(r), lock = 0 PROVE \E s \in Runners : Held(s)'
  <2>1. Quiet /\ pc'[r] = "load"
    BY <1>1, <1>2, <1>4, OutsiderCalm, Owners
  <2>2. Knows(pc[r], job[r], current, disk, doubled, durable, clock)'
    BY DEF NumberInv, TrackInv, Informed
  <2>3. ~job'[r].retain
    BY <2>1, <2>2 DEF Knows, Life, Unbuilt
  <2>4. Held(r)'
    BY <1>1, <1>3, <1>4, <2>1, <2>3 DEF Held, Owns, Owning, Preflight, Late, After, Quiet
  <2>5. QED
    BY <2>4
<1>5. ASSUME NEW r \in Runners, Act(r), NEW h \in Runners, Held(h)
      PROVE  \E s \in Runners : Held(s)'
  <2>1. Owns(h) /\ lock = job[h].run /\ ~job[h].retain
    BY <1>1, <1>5, Owners DEF Held
  <2>2. CASE r = h
    <3>1. CalmStep(h)
      BY <1>1, <1>5, <2>1, <2>2, OwnerCalm
    <3>2. pc[h] # "release"
      BY <1>1, <1>2, <2>1, <3>1, CalmLeads DEF Leads
    <3>3. QED
      BY <1>1, <1>5, <3>1, <3>2, HeldStep
  <2>3. CASE r # h
    <3>1. ~Owns(r)
      BY <1>1, <2>1, <2>3, Owners
    <3>2. Quiet
      BY <1>1, <1>5, <3>1, OutsiderCalm
    <3>3. pc'[h] = pc[h] /\ job'[h] = job[h]
      BY <1>1, <1>5, <2>3, Facts, StepOnward DEF Act, Onward
    <3>4. SuccessesOnDisk' = SuccessesOnDisk
      BY <3>2, ReceiptFilesAre DEF Quiet, SuccessesOnDisk
    <3>5. Held(h)'
      BY <1>1, <1>5, <3>2, <3>3, <3>4 DEF Held, Owns, Quiet
    <3>6. QED
      BY <3>5
  <2>4. QED
    BY <2>2, <2>3
<1>6. CASE ClearLock
  <2>1. \A h \in Runners : ~Held(h)
    BY <1>1, <1>6, Owners DEF ClearLock, Held
  <2>2. QED
    BY <1>3, <1>6, <2>1 DEF ClearLock
<1>7. CASE UNCHANGED vars
  <2>1. SuccessesOnDisk' = SuccessesOnDisk
    BY <1>7, IdleSteps, QuietMarks
  <2>2. ASSUME NEW h \in Runners, Held(h) PROVE Held(h)'
    BY <1>1, <1>7, <2>1, <2>2 DEF Held, Owns, vars, storeVars
  <2>3. QED
    BY <1>2, <1>3, <1>7, <2>2 DEF vars
<1>8. QED
  BY <1>3, <1>4, <1>5, <1>6, <1>7, LineageSteps

LEMMA LockSeenByVerifier ==
    ASSUME SeenInv, LineageNext, ~UNCHANGED <<vpc, view>>
    PROVE  LockSeen'
<1> SUFFICES ASSUME Verifying', ~shaken'
             PROVE  IF lock' = 0 THEN current' \in witnessed'
                    ELSE \E r \in Runners : Held(r)'
  BY DEF LockSeen
<1>1. UNCHANGED vars /\ VerifierStep /\ witnessed \subseteq witnessed'
      /\ (lock = 0 => current \in witnessed')
  BY VerifierFrame DEF Verifying, VerifyingStages
<1>2. SuccessesOnDisk' = SuccessesOnDisk
  BY <1>1, IdleSteps, QuietMarks
<1>3. ASSUME NEW h \in Runners, Held(h) PROVE Held(h)'
  BY <1>1, <1>2, <1>3 DEF Held, Owns, vars, storeVars
<1>4. CASE lock = 0
  BY <1>1, <1>4 DEF vars, storeVars
<1>5. CASE lock # 0
  <2>1. Verifying
    BY <1>1, <1>5, VerifierMoves DEF Verifying, VerifyingStages
  <2>2. ~shaken
    BY <2>1, VerifierFrame DEF Verifying, VerifyingStages
  <2>3. QED
    BY <1>1, <1>3, <1>5, <2>1, <2>2 DEF SeenInv, LockSeen, vars
<1>6. QED
  BY <1>4, <1>5

\* The generation a call is about to return for is returned for, or remains so.
LEMMA ReturningStep ==
    ASSUME SeenInv, LineageNext, UNCHANGED <<vpc, view>>, Verifying, ~shaken',
           NEW m, Returning(m)
    PROVE  Returning(m)' \/ m \in witnessed'
<1>1. /\ NumberInv /\ ~shaken /\ faults' = faults
      /\ lock' = 0 => current' \in witnessed'
  BY RunnerFrame DEF SeenInv
<1>2. PICK h \in Runners : /\ pc[h] = "release" /\ job[h].result = "success"
                           /\ job[h].cand = m /\ current = m
  BY DEF Returning
<1>3. Owns(h) /\ lock = job[h].run /\ ~job[h].retain
  <2>1. Owns(h) /\ lock = job[h].run /\ lock # 0
    BY <1>1, <1>2, Owners
  <2>2. PICK s \in Runners : Held(s)
    BY <1>1, <2>1 DEF SeenInv, LockSeen
  <2>3. s = h
    BY <1>1, <2>1, <2>2, Owners DEF Held
  <2>4. QED
    BY <2>1, <2>2, <2>3 DEF Held
<1>4. ASSUME NEW r \in Runners, Act(r), r # h PROVE Returning(m)'
  <2>1. ~Owns(r)
    BY <1>1, <1>3, <1>4, Owners
  <2>2. Quiet
    BY <1>1, <1>4, <2>1, OutsiderCalm
  <2>3. pc'[h] = pc[h] /\ job'[h] = job[h]
    BY <1>1, <1>4, Facts, StepOnward DEF Act, Onward
  <2>4. QED
    BY <1>2, <2>2, <2>3 DEF Returning, Quiet
<1>5. CASE Act(h)
  <2>1. Leads(h) /\ Moves(h)
    BY <1>1, <1>3, <1>5, OwnerCalm, CalmLeads, StepMovesMarker DEF Act
  <2>2. lock' = 0 /\ current' = m
    BY <1>2, <1>3, <2>1 DEF Leads, Moves
  <2>3. QED
    BY <1>1, <2>2
<1>6. CASE ClearLock \/ UNCHANGED vars
  <2>1. UNCHANGED <<current, pc, job>>
    BY <1>6, IdleSteps
  <2>2. QED
    BY <1>2, <2>1 DEF Returning
<1>7. QED
  BY <1>4, <1>5, <1>6, LineageSteps

LEMMA AboveKept ==
    ASSUME NumberInv, LineageNext, NEW m \in SuccessReceipts, Above(m)
    PROVE  Above(m)'
<1>1. CASE ClearLock \/ UNCHANGED vars
  BY <1>1, IdleSteps DEF Above
<1>2. QED
  BY <1>1, LineageSteps, AboveStep

LEMMA SettledKept ==
    ASSUME SeenInv, LineageNext, UNCHANGED <<vpc, view>>, Verifying, ~shaken',
           NEW m, m \in witnessed \/ Returning(m)
    PROVE  m \in witnessed' \/ Returning(m)'
BY ReturningStep, RunnerFrame

\* A call that has the lock during a verification without a failure is the one
\* that SeenInv speaks of, and takes a step without a failure.
LEMMA OwnerHeld ==
    ASSUME SeenInv, LineageNext, UNCHANGED <<vpc, view>>, Verifying, ~shaken',
           NEW r \in Runners, Act(r), Owns(r)
    PROVE  Held(r) /\ Leads(r)
<1>1. NumberInv /\ ~shaken /\ faults' = faults
  BY RunnerFrame DEF SeenInv
<1>2. lock # 0
  BY <1>1, Owners
<1>3. PICK h \in Runners : Held(h)
  BY <1>1, <1>2 DEF SeenInv, LockSeen
<1>4. h = r
  BY <1>1, <1>3, Owners DEF Held
<1>5. QED
  BY <1>1, <1>3, <1>4, OwnerCalm, CalmLeads

LEMMA MarkerSeenByRunner ==
    ASSUME SeenInv, LineageNext, UNCHANGED <<vpc, view>>
    PROVE  MarkerSeen'
<1> SUFFICES ASSUME vpc = "scan", ~shaken', NEW m, m = view.marker
             PROVE  /\ m \in SuccessReceipts
                    /\ \/ m \notin SuccessesOnDisk'
                       \/ Above(m)' /\ (m \in witnessed' \/ Returning(m)')
  BY DEF MarkerSeen, Above, Returning
<1>1. /\ NumberInv /\ Verifying /\ ~shaken /\ TypeInv
  BY RunnerFrame, Facts DEF SeenInv, Verifying, VerifyingStages
<1>2. /\ m \in SuccessReceipts
      /\ m \notin SuccessesOnDisk \/ (Above(m) /\ (m \in witnessed \/ Returning(m)))
  BY <1>1 DEF SeenInv, MarkerSeen
<1>3. CASE m \in SuccessesOnDisk
  BY <1>1, <1>2, <1>3, AboveKept, SettledKept
<1>4. CASE ClearLock \/ UNCHANGED vars
  BY <1>2, <1>3, <1>4, IdleSteps, QuietMarks
<1>5. ASSUME NEW r \in Runners, Act(r), m \notin SuccessesOnDisk, m \in SuccessesOnDisk'
      PROVE  Above(m)' /\ (m \in witnessed' \/ Returning(m)')
  <2>1. /\ m = current
        /\ \/ pc[r] = "archive" /\ m = job[r].prev
           \/ pc[r] = "receipt" /\ m = job[r].cand
    BY <1>1, <1>5, NewSuccessOnDisk, SuccessesStep DEF Act
  <2>2. Owns(r)
    BY <2>1 DEF Owns, Owning, Preflight, Protected
  <2>3. Held(r) /\ Leads(r) /\ Onward(r) /\ current' = current
    BY <1>1, <1>5, <2>1, <2>2, OwnerHeld, StepOnward, StepMovesMarker DEF Act, Moves
  <2>4. pc'[r] \notin Late
    <3>1. UNCHANGED disk => SuccessesOnDisk' = SuccessesOnDisk
      BY ReceiptFilesAre DEF SuccessesOnDisk
    <3>2. QED
      BY <1>5, <2>1, <2>3, <3>1 DEF Leads
  <2>5. ASSUME NEW s \in Runners PROVE pc'[s] \notin Late
    BY <1>1, <2>2, <2>3, <2>4, Owners DEF Onward
  <2>6. Above(m)'
    <3>1. m.done \in Nat /\ m # None
      BY <1>1, <1>2, MarksAre DEF SuccessReceipts
    <3>2. QED
      BY <2>1, <2>3, <2>5, <3>1 DEF Above
  <2>7. CASE pc[r] = "archive"
    <3>1. m \in witnessed
      BY <2>1, <2>3, <2>7 DEF Held, Late, After
    <3>2. QED
      BY <1>1, <2>6, <3>1, RunnerFrame
  <2>8. CASE pc[r] = "receipt"
    <3>1. pc'[r] = "release" /\ job'[r].result = "success"
      BY <2>3, <2>4, <2>8 DEF Leads, Late, After
    <3>2. job'[r].cand = job[r].cand
      BY <2>3, <2>8, <3>1 DEF Onward, Follows
    <3>3. QED
      BY <2>1, <2>3, <2>6, <2>8, <3>1, <3>2 DEF Returning
  <2>9. QED
    BY <2>1, <2>7, <2>8
<1>6. QED
  BY <1>2, <1>3, <1>4, <1>5, LineageSteps

\* What is active when the marker is read.
LEMMA ActiveSeen ==
    ASSUME SeenInv, Verifying, ~shaken, current # None
    PROVE  \/ current \notin SuccessesOnDisk
           \/ Above(current) /\ (current \in witnessed \/ Returning(current))
<1>1. /\ NumberInv /\ current \in SuccessReceipts /\ current.done \in Nat
  <2>1. NumberInv /\ current \in SuccessReceipts
    BY Facts DEF SeenInv, StoreTypeOK
  <2>2. QED
    BY <2>1 DEF SuccessReceipts
<1>2. ASSUME \A r \in Runners : pc[r] \in Late => job[r].prev = current
      PROVE  Above(current)
  BY <1>1, <1>2 DEF Above
<1>3. CASE lock = 0
  BY <1>1, <1>2, <1>3, Owners DEF SeenInv, LockSeen
<1>4. ASSUME NEW h \in Runners, Held(h)
      PROVE  \/ current \notin SuccessesOnDisk
             \/ Above(current) /\ (current \in witnessed \/ Returning(current))
  <2>1. /\ \A r \in Runners : pc[r] \in Late => r = h
        /\ Knows(pc[h], job[h], current, disk, doubled, durable, clock)
    BY <1>1, <1>4, Owners, Facts DEF Held
  <2>2. CASE pc[h] \in Late
    BY <1>2, <1>4, <2>1, <2>2 DEF Held, Knows, Life, Late
  <2>3. CASE pc[h] = "release" /\ job[h].result = "success"
    <3>1. Returning(current)
      BY <2>1, <2>3 DEF Returning, Knows, Life, Truthful
    <3>2. QED
      BY <1>2, <2>1, <2>3, <3>1 DEF Late, After
  <2>4. QED
    BY <1>2, <1>4, <2>1, <2>2, <2>3 DEF Held
<1>5. QED
  BY <1>1, <1>3, <1>4 DEF SeenInv, LockSeen

LEMMA MarkerSeenByVerifier ==
    ASSUME SeenInv, LineageNext, ~UNCHANGED <<vpc, view>>
    PROVE  MarkerSeen'
<1> SUFFICES ASSUME vpc' = "scan", ~shaken', NEW m, m = view'.marker
             PROVE  /\ m \in SuccessReceipts
                    /\ \/ m \notin SuccessesOnDisk'
                       \/ Above(m)' /\ (m \in witnessed' \/ Returning(m)')
  BY DEF MarkerSeen, Above, Returning
<1>1. UNCHANGED vars /\ ReadMarker /\ Verifying
  BY VerifierFrame, VerifierMoves DEF Verifying, VerifyingStages
<1>2. ~shaken /\ witnessed \subseteq witnessed' /\ SuccessesOnDisk' = SuccessesOnDisk
  BY <1>1, VerifierFrame, IdleSteps, QuietMarks DEF VerifyingStages
<1>3. current # None /\ m = current
  <2>1. current # None /\ view' = [view EXCEPT !.marker = current]
    BY <1>1 DEF ReadMarker, Reject
  <2>2. QED
    BY <2>1 DEF SeenInv, Views
<1>4. current \in SuccessReceipts /\ UNCHANGED <<current, pc, job>>
  BY <1>1, <1>3, Facts, IdleSteps DEF SeenInv, StoreTypeOK
<1>5. \/ current \notin SuccessesOnDisk
      \/ Above(current) /\ (current \in witnessed \/ Returning(current))
  BY <1>1, <1>2, <1>3, ActiveSeen
<1>6. QED
  BY <1>2, <1>3, <1>4, <1>5 DEF Above, Returning

\* The entries that were read stay as they are.
LEMMA EntriesKept ==
    ASSUME NumberInv, Named, [LineageNext]_lineageVars, NEW i \in AttemptIds, NEW x,
           x # None, disk[ReceiptFile(i)] = x, ReceiptFile(i) \notin doubled
    PROVE  disk'[ReceiptFile(i)] = x /\ ReceiptFile(i) \notin doubled'
<1>1. CASE ClearLock \/ UNCHANGED vars
  BY <1>1, IdleSteps
<1>2. QED
  BY <1>1, LineageSteps, EntriesStep

LEMMA HistorySeenByRunner ==
    ASSUME SeenInv, LineageNext, UNCHANGED <<vpc, view>>
    PROVE  HistorySeen'
<1> SUFFICES ASSUME vpc \in {"chain", "reread", "relock", "accepted"}, ~shaken',
                    NEW m, m = view.marker, NEW h, h = view.history
             PROVE  /\ m \in SuccessReceipts
                    /\ \A i \in AttemptIds : h[i] # None =>
                          /\ disk'[ReceiptFile(i)] = h[i]
                          /\ ReceiptFile(i) \notin doubled'
                          /\ Receipt(i, h[i])
                    /\ h[m.id] = m =>
                          /\ Above(m)'
                          /\ \A x \in Successes(Listing)' :
                                x \in Successes(h) \/ m.done <= x.done
                          /\ \/ m \in witnessed'
                             \/ vpc # "accepted" /\ Returning(m)'
  BY DEF HistorySeen, Above, Returning, Successes, Records, Listing
<1>1. NumberInv /\ Named /\ ~shaken /\ (Verifying \/ vpc = "accepted")
  BY RunnerFrame DEF SeenInv, Verifying, VerifyingStages
<1>2. /\ m \in SuccessReceipts
      /\ \A i \in AttemptIds : h[i] # None =>
            /\ disk[ReceiptFile(i)] = h[i] /\ ReceiptFile(i) \notin doubled
            /\ Receipt(i, h[i])
      /\ h[m.id] = m =>
            /\ Above(m)
            /\ \A x \in Successes(Listing) : x \in Successes(h) \/ m.done <= x.done
            /\ m \in witnessed \/ (vpc # "accepted" /\ Returning(m))
  BY <1>1 DEF SeenInv, HistorySeen
<1>3. \A i \in AttemptIds : h[i] # None =>
         disk'[ReceiptFile(i)] = h[i] /\ ReceiptFile(i) \notin doubled'
  BY <1>1, <1>2, EntriesKept
<1>4. ASSUME h[m.id] = m PROVE Above(m)'
  BY <1>1, <1>2, <1>4, AboveKept
<1>5. ASSUME h[m.id] = m, NEW x \in Successes(Listing)'
      PROVE  x \in Successes(h) \/ m.done <= x.done
  <2>1. CASE x \in Successes(Listing)
    BY <1>2, <1>5, <2>1
  <2>2. CASE x \notin Successes(Listing)
    <3>1. ~(ClearLock \/ UNCHANGED vars)
      BY <1>5, <2>2, IdleSteps DEF Successes, Records, Listing
    <3>2. x = current
      BY <1>1, <1>5, <2>2, <3>1, LineageSteps, NewSuccess
    <3>3. QED
      BY <1>2, <1>5, <3>2 DEF Above
  <2>3. QED
    BY <2>1, <2>2
<1>6. ASSUME h[m.id] = m
      PROVE  m \in witnessed' \/ (vpc # "accepted" /\ Returning(m)')
  <2>1. CASE Verifying
    BY <1>2, <1>6, <2>1, SettledKept DEF Verifying, VerifyingStages
  <2>2. CASE vpc = "accepted"
    BY <1>2, <1>6, <2>2, RunnerFrame
  <2>3. QED
    BY <1>1, <2>1, <2>2
<1>7. QED
  BY <1>2, <1>3, <1>4, <1>5, <1>6

\* What was read first of the history, the whole of it.
LEMMA ListingSeen ==
    ASSUME SeenInv, vpc = "scan", ~shaken, NEW m, m = view.marker,
           disk[ReceiptFile(m.id)] = m
    PROVE  Above(m) /\ (m \in witnessed \/ Returning(m))
<1>1. m \in SuccessReceipts
  BY DEF SeenInv, MarkerSeen
<1>2. m.id \in AttemptIds
  BY <1>1 DEF SuccessReceipts
<1>3. ReceiptFile(m.id) \in ReceiptFiles
  BY <1>2 DEF ReceiptFiles
<1>4. m \in SuccessesOnDisk
  BY <1>1, <1>3, ReceiptFilesAre DEF SuccessesOnDisk
<1>5. QED
  BY <1>4 DEF SeenInv, MarkerSeen

LEMMA HistorySeenByVerifier ==
    ASSUME SeenInv, LineageNext, ~UNCHANGED <<vpc, view>>
    PROVE  HistorySeen'
<1> SUFFICES ASSUME vpc' \in {"chain", "reread", "relock", "accepted"}, ~shaken',
                    NEW m, m = view'.marker, NEW h, h = view'.history
             PROVE  /\ m \in SuccessReceipts
                    /\ \A i \in AttemptIds : h[i] # None =>
                          /\ disk'[ReceiptFile(i)] = h[i]
                          /\ ReceiptFile(i) \notin doubled'
                          /\ Receipt(i, h[i])
                    /\ h[m.id] = m =>
                          /\ Above(m)'
                          /\ \A x \in Successes(Listing)' :
                                x \in Successes(h) \/ m.done <= x.done
                          /\ \/ m \in witnessed'
                             \/ vpc' # "accepted" /\ Returning(m)'
  BY DEF HistorySeen, Above, Returning, Successes, Records, Listing
<1>1. /\ UNCHANGED vars /\ VerifierStep /\ Verifying /\ ~shaken
      /\ NumberInv /\ Named /\ witnessed \subseteq witnessed'
  BY VerifierFrame, VerifierMoves DEF SeenInv, Verifying, VerifyingStages
<1>2. UNCHANGED <<disk, doubled, current, pc, job>>
  BY <1>1, IdleSteps
<1>3. Successes(Listing)' = Successes(Listing)
  BY <1>2 DEF Successes, Records, Listing
<1>4. CASE vpc = "scan" /\ vpc' = "chain" /\ ScanReceipts
  <2>1. Clean /\ m = view.marker /\ h = Listing
    <3>1. Clean /\ view' = [view EXCEPT !.history = Listing]
      BY <1>4 DEF ScanReceipts, Reject
    <3>2. QED
      BY <3>1 DEF SeenInv, Views
  <2>2. m \in SuccessReceipts /\ m.id \in AttemptIds
    <3>1. m \in SuccessReceipts
      BY <1>1, <1>4, <2>1 DEF SeenInv, MarkerSeen
    <3>2. QED
      BY <3>1 DEF SuccessReceipts
  <2>3. \A i \in AttemptIds : h[i] = disk[ReceiptFile(i)]
    BY <2>1 DEF Listing
  <2>4. ASSUME h[m.id] = m
        PROVE  Above(m) /\ (m \in witnessed \/ Returning(m))
    BY <1>1, <1>4, <2>1, <2>2, <2>3, <2>4, ListingSeen
  <2>5. QED
    BY <1>1, <1>2, <1>3, <1>4, <2>1, <2>2, <2>3, <2>4
       DEF Clean, Named, Above, Returning
<1>5. CASE vpc \in {"chain", "reread", "relock"} /\ view' = view
           /\ (vpc' = "accepted" => lock = 0)
  <2>1. /\ m \in SuccessReceipts
        /\ \A i \in AttemptIds : h[i] # None =>
              /\ disk[ReceiptFile(i)] = h[i] /\ ReceiptFile(i) \notin doubled
              /\ Receipt(i, h[i])
        /\ h[m.id] = m =>
              /\ Above(m)
              /\ \A x \in Successes(Listing) : x \in Successes(h) \/ m.done <= x.done
              /\ m \in witnessed \/ Returning(m)
    BY <1>1, <1>5 DEF SeenInv, HistorySeen
  <2>2. vpc' = "accepted" => ~Returning(m)
    BY <1>1, <1>5, Owners DEF Returning
  <2>3. QED
    BY <1>1, <1>2, <1>3, <2>1, <2>2 DEF Above, Returning
<1>6. QED
  BY <1>1, <1>4, <1>5, VerifierMoves DEF VerifyChain, Reject

\* A replay that holds keeps holding: what is archived stays.
LEMMA ChainKept ==
    ASSUME StoreTypeOK, Writes, source' = source,
           NEW S \in SUBSET SuccessReceipts, NEW s \in Orderings(S), Chain(s)
    PROVE  Chain(s)'
<1>1. \A i \in DOMAIN s : s[i] \in SuccessReceipts
  BY DEF Orderings
<1>2. \A i \in DOMAIN s : Resolves(s[i]) => Resolves(s[i])'
  BY <1>1, WritesKeep
<1>3. QED
  BY <1>2 DEF Chain, Regression, TransitionYear, SameGeneration

LEMMA ChainSeenStep ==
    ASSUME SeenInv, LineageNext, HistorySeen'
    PROVE  ChainSeen'
<1> SUFFICES ASSUME vpc' \in {"reread", "relock", "accepted"}, ~shaken'
             PROVE  ChainSeen'
  BY DEF ChainSeen
<1>1. /\ StoreTypeOK /\ source' = source /\ vpc # "idle" /\ ~shaken
      /\ Verifying \/ vpc = "accepted"
  <2>1. CASE UNCHANGED <<vpc, view>>
    BY <2>1, Facts, RunnerFrame DEF SeenInv, Verifying, VerifyingStages
  <2>2. CASE ~UNCHANGED <<vpc, view>>
    BY <2>2, Facts, VerifierFrame, VerifierMoves DEF SeenInv, Verifying, VerifyingStages
  <2>3. QED
    BY <2>1, <2>2
<1>2. Writes
  <2>1. CASE ClearLock \/ UNCHANGED vars
    BY <2>1, IdleSteps DEF Writes
  <2>2. QED
    BY <2>1, LineageSteps, StepWrites DEF Act
<1>3. view' = view /\ ActiveIsLatest(view.marker, view.history)
      /\ \E s \in Orderings(Successes(view.history)) : Chain(s)
  <2>1. CASE vpc \in {"reread", "relock", "accepted"} /\ view' = view
    BY <1>1, <2>1 DEF SeenInv, ChainSeen
  <2>2. CASE VerifyChain
    BY <2>2 DEF VerifyChain, Reject
  <2>3. CASE ~UNCHANGED <<vpc, view>>
    BY <2>1, <2>2, <2>3, VerifierFrame, VerifierMoves
  <2>4. QED
    BY <2>1, <2>3
<1>4. PICK s \in Orderings(Successes(view.history)) : Chain(s)
  BY <1>3
<1>5. Successes(view.history) \in SUBSET SuccessReceipts
  <2>1. \A x \in Successes(view.history) : x \in Receipts /\ x.kind = "success"
    BY DEF SeenInv, Views, Successes, Records
  <2>2. QED
    BY <2>1 DEF Receipts, FailureReceipts
<1>6. Chain(s)'
  BY <1>1, <1>2, <1>4, <1>5, ChainKept
<1>7. QED
  BY <1>3, <1>4, <1>6 DEF ChainSeen

LEMMA ViewStep ==
    ASSUME SeenInv, LineageNext
    PROVE  view' \in Views /\ vpc' \in VerifierStages /\ (vpc' = "idle" => ~shaken')
<1>1. vpc' \in VerifierStages /\ (vpc' = "idle" => ~shaken')
  <2>1. UNCHANGED vpc \/ vpc' \in VerifierStages
    BY VerifierFrame, VerifierMoves DEF VerifierStages, VerifyingStages
  <2>2. vpc' = "idle" => ~shaken'
    BY DEF LineageNext, Ghosts, VerifyingStages
  <2>3. QED
    BY <2>1, <2>2 DEF SeenInv
<1>2. NoView \in Views
  BY DEF NoView, NoListing, Views
<1>3. current \in SuccessReceipts \cup {None}
  BY Facts DEF SeenInv, StoreTypeOK
<1>4. Listing \in [AttemptIds -> Receipts \cup {None}]
  BY DEF SeenInv, Named, Receipt, Listing
<1>5. CASE UNCHANGED <<vpc, view>>
  BY <1>1, <1>5 DEF SeenInv
<1>6. CASE VerifierStep
  <2>1. \/ view' = view \/ view' = NoView
        \/ view' = [view EXCEPT !.marker = current]
        \/ view' = [view EXCEPT !.history = Listing]
    BY <1>6 DEF VerifierStep, CheckUnlocked, ReadMarker, ScanReceipts, VerifyChain,
       RereadMarker, CheckStillUnlocked, Reject
  <2>2. view \in Views
    BY DEF SeenInv
  <2>3. [view EXCEPT !.marker = current] \in Views
    BY <1>3, <2>2 DEF Views
  <2>4. [view EXCEPT !.history = Listing] \in Views
    BY <1>4, <2>2 DEF Views
  <2>5. QED
    BY <1>1, <1>2, <2>1, <2>2, <2>3, <2>4
<1>7. QED
  BY <1>1, <1>5, <1>6, VerifierFrame

LEMMA SeenInit == LineageInit => SeenInv
<1> SUFFICES ASSUME LineageInit PROVE SeenInv
  OBVIOUS
<1>1. NumberInv
  BY NumberInit DEF LineageInit
<1>2. Named
  BY FilesAre DEF LineageInit, Init, StoreInit, Named
<1>3. view \in Views
  BY DEF LineageInit, NoView, NoListing, Views
<1>4. vpc = "idle" /\ ~shaken
  BY DEF LineageInit
<1>5. QED
  BY <1>1, <1>2, <1>3, <1>4 DEF SeenInv, VerifierStages, LockSeen, MarkerSeen,
     HistorySeen, ChainSeen, Verifying, VerifyingStages

LEMMA SeenStep == SeenInv /\ [LineageNext]_lineageVars => SeenInv'
<1> SUFFICES ASSUME SeenInv, [LineageNext]_lineageVars PROVE SeenInv'
  OBVIOUS
<1>1. NumberInv' /\ Named'
  BY NumberLineage, NamedStep DEF SeenInv
<1>2. CASE LineageNext
  <2>1. LockSeen'
    BY <1>1, <1>2, LockSeenByRunner, LockSeenByVerifier
  <2>2. MarkerSeen'
    BY <1>2, MarkerSeenByRunner, MarkerSeenByVerifier
  <2>3. HistorySeen'
    BY <1>2, HistorySeenByRunner, HistorySeenByVerifier
  <2>4. ChainSeen'
    BY <1>2, <2>3, ChainSeenStep
  <2>5. QED
    BY <1>1, <1>2, <2>1, <2>2, <2>3, <2>4, ViewStep DEF SeenInv
<1>3. CASE UNCHANGED lineageVars
  <2>1. /\ UNCHANGED <<disk, doubled, current, lock, pc, job, source>>
        /\ UNCHANGED <<vpc, view, shaken, witnessed>>
        /\ SuccessesOnDisk' = SuccessesOnDisk /\ Listing' = Listing
    <3>1. UNCHANGED vars /\ UNCHANGED <<source, vpc, view, shaken, witnessed>>
      BY <1>3 DEF lineageVars, verifierVars
    <3>2. UNCHANGED <<disk, doubled, current, lock, pc, job>>
      BY <3>1 DEF vars, storeVars
    <3>3. SuccessesOnDisk' = SuccessesOnDisk
      BY <3>1, IdleSteps, QuietMarks
    <3>4. QED
      BY <3>1, <3>2, <3>3 DEF Listing
  <2>2. LockSeen'
    BY <2>1 DEF SeenInv, LockSeen, Verifying, Held, Owns
  <2>3. MarkerSeen'
    BY <2>1 DEF SeenInv, MarkerSeen, Above, Returning
  <2>4. HistorySeen'
    BY <2>1 DEF SeenInv, HistorySeen, Above, Returning
  <2>5. ChainSeen'
    <3>1. \A s : Chain(s)' <=> Chain(s)
      BY <2>1 DEF Chain, Resolves, Holds, Regression, TransitionYear, SameGeneration
    <3>2. QED
      BY <2>1, <3>1 DEF SeenInv, ChainSeen
  <2>6. QED
    BY <1>1, <2>1, <2>2, <2>3, <2>4, <2>5 DEF SeenInv
<1>4. QED
  BY <1>2, <1>3

LEMMA SeenInvariant == LineageSpec => []SeenInv
BY SeenInit, SeenStep, PTL DEF LineageSpec

-----------------------------------------------------------------------------
(* What is accepted without a failure meanwhile.                           *)

LEMMA AcceptedIs ==
    ASSUME SeenInv, vpc = "accepted", ~shaken, NEW m, m = view.marker,
           NEW h, h = view.history
    PROVE  /\ m \in SuccessReceipts /\ m.id \in AttemptIds /\ m.done \in Nat
           /\ \A i \in AttemptIds : h[i] # None =>
                 /\ disk[ReceiptFile(i)] = h[i] /\ ReceiptFile(i) \notin doubled
                 /\ Receipt(i, h[i])
           /\ ActiveIsLatest(m, h) /\ h[m.id] = m
           /\ Above(m) /\ m \in witnessed
           /\ \A x \in Successes(Listing) : x \in Successes(h) \/ m.done <= x.done
<1>1. m \in SuccessReceipts /\ ActiveIsLatest(m, h)
  BY DEF SeenInv, HistorySeen, ChainSeen
<1>2. h[m.id] = m /\ m.id \in AttemptIds /\ m.done \in Nat
  BY <1>1 DEF ActiveIsLatest, SuccessReceipts
<1>3. QED
  BY <1>1, <1>2 DEF SeenInv, HistorySeen

(* The generation that a verifier accepted was the active one at a moment  *)
(* of the verification when no run held the lock, although the verifier    *)
(* looks at the lock only before and after: a run that takes it and gives  *)
(* it back in between cannot make the verifier accept what it withdrew.    *)
THEOREM AcceptedGenerationsWereActive == LineageSpec => []AcceptedWasActive
<1>1. SeenInv => AcceptedWasActive
  BY AcceptedIs DEF AcceptedWasActive
<1>2. QED
  BY <1>1, SeenInvariant, PTL

(* What a verifier accepted is the committed lineage: its marker is        *)
(* archived and was not rolled back, the successes it replayed are exactly *)
(* the archived ones before the marker, and the replay holds.              *)
THEOREM AcceptedLineagesHold == LineageSpec => []AcceptedLineage
<1>1. ASSUME SeenInv, vpc = "accepted", ~shaken, NEW m, m = view.marker,
             NEW h, h = view.history
      PROVE  /\ Archived(m) /\ current # None /\ m.done <= current.done
             /\ Successes(h) = {s \in Successes(Listing) : s.done < m.done} \cup {m}
  <2>1. /\ m \in SuccessReceipts /\ m.id \in AttemptIds /\ m.done \in Nat
        /\ \A i \in AttemptIds : h[i] # None =>
              /\ disk[ReceiptFile(i)] = h[i] /\ ReceiptFile(i) \notin doubled
              /\ Receipt(i, h[i])
        /\ ActiveIsLatest(m, h) /\ h[m.id] = m /\ Above(m)
        /\ \A x \in Successes(Listing) : x \in Successes(h) \/ m.done <= x.done
    BY <1>1, AcceptedIs
  <2>2. m # None /\ m.kind = "success"
    BY <2>1, RunAssumption DEF SuccessReceipts, Receipts
  <2>3. Archived(m) /\ current # None /\ m.done <= current.done
    BY <2>1, <2>2 DEF Archived, Holds, Above
  <2>4. ASSUME NEW s \in Successes(h)
        PROVE  s = m \/ (s \in Successes(Listing) /\ s.done < m.done)
    <3>1. PICK i \in AttemptIds : s = h[i] /\ s # None /\ s.kind = "success"
      BY DEF Successes, Records
    <3>2. disk[ReceiptFile(i)] = s /\ s.id = i
      BY <2>1, <3>1 DEF Receipt
    <3>3. s \in Successes(Listing)
      BY <3>1, <3>2 DEF Successes, Records, Listing
    <3>4. s.id = m.id => s = m
      BY <2>1, <3>1, <3>2
    <3>5. QED
      BY <2>1, <3>3, <3>4 DEF ActiveIsLatest
  <2>5. ASSUME NEW s \in Successes(Listing), s.done < m.done PROVE s \in Successes(h)
    <3>1. PICK i \in AttemptIds : s = disk[ReceiptFile(i)] /\ s # None
                                  /\ s.kind = "success"
      BY DEF Successes, Records, Listing
    <3>2. s \in Receipts /\ s.kind = "success"
      BY <1>1, <3>1 DEF SeenInv, Named, Receipt
    <3>3. s.done \in Nat
      BY <3>2 DEF Receipts, SuccessReceipts, FailureReceipts
    <3>4. QED
      BY <2>1, <2>5, <3>3
  <2>6. m \in Successes(h)
    BY <2>1, <2>2 DEF Successes, Records
  <2>7. QED
    BY <2>3, <2>4, <2>5, <2>6
<1>2. SeenInv => AcceptedLineage
  BY <1>1 DEF AcceptedLineage, SeenInv, ChainSeen
<1>3. QED
  BY <1>2, SeenInvariant, PTL

-----------------------------------------------------------------------------
(* The capacity of a year.  Its preflight leaves a place for one receipt,  *)
(* and a call writes one before it returns.                                *)

LEMMA HistoriesAreFinite ==
    ASSUME NEW h
    PROVE  IsFiniteSet(Records(h)) /\ IsFiniteSet(Successes(h))
<1> DEFINE f == [i \in AttemptIds |-> h[i]]
           S == {h[i] : i \in AttemptIds}
<1>1. IsFiniteSet(AttemptIds)
  BY RunAssumption, FS_Interval
<1>2. f \in Surjection(AttemptIds, S)
  BY DEF Surjection
<1>3. IsFiniteSet(S)
  BY <1>1, <1>2, FS_Surjection
<1>4. Records(h) \in SUBSET S /\ Successes(h) \in SUBSET S
  BY DEF Records, Successes
<1>5. QED
  BY <1>3, <1>4, FS_Subset

\* A set that gains at most one element.
LEMMA GainsOne ==
    ASSUME NEW S, NEW T, NEW x, IsFiniteSet(S), T \subseteq S \cup {x}
    PROVE  /\ Cardinality(S) \in Nat /\ Cardinality(T) \in Nat
           /\ Cardinality(T) <= Cardinality(S) + 1
<1>1. IsFiniteSet(S \cup {x}) /\ Cardinality(S) \in Nat
      /\ Cardinality(S \cup {x}) \in Nat
      /\ Cardinality(S \cup {x}) <= Cardinality(S) + 1
  BY FS_AddElement, FS_CardinalityType
<1>2. /\ Cardinality(T) <= Cardinality(S \cup {x}) /\ IsFiniteSet(T)
  BY <1>1, FS_Subset
<1>3. QED
  BY <1>1, <1>2, FS_CardinalityType

NoFailureFiles == \A i \in AttemptIds : disk[FailureFile(i)] = None

Spare ==
    /\ Cardinality(Records(Listing)) < MaxReceipts[source]
    /\ Cardinality(Successes(Listing)) < MaxSuccesses[source]

\* There is a place for the receipt of a call until it is written.
CapacityHolds ==
    /\ Cardinality(Records(Listing)) <= MaxReceipts[source]
    /\ Cardinality(Successes(Listing)) <= MaxSuccesses[source]
    /\ current # None /\ disk[ReceiptFile(current.id)] = None => Spare
    /\ \A r \in Runners : pc[r] \in Protected => Spare

CapacityInv ==
    /\ NumberInv /\ Named /\ source \in Sources
    /\ source = "fars-year" /\ NoFailureFiles => CapacityHolds

\* How a call enters and stays in its protected stages.
LEMMA ProtectedFrom ==
    ASSUME ControlOK, NEW r \in Runners, Act(r), pc'[r] \in Protected
    PROVE  \/ pc[r] = "own" /\ pc'[r] = "fetch"
           \/ pc[r] \in Protected \ {"receipt"}
<1>1. ASSUME NEW s, NEW j, Goto(r, s, j) PROVE s \in Protected
  BY <1>1, GotoIs
<1>2. ~Dies(r) /\ (\A e : ~Raise(r, e)) /\ (\A o : ~Leave(r, o))
  <2>1. \A j : ~Goto(r, "idle", j) /\ ~Goto(r, "handle", j) /\ ~Goto(r, "release", j)
    BY <1>1 DEF Protected
  <2>2. QED
    BY <2>1 DEF Dies, Raise, Leave
<1>3. ASSUME NEW e, NEW o, LeaveRaising(r, e, o) PROVE FALSE
  <2>1. Dies(r) \/ \E p : Leave(r, p)
    BY <1>3 DEF LeaveRaising
  <2>2. QED
    BY <1>2, <2>1
<1>4. ~LoadActive(r) /\ ~ArchiveActive(r) /\ ~RecordLimit(r) /\ ~Start(r) /\ ~AcquireLock(r)
  <2>1. ~LoadActive(r)
    BY <1>1, <1>2 DEF LoadActive, Protected
  <2>2. ~ArchiveActive(r)
    BY <1>1, <1>3 DEF ArchiveActive, Protected
  <2>3. ~RecordLimit(r)
    BY <1>1, <1>3 DEF RecordLimit, Leave, Protected
  <2>4. ~Start(r) /\ ~AcquireLock(r)
    <3>1. \A j : ~Goto(r, "lock", j) /\ ~Goto(r, "load", j)
      BY <1>1 DEF Protected
    <3>2. QED
      BY <1>2, <3>1 DEF Start, AcquireLock
  <2>5. QED
    BY <2>1, <2>2, <2>3, <2>4
<1>5. CASE HandleChanged(r) \/ HandleAmbiguous(r) \/ HandleKnown(r) \/ Rollback(r)
           \/ RollbackRaises(r) \/ RecordFailure(r) \/ HandlerEscapes(r)
  BY <1>1, <1>2, <1>3, <1>5 DEF HandleChanged, HandleAmbiguous, HandleKnown, Rollback,
     RollbackRaises, RecordFailure, HandlerEscapes, Protected
<1>6. CASE CheckOwnReceipt(r)
  BY <1>2, <1>6, GotoIs DEF CheckOwnReceipt
<1>7. QED
  BY <1>2, <1>3, <1>4, <1>5, <1>6 DEF Act, Step, Kill, AcquireFails,
     PreflightInterrupted, InterruptedUnguarded, Fetch, PreserveRaw,
     PreserveNormalized, BuildMarker, Precommit, Commit, ValidateActivated,
     FinalizationAllowed, WriteReceipt, CallbackRaises, StageInterrupted,
     ReleaseLock, Protected

\* What one step writes under the names of receipts, and where from.
LEMMA EntryWritten ==
    ASSUME NumberInv, Named, NEW r \in Runners, Act(r), NEW i \in AttemptIds,
           disk'[ReceiptFile(i)] # disk[ReceiptFile(i)]
    PROVE  \E c : /\ disk[ReceiptFile(i)] = None /\ disk'[ReceiptFile(i)] = c
                  /\ Adds(r, c) /\ Receipt(i, c)
                  /\ pc[r] \in {"archive", "limit", "receipt", "failure"}
                  /\ pc[r] = "failure" => ~job[r].rbFailed
                  /\ \A k \in AttemptIds \ {i} : disk'[ReceiptFile(k)] = disk[ReceiptFile(k)]
                  /\ disk' # disk
<1>1. StoreTypeOK /\ TypeInv
  BY Facts
<1>2. /\ disk[ReceiptFile(i)] = None
      /\ Adds(r, disk'[ReceiptFile(i)]) /\ Receipt(i, disk'[ReceiptFile(i)])
  BY EntriesStep
<1>3. PICK f, c : Writing(r, f, c) /\ Puts(f, c)
  BY StepPuts DEF Act
<1>4. f \in Files
  BY <1>1, <1>3, WritingTyped
<1>5. \A k \in AttemptIds : ReceiptFile(k) \in Files
  BY FilesAre
<1>6. f = ReceiptFile(i)
  BY <1>1, <1>3, <1>4, <1>5, PutsIs
<1>7. \A k \in AttemptIds \ {i} : ReceiptFile(k) # f
  BY <1>6 DEF ReceiptFile
<1>8. \A k \in AttemptIds \ {i} : disk'[ReceiptFile(k)] = disk[ReceiptFile(k)]
  BY <1>1, <1>3, <1>4, <1>5, <1>7, PutsIs
<1>9. pc[r] = "failure" => ~job[r].rbFailed
  BY <1>3, <1>6 DEF Writing, FailureFile, ReceiptFile
<1>10. QED
  BY <1>2, <1>8, <1>9 DEF Adds

LEMMA FailureFilesStay ==
    ASSUME NumberInv, [LineageNext]_lineageVars, NoFailureFiles'
    PROVE  NoFailureFiles
<1>1. CASE ClearLock \/ UNCHANGED vars
  BY <1>1, IdleSteps DEF NoFailureFiles
<1>2. ASSUME NEW r \in Runners, Act(r), NEW i \in AttemptIds
      PROVE  disk[FailureFile(i)] = None
  <2>1. StoreTypeOK /\ TypeInv /\ FailureFile(i) \in Files
    BY Facts, FilesAre
  <2>2. disk'[FailureFile(i)] = None
    BY DEF NoFailureFiles
  <2>3. CASE UNCHANGED <<disk, doubled>>
    BY <2>2, <2>3
  <2>4. ASSUME NEW f, NEW c, Writing(r, f, c), Puts(f, c)
        PROVE  disk[FailureFile(i)] = None
    <3>1. f \in Files
      BY <2>1, <2>4, WritingTyped
    <3>2. QED
      BY <2>1, <2>2, <2>4, <3>1, PutsIs
  <2>5. QED
    BY <1>2, <2>3, <2>4, StepPuts DEF Act
<1>3. QED
  BY <1>1, <1>2, LineageSteps DEF NoFailureFiles

\* A step that writes no receipt leaves what it counts.
LEMMA SpareStays ==
    ASSUME source' = source, \A i \in AttemptIds : disk'[ReceiptFile(i)] = disk[ReceiptFile(i)]
    PROVE  /\ Listing' = Listing /\ Records(Listing)' = Records(Listing)
           /\ Successes(Listing)' = Successes(Listing) /\ Spare' = Spare
BY DEF Listing, Records, Successes, Spare

\* A step of a call that lets it go on is one that its check has allowed.
LEMMA CheckedSteps ==
    ASSUME source = "fars-year", NEW r \in Runners, RunnerStep(r)
    PROVE  /\ Act(r)
           /\ pc[r] = "own" /\ pc'[r] = "fetch" => PreflightYear(r)
           /\ pc[r] = "history" /\ pc'[r] = "precommit" => HistoryYear(r)
           /\ pc[r] = "limit" => disk' = disk
           /\ pc[r] = "failure" /\ disk' # disk => RoomForReceipt(Listing)
           /\ pc[r] = "history" /\ pc'[r] = "precommit" => job'[r].cand.done = began[r]
<1>1. CASE Start(r)
  BY <1>1 DEF Start, Quiet, Act
<1>2. CASE (Step(r) \/ Kill(r)) /\ Callbacks(r)
  BY <1>2 DEF Act, Callbacks, Returned, Passes, YearCheck, FinalizationYear
<1>3. QED
  BY <1>1, <1>2 DEF RunnerStep

LEMMA CapacityQuiet ==
    ASSUME CapacityInv, source = "fars-year", NoFailureFiles, source' = source,
           NEW r \in Runners, RunnerStep(r),
           \A i \in AttemptIds : disk'[ReceiptFile(i)] = disk[ReceiptFile(i)]
    PROVE  CapacityHolds'
<1>1. /\ CapacityHolds /\ Act(r) /\ ControlOK /\ Onward(r) /\ Moves(r)
      /\ Knows(pc[r], job[r], current, disk, doubled, durable, clock)
      /\ current' \in SuccessReceipts \cup {None}
  <2>1. /\ Act(r) /\ CapacityHolds /\ TypeInv /\ ControlOK
        /\ Knows(pc[r], job[r], current, disk, doubled, durable, clock)
    BY CheckedSteps, Facts DEF CapacityInv
  <2>2. Onward(r) /\ Moves(r)
    BY <2>1, StepOnward, StepMovesMarker DEF Act
  <2>3. current' \in SuccessReceipts \cup {None}
    <3>1. current \in SuccessReceipts \cup {None} /\ job[r] \in Jobs
      BY Facts DEF CapacityInv, StoreTypeOK
    <3>2. QED
      BY <2>2, <3>1 DEF Moves, Jobs
  <2>4. QED
    BY <2>1, <2>2, <2>3
<1>2. /\ Cardinality(Records(Listing))' = Cardinality(Records(Listing))
      /\ Cardinality(Successes(Listing))' = Cardinality(Successes(Listing))
      /\ Spare' = Spare
  BY SpareStays
<1>3. ASSUME current' # None, disk'[ReceiptFile(current'.id)] = None PROVE Spare
  <2>1. current'.id \in AttemptIds
    BY <1>1, <1>3 DEF SuccessReceipts
  <2>2. disk[ReceiptFile(current'.id)] = None
    BY <1>3, <2>1
  <2>3. CASE current' = current
    BY <1>1, <1>3, <2>2, <2>3 DEF CapacityHolds
  <2>4. CASE pc[r] = "commit"
    BY <1>1, <2>4 DEF CapacityHolds, Protected
  <2>5. CASE pc[r] = "rollback" /\ current' = job[r].prev
    <3>1. InHistory(job[r].prev, disk, doubled)
      BY <1>1, <1>3, <2>5 DEF Knows, Kept, Recovery
    <3>2. QED
      BY <1>3, <2>2, <2>5, <3>1 DEF InHistory
  <2>6. QED
    BY <1>1, <2>3, <2>4, <2>5 DEF Moves
<1>4. ASSUME NEW s \in Runners, pc'[s] \in Protected PROVE Spare
  <2>1. CASE s = r
    <3>1. CASE pc[r] = "own" /\ pc'[r] = "fetch"
      BY <3>1, CheckedSteps DEF PreflightYear, Room, RoomForReceipt, Spare
    <3>2. QED
      BY <1>1, <1>4, <2>1, <3>1, ProtectedFrom DEF CapacityHolds
  <2>2. CASE s # r
    BY <1>1, <1>4, <2>2 DEF Onward, CapacityHolds
  <2>3. QED
    BY <2>1, <2>2
<1>5. /\ Cardinality(Records(Listing))' <= MaxReceipts[source]
      /\ Cardinality(Successes(Listing))' <= MaxSuccesses[source]
  BY <1>1, <1>2 DEF CapacityHolds
<1>6. QED
  BY <1>2, <1>3, <1>4, <1>5 DEF CapacityHolds

LEMMA CapacityWritten ==
    ASSUME CapacityInv, source = "fars-year", NoFailureFiles, source' = source,
           NEW r \in Runners, RunnerStep(r), NEW i \in AttemptIds,
           disk'[ReceiptFile(i)] # disk[ReceiptFile(i)]
    PROVE  CapacityHolds'
<1>1. /\ NumberInv /\ Named /\ CapacityHolds /\ Act(r) /\ TypeInv /\ ControlOK
      /\ Knows(pc[r], job[r], current, disk, doubled, durable, clock)
      /\ Local(pc[r], job[r]) /\ job[r] \in Jobs /\ current \in SuccessReceipts \cup {None}
  BY CheckedSteps, Facts DEF CapacityInv, StoreTypeOK
<1>2. PICK c : /\ disk[ReceiptFile(i)] = None /\ disk'[ReceiptFile(i)] = c
               /\ Adds(r, c) /\ Receipt(i, c)
               /\ pc[r] \in {"archive", "limit", "receipt", "failure"}
               /\ pc[r] = "failure" => ~job[r].rbFailed
               /\ \A k \in AttemptIds \ {i} : disk'[ReceiptFile(k)] = disk[ReceiptFile(k)]
               /\ disk' # disk
  BY <1>1, EntryWritten
<1>3. c # None /\ c.id = i
  BY <1>2, RunAssumption DEF Receipt
<1>4. /\ Records(Listing)' \subseteq Records(Listing) \cup {c}
      /\ Successes(Listing)' \subseteq Successes(Listing) \cup {c}
      /\ c.kind # "success" => Successes(Listing)' \subseteq Successes(Listing)
  <2>1. ASSUME NEW x \in Records(Listing)' PROVE x = c \/ x \in Records(Listing)
    BY <1>2, <2>1 DEF Records, Listing
  <2>2. Records(Listing)' \subseteq Records(Listing) \cup {c}
    BY <2>1
  <2>3. QED
    BY <2>2 DEF Successes, Records, Listing
<1>5. pc[r] # "limit"
  BY <1>2, CheckedSteps
<1>6. \/ Spare
      \/ c.kind # "success" /\ Cardinality(Records(Listing)) < MaxReceipts[source]
  <2>1. CASE pc[r] = "archive"
    BY <1>1, <1>2, <1>3, <2>1 DEF Adds, Knows, Life, CapacityHolds
  <2>2. CASE pc[r] = "receipt"
    BY <1>1, <2>2 DEF CapacityHolds, Protected
  <2>3. CASE pc[r] = "failure"
    BY <1>2, <2>3, CheckedSteps DEF Adds, Failure, RoomForReceipt
  <2>4. QED
    BY <1>2, <1>5, <2>1, <2>2, <2>3
<1>7. MaxReceipts[source] \in Nat /\ MaxSuccesses[source] \in Nat
  BY LineageAssumption DEF CapacityInv
<1>8. /\ Cardinality(Records(Listing)) \in Nat /\ Cardinality(Records(Listing))' \in Nat
      /\ Cardinality(Successes(Listing)) \in Nat /\ Cardinality(Successes(Listing))' \in Nat
      /\ Cardinality(Records(Listing))' <= Cardinality(Records(Listing)) + 1
      /\ Cardinality(Successes(Listing))' <= Cardinality(Successes(Listing)) + 1
      /\ c.kind # "success" => Cardinality(Successes(Listing))' <= Cardinality(Successes(Listing))
  <2>1. IsFiniteSet(Records(Listing)) /\ IsFiniteSet(Successes(Listing))
    BY HistoriesAreFinite
  <2>2. c.kind # "success" => Cardinality(Successes(Listing))' <= Cardinality(Successes(Listing))
    BY <1>4, <2>1, FS_Subset
  <2>3. QED
    BY <1>4, <2>1, <2>2, GainsOne
<1>9. /\ Cardinality(Records(Listing))' <= MaxReceipts[source]
      /\ Cardinality(Successes(Listing))' <= MaxSuccesses[source]
  BY <1>1, <1>6, <1>7, <1>8 DEF CapacityHolds, Spare
<1>10. ASSUME current' # None PROVE disk'[ReceiptFile(current'.id)] # None
  <2>1. Moves(r) /\ current' = current /\ current.id \in AttemptIds
    BY <1>1, <1>2, <1>10, StepMovesMarker DEF Act, Moves, SuccessReceipts
  <2>2. CASE pc[r] = "archive"
    BY <1>1, <1>2, <1>3, <2>1, <2>2 DEF Adds, Knows, Life
  <2>3. CASE pc[r] = "receipt"
    BY <1>1, <1>2, <1>3, <2>1, <2>3 DEF Adds, Knows, Life, After
  <2>4. CASE pc[r] = "failure"
    <3>1. InHistory(current, disk, doubled)
      BY <1>1, <1>2, <1>10, <2>1, <2>4 DEF Knows, Life, Kept, Recovery
    <3>2. QED
      BY <1>2, <1>3, <1>10, <2>1, <3>1 DEF InHistory
  <2>5. QED
    BY <1>2, <1>5, <2>2, <2>3, <2>4
<1>11. ASSUME NEW s \in Runners, pc'[s] \in Protected PROVE FALSE
  <2>1. CASE s = r
    BY <1>1, <1>2, <1>11, <2>1, ProtectedFrom DEF Protected
  <2>2. CASE s # r
    <3>1. pc[s] \in Protected
      BY <1>1, <1>11, <2>2, StepOnward DEF Onward, Act
    <3>2. Owns(s) /\ Owns(r)
      BY <1>2, <3>1 DEF Owns, Owning, Preflight, Protected, Recovery
    <3>3. QED
      BY <1>1, <2>2, <3>2, Owners
  <2>3. QED
    BY <2>1, <2>2
<1>12. QED
  BY <1>9, <1>10, <1>11 DEF CapacityHolds

LEMMA CapacityStep == CapacityInv /\ [LineageNext]_lineageVars => CapacityInv'
<1> SUFFICES ASSUME CapacityInv, [LineageNext]_lineageVars PROVE CapacityInv'
  OBVIOUS
<1>1. NumberInv' /\ Named' /\ source' = source
  <2>1. source' = source
    BY DEF LineageNext, lineageVars
  <2>2. QED
    BY <2>1, NumberLineage, NamedStep DEF CapacityInv
<1>2. ASSUME source = "fars-year", NoFailureFiles' PROVE CapacityHolds'
  <2>1. NoFailureFiles /\ CapacityHolds
    BY <1>2, FailureFilesStay DEF CapacityInv
  <2>2. CASE \E r \in Runners : RunnerStep(r)
    BY <1>1, <1>2, <2>1, <2>2, CapacityQuiet, CapacityWritten
  <2>3. CASE ClearLock \/ UNCHANGED vars
    <3>1. UNCHANGED <<disk, current, pc>>
      BY <2>3, IdleSteps
    <3>2. QED
      BY <1>1, <2>1, <3>1, SpareStays DEF CapacityHolds
  <2>4. QED
    BY <2>2, <2>3 DEF LineageNext, lineageVars
<1>3. QED
  BY <1>1, <1>2 DEF CapacityInv

LEMMA CapacityInit == LineageInit => CapacityInv
<1> SUFFICES ASSUME LineageInit PROVE CapacityInv
  OBVIOUS
<1>1. NumberInv /\ Named /\ source \in Sources
  BY SeenInit DEF SeenInv, LineageInit
<1>2. Records(Listing) = {} /\ Successes(Listing) = {}
  BY FilesAre DEF LineageInit, Init, StoreInit, Records, Successes, Listing
<1>3. current = None /\ \A r \in Runners : pc[r] \notin Protected
  BY DEF LineageInit, Init, StoreInit, Protected
<1>4. MaxReceipts[source] \in Nat /\ MaxSuccesses[source] \in Nat
  BY <1>1, LineageAssumption
<1>5. QED
  BY <1>1, <1>2, <1>3, <1>4, FS_EmptySet DEF CapacityInv, CapacityHolds

(* The receipts of a year do not outgrow what its verifier reads, and an   *)
(* active generation that is not archived yet has a place in the history,  *)
(* whatever calls fail: unless a rollback has, which leaves its own file.  *)
THEOREM CapacityIsKept == LineageSpec => []WithinCapacity
<1>1. CapacityInv => WithinCapacity
  BY DEF CapacityInv, CapacityHolds, WithinCapacity, NoFailureFiles, Spare
<1>2. LineageSpec => []CapacityInv
  BY CapacityInit, CapacityStep, PTL DEF LineageSpec
<1>3. QED
  BY <1>1, <1>2, PTL

-----------------------------------------------------------------------------
(* The chain of a year.  What is active, what a call may put back and what *)
(* it may activate each end a chain of the archived successes before them. *)

Upto(m) == {x \in Successes(Listing) : x.done <= m.done} \cup {m}

ReplaysTo(m) ==
    /\ \A x, y \in Upto(m) : x.done = y.done => x = y
    /\ \E s \in Orderings(Upto(m)) : Chain(s) /\ s[Cardinality(Upto(m))] = m

Tips ==
    ({current} \cup {job[r].prev : r \in Runners}
     \cup {job[r].cand : r \in Runners}) \ {None}

\* The artifact of a success is the one its archive normalizes to.
FromArchive(r) ==
    /\ pc[r] = "normalize" => job[r].rawRef = job[r].raw
    /\ pc[r] = "history" => job[r].normRef = Normalize[job[r].rawRef]
    /\ pc[r] = "idle" => job[r].prev = None /\ job[r].cand = None

YearInv ==
    /\ RefInv /\ Named
    /\ \A m \in Marks : m.norm = Normalize[m.raw]
    /\ \A r \in Runners : FromArchive(r)
    /\ source = "fars-year" =>
          /\ \A r \in Runners : job[r].prev # None /\ job[r].cand # None =>
                job[r].prev.done < job[r].cand.done
          /\ \A m \in Tips : ReplaysTo(m)

LEMMA ChainStarts ==
    ASSUME NEW new \in SuccessReceipts, source = "fars-year", new.prev = None,
           Resolves(new), Revision[new.norm] = 1
    PROVE  \E t \in Orderings({new}) : Chain(t) /\ t[Cardinality({new})] = new
<1> DEFINE t == [i \in 1 .. 1 |-> new]
<1>1. Cardinality({new}) = 1
  BY FS_Singleton
<1>2. t \in Orderings({new})
  BY <1>1 DEF Orderings
<1>3. Chain(t)
  <2>1. DOMAIN t = 1 .. 1 /\ t[1] = new
    OBVIOUS
  <2> HIDE DEF t
  <2>2. \A i \in DOMAIN t : i = 1 /\ t[i] = new /\ ~(i > 1) /\ 1 .. i - 1 = {}
    BY <2>1
  <2>3. QED
    BY <2>2 DEF Chain
<1>4. QED
  BY <1>1, <1>2, <1>3

LEMMA ChainExtends ==
    ASSUME NEW P \in SUBSET SuccessReceipts, IsFiniteSet(P), NEW old \in P,
           NEW new \in SuccessReceipts, source = "fars-year",
           NEW s \in Orderings(P), Chain(s), s[Cardinality(P)] = old,
           \A x \in P : x.done <= old.done,
           old.done < new.done, new.prev = old.norm, Resolves(new),
           SameGeneration(new, old) \/ \A x \in P : x.norm # new.norm,
           TransitionYear(new.norm, old.norm)
    PROVE  \E t \in Orderings(P \cup {new}) :
              Chain(t) /\ t[Cardinality(P \cup {new})] = new
<1> DEFINE n == Cardinality(P)
           t == [i \in 1 .. n + 1 |-> IF i <= n THEN s[i] ELSE new]
<1>1. n \in Nat /\ n # 0
  BY FS_CardinalityType, FS_EmptySet
<1>2. new.done \in Nat /\ \A x \in P : x.done \in Nat /\ x.done < new.done
  <2>1. \A x \in SuccessReceipts : x.done \in Nat
    BY DEF SuccessReceipts
  <2>2. old.done \in Nat /\ new.done \in Nat /\ \A x \in P : x.done \in Nat
    BY <2>1
  <2>3. QED
    BY <2>2
<1>3. new \notin P
  BY <1>2
<1>4. Cardinality(P \cup {new}) = n + 1
  BY <1>3, FS_AddElement
<1>5. /\ s \in [1 .. n -> P]
      /\ \A i, j \in 1 .. n : i < j => s[i] # s[j] /\ s[i].done <= s[j].done
  BY DEF Orderings
<1>6. /\ DOMAIN t = 1 .. n + 1 /\ t[n + 1] = new /\ t[n] = old
      /\ \A i \in 1 .. n : t[i] = s[i] /\ s[i] \in P
  BY <1>1, <1>5
<1>7. t \in [1 .. n + 1 -> P \cup {new}]
  BY <1>5
<1> HIDE DEF t, n
<1>8. ASSUME NEW i \in 1 .. n + 1, NEW j \in 1 .. n + 1, i < j
      PROVE  t[i] # t[j] /\ t[i].done <= t[j].done
  <2>1. CASE j <= n
    BY <1>1, <1>5, <1>6, <1>8, <2>1
  <2>2. CASE j = n + 1
    <3>1. i \in 1 .. n
      BY <1>1, <1>8, <2>2
    <3>2. t[i] \in P /\ t[j] = new
      BY <1>6, <2>2, <3>1
    <3>3. QED
      BY <1>2, <1>3, <3>2
  <2>3. QED
    BY <1>1, <1>8, <2>1, <2>2
<1>9. t \in Orderings(P \cup {new})
  BY <1>4, <1>6, <1>7, <1>8 DEF Orderings
<1>10. Chain(t)
  <2>1. ASSUME NEW i \in 1 .. n
        PROVE  /\ t[i].prev = IF i = 1 THEN None ELSE t[i - 1].norm
               /\ \/ Resolves(t[i])
                  \/ i > 1 /\ SameGeneration(t[i], t[i - 1])
               /\ source # "fars" =>
                     \/ i > 1 /\ SameGeneration(t[i], t[i - 1])
                     \/ \A j \in 1 .. i - 1 : t[j].norm # t[i].norm
               /\ i > 1 => TransitionYear(t[i].norm, t[i - 1].norm)
               /\ i = 1 => Revision[t[i].norm] = 1
    <3>1. t[i] = s[i] /\ (i > 1 => t[i - 1] = s[i - 1])
          /\ \A j \in 1 .. i - 1 : t[j] = s[j]
      BY <1>1, <1>6
    <3>2. DOMAIN s = 1 .. n
      BY <1>5
    <3>3. /\ s[i].prev = IF i = 1 THEN None ELSE s[i - 1].norm
          /\ \/ Resolves(s[i])
             \/ i > 1 /\ SameGeneration(s[i], s[i - 1])
          /\ \/ i > 1 /\ SameGeneration(s[i], s[i - 1])
             \/ \A j \in 1 .. i - 1 : s[j].norm # s[i].norm
          /\ i > 1 => TransitionYear(s[i].norm, s[i - 1].norm)
          /\ i = 1 => Revision[s[i].norm] = 1
      BY <3>2 DEF Chain
    <3>4. CASE i = 1
      BY <3>1, <3>3, <3>4
    <3>5. CASE i > 1
      BY <3>1, <3>3, <3>5
    <3>6. QED
      BY <1>1, <3>4, <3>5
  <2>2. /\ new.prev = t[n].norm /\ n + 1 # 1 /\ n + 1 > 1 /\ n + 1 - 1 = n
        /\ Resolves(new)
        /\ SameGeneration(new, t[n]) \/ \A j \in 1 .. n : t[j].norm # new.norm
        /\ TransitionYear(new.norm, t[n].norm)
    BY <1>1, <1>6
  <2>3. ASSUME NEW i \in 1 .. n + 1
        PROVE  /\ t[i].prev = IF i = 1 THEN None ELSE t[i - 1].norm
               /\ \/ Resolves(t[i])
                  \/ i > 1 /\ SameGeneration(t[i], t[i - 1])
               /\ source # "fars" =>
                     \/ i > 1 /\ SameGeneration(t[i], t[i - 1])
                     \/ \A j \in 1 .. i - 1 : t[j].norm # t[i].norm
               /\ i > 1 => TransitionYear(t[i].norm, t[i - 1].norm)
               /\ i = 1 => Revision[t[i].norm] = 1
    <3>1. CASE i \in 1 .. n
      BY <2>1, <3>1
    <3>2. CASE i = n + 1
      <4>1. i - 1 = n /\ i > 1 /\ i # 1
        BY <1>1, <3>2
      <4>2. t[i] = new
        BY <1>6, <3>2
      <4>3. QED
        BY <2>2, <4>1, <4>2
    <3>3. QED
      BY <1>1, <3>1, <3>2
  <2>4. QED
    BY <1>6, <2>3 DEF Chain
<1>11. QED
  BY <1>4, <1>6, <1>9, <1>10

-----------------------------------------------------------------------------
(* How the steps of a call keep these chains.                              *)

LEMMA ArtifactsReached ==
    ASSUME ControlOK, NEW r \in Runners, Act(r), pc'[r] \in {"normalize", "history"}
    PROVE  \/ PreserveRaw(r) /\ pc'[r] = "normalize"
              /\ job'[r] = [job[r] EXCEPT !.rawRef = job[r].raw]
           \/ PreserveNormalized(r) /\ pc'[r] = "history"
              /\ job'[r] = [job[r] EXCEPT !.normRef = Normalize[job[r].raw]]
<1>1. \A s, j : Goto(r, s, j) => pc'[r] = s /\ job'[r] = j
  BY GotoIs
<1>2. \A j : /\ ~Goto(r, "idle", j) /\ ~Goto(r, "handle", j) /\ ~Goto(r, "raw", j)
             /\ ~Goto(r, "precommit", j) /\ ~Goto(r, "commit", j)
             /\ ~Goto(r, "validate", j) /\ ~Goto(r, "finalize", j)
             /\ ~Goto(r, "receipt", j)
  BY <1>1
<1>3. ~Dies(r) /\ \A e : ~Raise(r, e)
  BY <1>2 DEF Dies, Raise
<1>4. pc[r] \in Protected \ {"receipt"}
  BY ProtectedFrom DEF Protected
<1>5. PreserveRaw(r) \/ PreserveNormalized(r)
  BY <1>2, <1>3, <1>4 DEF Act, Step, Start, Kill, AcquireLock, AcquireFails, LoadActive,
     ArchiveActive, RecordLimit, Preflight, WriteReceipt, RecordFailure, Commit,
     Rollback, RollbackRaises, CheckOwnReceipt, PreflightInterrupted, Fetch,
     BuildMarker, Precommit, ValidateActivated, FinalizationAllowed,
     CallbackRaises, StageInterrupted, HandleChanged, HandleAmbiguous, HandleKnown,
     HandlerEscapes, InterruptedUnguarded, ReleaseLock, Protected
<1>6. CASE PreserveRaw(r)
  BY <1>1, <1>3, <1>6 DEF PreserveRaw
<1>7. CASE PreserveNormalized(r)
  BY <1>1, <1>3, <1>7 DEF PreserveNormalized
<1>8. QED
  BY <1>5, <1>6, <1>7

LEMMA FromArchiveStep ==
    ASSUME NumberInv, \A s \in Runners : FromArchive(s), NEW r \in Runners, Act(r)
    PROVE  \A s \in Runners : FromArchive(s)'
<1>1. ControlOK /\ Onward(r) /\ job[r] \in Jobs
  BY Facts, StepOnward DEF Act
<1>2. FromArchive(r)'
  <2>1. pc'[r] = "idle" => job'[r].prev = None /\ job'[r].cand = None
    BY <1>1, NoJobIs DEF Onward
  <2>2. pc'[r] = "normalize" => job'[r].rawRef = job'[r].raw
    <3>1. SUFFICES ASSUME pc'[r] = "normalize" PROVE job'[r].rawRef = job'[r].raw
      OBVIOUS
    <3>2. job'[r] = [job[r] EXCEPT !.rawRef = job[r].raw]
      BY <1>1, <3>1, ArtifactsReached
    <3>3. QED
      BY <1>1, <3>2 DEF Jobs
  <2>3. pc'[r] = "history" => job'[r].normRef = Normalize[job'[r].rawRef]
    <3>1. SUFFICES ASSUME pc'[r] = "history"
                   PROVE  job'[r].normRef = Normalize[job'[r].rawRef]
      OBVIOUS
    <3>2. /\ PreserveNormalized(r)
          /\ job'[r] = [job[r] EXCEPT !.normRef = Normalize[job[r].raw]]
      BY <1>1, <3>1, ArtifactsReached
    <3>3. job[r].rawRef = job[r].raw
      BY <3>2 DEF PreserveNormalized, FromArchive
    <3>4. QED
      BY <1>1, <3>2, <3>3 DEF Jobs
  <2>4. QED
    BY <2>1, <2>2, <2>3 DEF FromArchive
<1>3. ASSUME NEW s \in Runners, s # r PROVE FromArchive(s)'
  BY <1>1, <1>3 DEF Onward, FromArchive
<1>4. QED
  BY <1>2, <1>3

LEMMA NormalStep ==
    ASSUME NumberInv, \A s \in Runners : FromArchive(s),
           \A m \in Marks : m.norm = Normalize[m.raw],
           NEW r \in Runners, Act(r), NEW m \in Marks'
    PROVE  m.norm = Normalize[m.raw]
<1>1. TypeInv
  BY Facts
<1>2. CASE pc[r] = "history" /\ m = Success(job[r], clock')
  BY <1>2 DEF Success, FromArchive
<1>3. QED
  BY <1>1, <1>2, MarksStep DEF Act

LEMMA TipsStep ==
    ASSUME NumberInv, NEW r \in Runners, Act(r), NEW m \in Tips'
    PROVE  \/ m \in Tips
           \/ /\ pc[r] = "history" /\ pc'[r] = "precommit"
              /\ m = job'[r].cand /\ m = Success(job[r], clock')
<1>1. Onward(r) /\ Moves(r) /\ m # None
  BY Facts, StepOnward, StepMovesMarker DEF Act, Tips
<1>2. CASE m = current'
  BY <1>1, <1>2 DEF Moves, Tips
<1>3. ASSUME NEW s \in Runners, m = job'[s].prev \/ m = job'[s].cand
      PROVE  \/ m \in Tips
             \/ /\ pc[r] = "history" /\ pc'[r] = "precommit"
                /\ m = job'[r].cand /\ m = Success(job[r], clock')
  <2>1. CASE s # r
    BY <1>1, <1>3, <2>1 DEF Onward, Tips
  <2>2. CASE s = r
    BY <1>1, <1>3, <2>2, OnwardIs DEF Tips
  <2>3. QED
    BY <2>1, <2>2
<1>4. QED
  BY <1>2, <1>3 DEF Tips

\* While a call has the lock nobody else has a prior marker or a candidate.
LEMMA OwnTips ==
    ASSUME NumberInv, \A s \in Runners : FromArchive(s), NEW r \in Runners, Owns(r),
           NEW m \in Tips
    PROVE  m = current \/ m = job[r].prev \/ m = job[r].cand
<1>1. m # None
  BY DEF Tips
<1>2. ASSUME NEW s \in Runners, m = job[s].prev \/ m = job[s].cand, s # r
      PROVE  FALSE
  <2>1. pc[s] \in Stages /\ Knows(pc[s], job[s], current, disk, doubled, durable, clock)
    BY Facts
  <2>2. ~Owns(s)
    BY <1>2, Owners
  <2>3. pc[s] \in {"idle", "lock"}
    BY <2>1, <2>2 DEF Stages, Owns
  <2>4. job[s].prev = None /\ job[s].cand = None
    BY <2>1, <2>3 DEF FromArchive, Knows, Life, Unbuilt
  <2>5. QED
    BY <1>1, <1>2, <2>4
<1>3. QED
  BY <1>2 DEF Tips

\* The successes up to a tip stay as they are.
LEMMA UptoStays ==
    ASSUME YearInv, source = "fars-year", NEW r \in Runners, Act(r), NEW m \in Tips
    PROVE  Upto(m)' = Upto(m)
<1>1. /\ NumberInv /\ Named /\ m \in SuccessReceipts /\ m # None
      /\ Knows(pc[r], job[r], current, disk, doubled, durable, clock)
  <2>1. NumberInv /\ Named /\ TypeInv
    BY Facts DEF YearInv, RefInv
  <2>2. m \in Marks /\ m # None
    BY DEF Tips, Marks
  <2>3. QED
    BY <2>1, <2>2, MarksAre, Facts
<1>2. ASSUME NEW x \in Successes(Listing) PROVE x \in Successes(Listing)'
  <2>1. PICK i \in AttemptIds : x = disk[ReceiptFile(i)] /\ x # None /\ x.kind = "success"
    BY DEF Successes, Records, Listing
  <2>2. disk'[ReceiptFile(i)] = x
    BY <1>1, <2>1, EntriesStep
  <2>3. QED
    BY <2>1, <2>2 DEF Successes, Records, Listing
<1>3. ASSUME NEW x \in Successes(Listing)', x \notin Successes(Listing), x.done <= m.done
      PROVE  x = m
  <2>1. x = current /\ x # None
    BY <1>1, <1>3, NewSuccess DEF Successes, Records
  <2>2. PICK i \in AttemptIds : x = disk'[ReceiptFile(i)] /\ x.kind = "success"
    BY <1>3 DEF Successes, Records, Listing
  <2>3. disk'[ReceiptFile(i)] # disk[ReceiptFile(i)]
    BY <1>3, <2>1, <2>2 DEF Successes, Records, Listing
  <2>4. Adds(r, x) /\ pc[r] \in {"archive", "receipt"}
    <3>1. Adds(r, x)
      BY <1>1, <2>2, <2>3, EntriesStep
    <3>2. QED
      BY <2>2, <3>1 DEF Adds, Failure
  <2>5. m = current \/ m = job[r].prev \/ m = job[r].cand
    <3>1. Owns(r)
      BY <2>4 DEF Owns, Owning, Preflight, Protected
    <3>2. QED
      BY <1>1, <3>1, OwnTips DEF YearInv
  <2>6. CASE pc[r] = "archive"
    BY <1>1, <2>1, <2>4, <2>5, <2>6 DEF Adds, Knows, Life, Unbuilt
  <2>7. CASE pc[r] = "receipt"
    <3>1. x = job[r].cand
      BY <2>4, <2>7 DEF Adds
    <3>2. m = job[r].prev => m.done < x.done
      BY <1>1, <2>1, <3>1 DEF YearInv
    <3>3. m.done \in Nat /\ x.done \in Nat
      BY <1>1, <2>1, Facts DEF SuccessReceipts, StoreTypeOK
    <3>4. QED
      BY <1>3, <2>1, <2>5, <3>1, <3>2, <3>3
  <2>8. QED
    BY <2>4, <2>6, <2>7
<1>4. QED
  BY <1>2, <1>3 DEF Upto

\* The successes up to a mark are success receipts, and finitely many.
LEMMA UptoIs ==
    ASSUME Named, NEW m \in SuccessReceipts
    PROVE  Upto(m) \in SUBSET SuccessReceipts /\ IsFiniteSet(Upto(m))
           /\ \A x \in Successes(Listing) :
                 x \in SuccessReceipts /\ x.id \in AttemptIds /\ Listing[x.id] = x
<1>1. ASSUME NEW x \in Successes(Listing)
      PROVE  x \in SuccessReceipts /\ x.id \in AttemptIds /\ Listing[x.id] = x
  <2>1. PICK i \in AttemptIds : x = disk[ReceiptFile(i)] /\ x # None /\ x.kind = "success"
    BY DEF Successes, Records, Listing
  <2>2. x \in Receipts /\ x.id = i
    BY <2>1 DEF Named, Receipt
  <2>3. QED
    BY <2>1, <2>2 DEF Receipts, FailureReceipts, Listing
<1>2. IsFiniteSet(Successes(Listing) \cup {m})
  BY HistoriesAreFinite, FS_AddElement
<1>3. Upto(m) \in SUBSET (Successes(Listing) \cup {m})
  BY DEF Upto
<1>4. QED
  BY <1>1, <1>2, <1>3, FS_Subset

LEMMA ReplaysStay ==
    ASSUME YearInv, source = "fars-year", source' = source,
           NEW r \in Runners, Act(r), NEW m \in Tips
    PROVE  ReplaysTo(m)'
<1>1. /\ ReplaysTo(m) /\ StoreTypeOK /\ Writes /\ Upto(m) \in SUBSET SuccessReceipts
  <2>1. NumberInv /\ TypeInv /\ m \in Marks
    BY Facts DEF YearInv, RefInv, Tips, Marks
  <2>2. m \in SuccessReceipts
    BY <2>1, MarksAre
  <2>3. QED
    BY <2>1, <2>2, Facts, StepWrites, UptoIs DEF YearInv, Act
<1>2. Upto(m)' = Upto(m)
  BY UptoStays
<1>3. PICK s \in Orderings(Upto(m)) : Chain(s) /\ s[Cardinality(Upto(m))] = m
  BY <1>1 DEF ReplaysTo
<1>4. Chain(s)'
  BY <1>1, <1>3, ChainKept
<1>5. QED
  BY <1>1, <1>2, <1>3, <1>4 DEF ReplaysTo

\* An artifact determines its archive, whose digest it carries.
Reversible == \A x, y \in Raws : Normalize[x] = Normalize[y] => x = y

\* The checks of validate_history are what the new end of the chain needs.
LEMMA TipBuilt ==
    ASSUME YearInv, Reversible, source = "fars-year", source' = source,
           NEW r \in Runners, RunnerStep(r), pc[r] = "history", pc'[r] = "precommit",
           NEW new, new = Success(job[r], clock'), new = job'[r].cand
    PROVE  /\ ReplaysTo(new)'
           /\ job'[r].prev # None => job'[r].prev.done < new.done
<1>1. /\ NumberInv /\ Named /\ TypeInv /\ StoreTypeOK /\ Act(r) /\ job[r] \in Jobs
      /\ Local("history", job[r]) /\ job[r].prev = current /\ FromArchive(r)
      /\ Preserved(job[r].rawRef, job[r].normRef) /\ current \in SuccessReceipts \cup {None}
  <2>1. NumberInv /\ Named /\ Act(r)
    BY CheckedSteps DEF YearInv, RefInv
  <2>2. Knows("history", job[r], current, disk, doubled, durable, clock)
        /\ Local("history", job[r]) /\ job[r] \in Jobs /\ StoreTypeOK /\ TypeInv
    BY <2>1, Facts
  <2>3. QED
    BY <2>1, <2>2 DEF YearInv, RefInv, Knows, Life, Before, StoreTypeOK
<1>2. UNCHANGED <<disk, doubled>> /\ HistoryYear(r) /\ new.done = began[r]
      /\ clock' \in Nat /\ job'[r].prev = job[r].prev
  <2>1. BuildMarker(r)
    BY <1>1, HistoryBuilds DEF Act
  <2>2. clock' \in Nat /\ Onward(r)
    BY <1>1, StepClock, StepOnward DEF Act
  <2>3. job'[r].prev = job[r].prev
    BY <2>2 DEF Onward, Follows
  <2>4. QED
    BY <2>1, <2>2, <2>3, CheckedSteps DEF BuildMarker, Quiet
<1>3. /\ new \in SuccessReceipts /\ new.done \in Nat
      /\ new.raw = job[r].rawRef /\ new.norm = job[r].normRef
      /\ new.prev = IF current = None THEN None ELSE current.norm
      /\ new.norm = Normalize[new.raw] /\ new.raw \in Raws
  <2>1. job[r].id \in AttemptIds /\ job[r].rawRef \in Raws /\ job[r].normRef \in Norms
    BY <1>1 DEF Local
  <2>2. new \in SuccessReceipts
    BY <1>1, <1>2, <2>1, SuccessTyped
  <2>3. /\ new.raw = job[r].rawRef /\ new.norm = job[r].normRef
        /\ new.prev = IF current = None THEN None ELSE current.norm
        /\ new.done = clock'
    BY <1>1 DEF Success
  <2>4. job[r].normRef = Normalize[job[r].rawRef]
    BY <1>1 DEF FromArchive
  <2>5. QED
    BY <1>2, <2>1, <2>2, <2>3, <2>4
<1>4. Resolves(new)
  BY <1>1, <1>3, StoreAssumption DEF Preserved, Resolves, SuccessReceipts
<1> DEFINE past == Successes(Listing)
<1>5. ASSUME current = None
      PROVE  /\ past = {} /\ Revision[new.norm] = 1 /\ new.prev = None
  BY <1>2, <1>3, <1>5 DEF HistoryYear
<1>6. ASSUME current # None
      PROVE  /\ ActiveIsLatest(current, Listing) /\ current.done < new.done
             /\ new.norm = current.norm \/ \A m \in past : m.norm # new.norm
             /\ TransitionYear(new.norm, current.norm) /\ new.prev = current.norm
  BY <1>2, <1>3, <1>6 DEF HistoryYear
<1>7. ASSUME current # None
      PROVE  /\ current \in past /\ \A x \in past : x.done <= current.done
             /\ \A x \in past : x.done < new.done
             /\ Upto(current) = past
  <2>1. current \in SuccessReceipts /\ current.id \in AttemptIds /\ current.done \in Nat
    BY <1>1, <1>7 DEF SuccessReceipts
  <2>2. current \in past
    BY <1>6, <1>7, <2>1 DEF ActiveIsLatest, Successes, Records, SuccessReceipts
  <2>3. ASSUME NEW x \in past PROVE x.done <= current.done /\ x.done \in Nat
    <3>1. x \in SuccessReceipts /\ Listing[x.id] = x
      BY <1>1, <2>1, UptoIs
    <3>2. CASE x.id = current.id
      BY <1>6, <1>7, <2>1, <3>1, <3>2 DEF ActiveIsLatest
    <3>3. CASE x.id # current.id
      BY <1>6, <1>7, <2>1, <3>1, <3>3 DEF ActiveIsLatest, SuccessReceipts
    <3>4. QED
      BY <3>1, <3>2, <3>3 DEF SuccessReceipts
  <2>4. \A x \in past : x.done < new.done
    BY <1>3, <1>6, <1>7, <2>1, <2>3
  <2>5. QED
    BY <2>2, <2>3, <2>4 DEF Upto
<1>8. Upto(new) = past \cup {new}
  <2>1. ASSUME NEW x \in past PROVE x.done <= new.done
    <3>1. current # None
      BY <1>5
    <3>2. x.done < new.done
      BY <1>7, <3>1
    <3>3. x \in SuccessReceipts
      BY <1>1, <1>3, UptoIs
    <3>4. x.done \in Nat
      BY <3>3 DEF SuccessReceipts
    <3>5. QED
      BY <1>3, <3>2, <3>4
  <2>2. QED
    BY <2>1 DEF Upto
<1>9. \E t \in Orderings(Upto(new)) : Chain(t) /\ t[Cardinality(Upto(new))] = new
  <2>1. CASE current = None
    <3>1. Upto(new) = {new}
      BY <1>5, <1>8, <2>1
    <3>2. QED
      BY <1>3, <1>4, <1>5, <2>1, <3>1, ChainStarts
  <2>2. CASE current # None
    <3>1. current \in Tips /\ current \in Marks /\ current \in SuccessReceipts
      BY <1>1, <2>2 DEF Tips, Marks
    <3>2. PICK s \in Orderings(past) : Chain(s) /\ s[Cardinality(past)] = current
      BY <1>7, <2>2, <3>1 DEF YearInv, ReplaysTo
    <3>3. SameGeneration(new, current) \/ \A x \in past : x.norm # new.norm
      <4>1. current.norm = Normalize[current.raw] /\ current.raw \in Raws
        BY <3>1 DEF YearInv, SuccessReceipts
      <4>2. QED
        BY <1>3, <1>6, <2>2, <4>1 DEF Reversible, SameGeneration
    <3>4. past \in SUBSET SuccessReceipts /\ IsFiniteSet(past)
      BY <1>1, <1>3, UptoIs, HistoriesAreFinite
    <3>5. \E t \in Orderings(past \cup {new}) :
             Chain(t) /\ t[Cardinality(past \cup {new})] = new
      <4> HIDE DEF past
      <4>1. QED
        BY <1>3, <1>4, <1>6, <1>7, <2>2, <3>2, <3>3, <3>4, ChainExtends
    <3>6. QED
      BY <1>8, <3>5
  <2>3. QED
    BY <2>1, <2>2
<1>10. \A x, y \in Upto(new) : x.done = y.done => x = y
  <2>1. CASE current = None
    BY <1>5, <1>8, <2>1
  <2>2. CASE current # None
    <3>1. \A x, y \in past : x.done = y.done => x = y
      BY <1>7, <2>2 DEF YearInv, ReplaysTo, Tips
    <3>2. \A x \in past : x.done # new.done
      <4>1. \A x \in past : x \in SuccessReceipts
        BY <1>1, <1>3, UptoIs
      <4>2. QED
        BY <1>3, <1>7, <2>2, <4>1 DEF SuccessReceipts
    <3>3. QED
      BY <1>8, <3>1, <3>2
  <2>3. QED
    BY <2>1, <2>2
<1>11. ReplaysTo(new)'
  <2>1. Upto(new)' = Upto(new)
    BY <1>2, SpareStays DEF Upto
  <2>2. \A t : Chain(t) => Chain(t)'
    BY <1>2 DEF Chain, Resolves, Holds, Regression, TransitionYear, SameGeneration
  <2>3. QED
    BY <1>9, <1>10, <2>1, <2>2 DEF ReplaysTo
<1>12. QED
  BY <1>1, <1>2, <1>6, <1>11

LEMMA YearStep ==
    ASSUME Reversible, YearInv, [LineageNext]_lineageVars
    PROVE  YearInv'
<1>1. NumberInv /\ Named /\ NumberInv' /\ Named' /\ source' = source
  <2>1. NumberInv /\ Named /\ source' = source
    BY DEF LineageNext, lineageVars, YearInv, RefInv
  <2>2. QED
    BY <2>1, NumberLineage, NamedStep
<1>2. ASSUME NEW r \in Runners, RunnerStep(r) PROVE YearInv'
  <2>1. Act(r) /\ TypeInv
    <3>1. Act(r)
      BY <1>2 DEF RunnerStep, Act
    <3>2. QED
      BY <1>1, <3>1, Facts
  <2>2. RefInv'
    BY <1>1, <2>1, RefAct DEF Act, RefInv, YearInv
  <2>3. (\A m \in Marks' : m.norm = Normalize[m.raw]) /\ \A s \in Runners : FromArchive(s)'
    BY <1>1, <2>1, NormalStep, FromArchiveStep DEF YearInv
  <2>4. ASSUME source = "fars-year", NEW m \in Tips' PROVE ReplaysTo(m)'
    BY <1>1, <1>2, <2>1, <2>4, TipsStep, ReplaysStay, TipBuilt
  <2>5. ASSUME source = "fars-year", NEW s \in Runners,
               job'[s].prev # None, job'[s].cand # None
        PROVE  job'[s].prev.done < job'[s].cand.done
    <3>1. Onward(r) /\ Knows(pc[r], job[r], current, disk, doubled, durable, clock)
      BY <1>1, <2>1, Facts, StepOnward DEF Act
    <3>2. CASE s # r
      BY <2>5, <3>1, <3>2 DEF Onward, YearInv
    <3>3. CASE s = r
      <4>1. \/ job'[r].cand = job[r].cand
            \/ /\ pc[r] = "history" /\ pc'[r] = "precommit"
               /\ job'[r].cand = Success(job[r], clock')
        BY <2>5, <3>1, <3>3, OnwardIs
      <4>2. CASE job'[r].cand = job[r].cand
        <5>1. pc[r] # "load"
          BY <2>5, <3>1, <3>3, <4>2 DEF Knows, Life, Unbuilt
        <5>2. job'[r].prev = job[r].prev
          BY <2>5, <3>1, <3>3, <5>1, OnwardIs
        <5>3. QED
          BY <2>5, <3>3, <4>2, <5>2 DEF YearInv
      <4>3. CASE /\ pc[r] = "history" /\ pc'[r] = "precommit"
                 /\ job'[r].cand = Success(job[r], clock')
        BY <1>1, <1>2, <2>5, <3>3, <4>3, TipBuilt
      <4>4. QED
        BY <4>1, <4>2, <4>3
    <3>4. QED
      BY <3>2, <3>3
  <2>6. QED
    BY <1>1, <2>2, <2>3, <2>4, <2>5 DEF YearInv
<1>3. CASE ClearLock \/ UNCHANGED vars
  <2>1. UNCHANGED <<disk, doubled, current, pc, job>> /\ Marks' = Marks
    BY <1>3, IdleSteps, QuietMarks
  <2>2. RefInv'
    BY <1>1, <1>3, RefIdle DEF RefInv, YearInv
  <2>3. /\ Tips' = Tips /\ \A m : Upto(m)' = Upto(m)
        /\ \A r \in Runners : FromArchive(r)' <=> FromArchive(r)
    BY <1>1, <2>1, SpareStays DEF Tips, Upto, FromArchive
  <2>4. \A t : Chain(t) => Chain(t)'
    BY <1>1, <2>1 DEF Chain, Resolves, Holds, Regression, TransitionYear, SameGeneration
  <2>5. \A m : ReplaysTo(m) => ReplaysTo(m)'
    BY <2>3, <2>4 DEF ReplaysTo
  <2>6. QED
    BY <1>1, <2>1, <2>2, <2>3, <2>5 DEF YearInv
<1>4. QED
  BY <1>2, <1>3 DEF LineageNext, lineageVars

LEMMA YearInit == LineageInit => YearInv
<1> SUFFICES ASSUME LineageInit PROVE YearInv
  OBVIOUS
<1>1. RefInv /\ Named /\ Marks = {}
  BY SeenInit, RefInit, MarksInit DEF SeenInv, LineageInit
<1>2. current = None /\ \A r \in Runners : pc[r] = "idle" /\ job[r].prev = None
                                           /\ job[r].cand = None
  BY NoJobIs DEF LineageInit, Init, StoreInit
<1>3. Tips = {}
  BY <1>2 DEF Tips
<1>4. QED
  BY <1>1, <1>2, <1>3 DEF YearInv, FromArchive

(* Between two calls the archived successes of a year up to the active one *)
(* are one chain of revisions at distinct times, whatever failed or was    *)
(* killed in between.  An archive determines its artifact and is           *)
(* determined by it: the artifact carries the digest of its archive.       *)
THEOREM YearsAreChains == ASSUME Reversible PROVE LineageSpec => []YearChain
<1>1. YearInv => YearChain
  <2> SUFFICES ASSUME YearInv, source = "fars-year", current # None, Archived(current)
               PROVE  LET past == {m \in Successes(Listing) : m.done <= current.done}
                      IN /\ \E s \in Orderings(past) : Chain(s) /\ s[Len(s)] = current
                         /\ \A m, n \in past : m.done = n.done => m = n
    BY DEF YearChain
  <2> DEFINE past == {m \in Successes(Listing) : m.done <= current.done}
  <2>1. current \in SuccessReceipts /\ current.id \in AttemptIds /\ current.done \in Nat
        /\ current.kind = "success"
    BY Facts DEF YearInv, RefInv, StoreTypeOK, SuccessReceipts
  <2>2. current \in past
    BY <2>1 DEF Archived, Holds, Successes, Records, Listing
  <2>3. Upto(current) = past
    BY <2>2 DEF Upto
  <2>4. ReplaysTo(current)
    BY DEF YearInv, Tips
  <2>5. PICK s \in Orderings(past) : Chain(s) /\ s[Cardinality(past)] = current
    BY <2>3, <2>4 DEF ReplaysTo
  <2>6. Len(s) = Cardinality(past)
    <3>1. IsFiniteSet(past)
      BY <2>1, <2>3, UptoIs DEF YearInv
    <3>2. Cardinality(past) \in Nat /\ s \in [1 .. Cardinality(past) -> past]
      BY <3>1, FS_CardinalityType DEF Orderings
    <3> HIDE DEF past
    <3>3. QED
      BY <3>2
  <2>7. \A m, n \in past : m.done = n.done => m = n
    BY <2>3, <2>4 DEF ReplaysTo
  <2>8. QED
    BY <2>5, <2>6, <2>7
<1>2. LineageSpec => []YearInv
  BY YearInit, YearStep, PTL DEF LineageSpec
<1>3. QED
  BY <1>1, <1>2, PTL

-----------------------------------------------------------------------------
(* Why a verifier refuses a store without a failure.  What a call may put  *)
(* back, or what is active if there is no such call, is archived and the   *)
(* latest success; and each archived success has its place after the one   *)
(* it names.                                                               *)

Top(m) ==
    IF m = None THEN Successes(Listing) = {}
    ELSE /\ disk[ReceiptFile(m.id)] = m
         /\ \A x \in Successes(Listing) : x.done <= m.done

Placed(x) ==
    IF x.prev = None
    THEN \A y \in Successes(Listing) : y = x \/ x.done <= y.done
    ELSE \E n \in Successes(Listing) :
            /\ n # x /\ n.norm = x.prev /\ n.done <= x.done
            /\ source # "fars-year" => ~Regression(x.norm, n.norm)
            /\ \A y \in Successes(Listing) : y.done <= n.done \/ x.done <= y.done

\* What the candidate of a call says of its prior marker, and what it was compared with.
Built(r) ==
    /\ pc[r] = "history" /\ job[r].prev # None /\ source # "fars-year" =>
          ~Regression(job[r].normRef, job[r].prev.norm)
    /\ job[r].cand # None =>
          /\ job[r].cand.prev = IF job[r].prev = None THEN None ELSE job[r].prev.norm
          /\ job[r].prev # None /\ source # "fars-year" =>
                ~Regression(job[r].cand.norm, job[r].prev.norm)

Tidy ==
    /\ \A i \in AttemptIds : ReceiptFile(i) \notin doubled /\ disk[FailureFile(i)] = None
    /\ \A r \in Runners : pc[r] = "handle" => job[r].exc # "interrupt"

Topped ==
    /\ \A r \in Runners : pc[r] \in Late => Top(job[r].prev)
    /\ (\A r \in Runners : pc[r] \notin Late) => Top(current)

AllPlaced == \A x \in Successes(Listing) : Placed(x)

\* What a verification that nothing has disturbed has read is still there.
StillThere ==
    /\ lock = 0
    /\ vpc # "current" => current # None /\ view.marker = current
    /\ vpc \in {"chain", "reread", "relock"} => view.history = Listing

(* While no failure was injected, no call retains the lock and none ends   *)
(* without its release, so that a lock always has an owner.                *)
Unharmed ==
    faults = 0 => /\ \A r \in Runners : ~job[r].retain
                  /\ lock # 0 => \E r \in Runners : Owns(r)

LEMMA StepFaults ==
    ASSUME StoreTypeOK, [Next]_vars
    PROVE  Calm \/ faults' # 0
<1>1. faults \in Nat
  BY StoreAssumption DEF StoreTypeOK
<1>2. ASSUME NEW e, Strike(e) PROVE faults' # 0
  BY <1>1, <1>2 DEF Strike
<1>3. ASSUME NEW f, NEW c, NEW e, InstallRaises(f, c, e)
      PROVE  Calm \/ faults' # 0
  BY <1>2, <1>3 DEF InstallRaises, Collides, FailsUnlinked, FailsLinked
<1>4. CASE PowerLoss \/ ClearLock \/ UNCHANGED vars
  BY <1>2, <1>4 DEF PowerLoss, LosePower, ClearLock, vars, storeVars, Calm
<1>5. ASSUME NEW r \in Runners,
             \/ Start(r) \/ Kill(r) \/ AcquireLock(r) \/ AcquireFails(r)
             \/ LoadActive(r) \/ CheckOwnReceipt(r) \/ PreflightInterrupted(r)
             \/ Fetch(r) \/ BuildMarker(r) \/ Precommit(r)
             \/ ValidateActivated(r) \/ FinalizationAllowed(r)
             \/ CallbackRaises(r) \/ StageInterrupted(r)
             \/ HandleChanged(r) \/ HandleAmbiguous(r) \/ HandleKnown(r)
             \/ HandlerEscapes(r) \/ InterruptedUnguarded(r) \/ ReleaseLock(r)
      PROVE  Calm \/ faults' # 0
  BY <1>2, <1>5 DEF Start, Kill, AcquireLock, AcquireFails, LoadActive,
     CheckOwnReceipt, PreflightInterrupted, Fetch, BuildMarker, Precommit,
     ValidateActivated, FinalizationAllowed, CallbackRaises,
     StageInterrupted, HandleChanged, HandleAmbiguous, HandleKnown,
     HandlerEscapes, InterruptedUnguarded, ReleaseLock
<1>6. ASSUME NEW r \in Runners,
             \/ ArchiveActive(r) \/ RecordLimit(r) \/ PreserveRaw(r)
             \/ PreserveNormalized(r) \/ WriteReceipt(r) \/ RecordFailure(r)
      PROVE  Calm \/ faults' # 0
  BY <1>3, <1>6 DEF ArchiveActive, RecordLimit, PreserveRaw,
     PreserveNormalized, WriteReceipt, RecordFailure
<1>7. ASSUME NEW r \in Runners, Commit(r) \/ Rollback(r) \/ RollbackRaises(r)
      PROVE  Calm \/ faults' # 0
  BY <1>2, <1>7 DEF Commit, Rollback, RollbackRaises, ReplaceMarkerRaises
<1>8. QED
  BY <1>4, <1>5, <1>6, <1>7 DEF Next, Step

LEMMA UnharmedStep == TrackInv /\ Unharmed /\ [Next]_vars => Unharmed'
<1> SUFFICES ASSUME TrackInv, Unharmed, [Next]_vars, faults' = 0
             PROVE  /\ \A s \in Runners : ~job'[s].retain
                    /\ lock' # 0 => \E s \in Runners : Owns(s)'
  BY DEF Unharmed
<1>1. StoreTypeOK /\ TypeInv
  BY TypeInvIs DEF TrackInv, LockInv
<1>2. faults = 0
  BY <1>1, StepFaults DEF Calm
<1>3. ASSUME NEW r \in Runners, Start(r) \/ Step(r) \/ Kill(r)
      PROVE  /\ \A s \in Runners : ~job'[s].retain
             /\ lock' # 0 => \E s \in Runners : Owns(s)'
  <2>1. /\ \A s \in Runners \ {r} : pc'[s] = pc[s] /\ job'[s] = job[s]
        /\ \A s \in Runners : ~job[s].retain
    BY <1>1, <1>2, <1>3, StepCarries DEF Carries, Unharmed
  <2>2. ~LeavesLock(r) /\ ~Retains(r)
    BY <1>2, <1>3, <2>1, StepLeaves DEF LeavesLock
  <2>3. pc'[r] \in Owning \/ lock' = 0 \/ (~Owns(r) /\ lock' = lock)
    BY <1>3, <2>2, StepLeaves
  <2>4. QED
    BY <1>2, <2>1, <2>2, <2>3 DEF Retains, Owns, Unharmed
<1>4. CASE ClearLock
  BY <1>2, <1>4 DEF ClearLock, Unharmed
<1>5. CASE UNCHANGED vars
  BY <1>2, <1>5 DEF vars, Unharmed, Owns
<1>6. ~PowerLoss
  BY <1>2, StoreAssumption DEF PowerLoss, LosePower, Strike
<1>7. QED
  BY <1>3, <1>4, <1>5, <1>6 DEF Next

CauseInv ==
    /\ SeenInv /\ YearInv /\ CapacityInv /\ Unharmed
    /\ \A r \in Runners : Built(r)
    /\ faults = 0 => Tidy /\ Topped /\ AllPlaced
    /\ Verifying /\ ~disturbed /\ faults = 0 => StillThere

LEMMA LineageFaults ==
    ASSUME NumberInv, [LineageNext]_lineageVars, faults' = 0
    PROVE  faults = 0
<1>1. StoreTypeOK /\ [Next]_vars
  BY Facts, LineageSteps DEF Act, Next
<1>2. QED
  BY <1>1, StepFaults DEF Calm

LEMMA BuiltStep ==
    ASSUME YearInv, NEW r \in Runners, RunnerStep(r), source' = source,
           \A s \in Runners : Built(s)
    PROVE  \A s \in Runners : Built(s)'
<1>1. /\ Act(r) /\ TypeInv /\ ControlOK /\ Onward(r) /\ job[r] \in Jobs
      /\ Local(pc[r], job[r]) /\ NumberInv
      /\ Knows(pc[r], job[r], current, disk, doubled, durable, clock)
  <2>1. Act(r) /\ NumberInv
    BY DEF RunnerStep, Act, YearInv, RefInv
  <2>2. QED
    BY <2>1, Facts, StepOnward DEF Act
<1>2. ASSUME NEW s \in Runners, s # r PROVE Built(s)'
  BY <1>1, <1>2 DEF Onward, Built, Regression
<1>3. ASSUME pc'[r] = "history", job'[r].prev # None, source # "fars-year"
      PROVE  ~Regression(job'[r].normRef, job'[r].prev.norm)
  <2>1. PreserveNormalized(r) /\ job'[r] = [job[r] EXCEPT !.normRef = Normalize[job[r].raw]]
    BY <1>1, <1>3, ArtifactsReached
  <2>2. job'[r].normRef = Normalize[job[r].raw] /\ job'[r].prev = job[r].prev
    BY <1>1, <2>1 DEF Jobs
  <2>3. CandidateAccepted(r)
    BY <1>3, <2>1 DEF RunnerStep, Callbacks, Passes, PreserveNormalized, Start
  <2>4. QED
    BY <1>3, <2>2, <2>3 DEF CandidateAccepted
<1>4. ASSUME job'[r].cand # None
      PROVE  /\ job'[r].cand.prev = IF job'[r].prev = None THEN None ELSE job'[r].prev.norm
             /\ job'[r].prev # None /\ source # "fars-year" =>
                   ~Regression(job'[r].cand.norm, job'[r].prev.norm)
  <2>1. CASE job'[r].cand = job[r].cand
    <3>1. pc[r] \notin {"load", "archive"} /\ pc[r] # "idle"
      BY <1>1, <1>4, <2>1 DEF Knows, Life, Unbuilt, YearInv, FromArchive
    <3>2. pc'[r] # "idle"
      BY <1>4, NoJobIs, <1>1 DEF Onward
    <3>3. job'[r].prev = job[r].prev
      BY <1>1, <3>1, <3>2 DEF Onward, Follows
    <3>4. QED
      BY <1>4, <2>1, <3>3 DEF Built
  <2>2. CASE /\ pc[r] = "history" /\ pc'[r] = "precommit"
             /\ job'[r].cand = Success(job[r], clock')
    <3>1. job'[r].prev = job[r].prev
      BY <1>1, <2>2 DEF Onward, Follows
    <3>2. /\ job'[r].cand.prev = IF job[r].prev = None THEN None ELSE job[r].prev.norm
          /\ job'[r].cand.norm = job[r].normRef
      BY <2>2 DEF Success
    <3>3. QED
      BY <2>2, <3>1, <3>2 DEF Built
  <2>3. QED
    BY <1>1, <1>4, <2>1, <2>2, OnwardIs
<1>5. Built(r)'
  BY <1>3, <1>4 DEF Built, Regression
<1>6. QED
  BY <1>2, <1>5

LEMMA TidyStep ==
    ASSUME NumberInv, Unharmed, Tidy, faults = 0, faults' = 0, NEW r \in Runners, Act(r)
    PROVE  Tidy'
<1>1. /\ StoreTypeOK /\ TypeInv /\ ControlOK /\ faults \in Nat /\ faults' = faults
      /\ Knows(pc[r], job[r], current, disk, doubled, durable, clock)
  BY Facts
<1>2. ASSUME NEW i \in AttemptIds
      PROVE  ReceiptFile(i) \notin doubled' /\ disk'[FailureFile(i)] = None
  <2>1. CASE UNCHANGED <<disk, doubled>>
    BY <2>1 DEF Tidy
  <2>2. ASSUME NEW f, NEW c, Writing(r, f, c), Puts(f, c)
        PROVE  ReceiptFile(i) \notin doubled' /\ disk'[FailureFile(i)] = None
    <3>1. doubled' = doubled
      BY <1>1, <2>2, NoStrike DEF Puts, Install, InstallRaises, Collides, FailsUnlinked,
         FailsLinked
    <3>2. f # FailureFile(i)
      <4>1. pc[r] = "failure" => ~job[r].rbFailed
        BY <1>1 DEF Knows, Life, Unharmed
      <4>2. QED
        BY <2>2, <4>1 DEF Writing, FailureFile, ReceiptFile, RawFile, NormFile
    <3>3. f \in Files /\ FailureFile(i) \in Files
      BY <1>1, <2>2, WritingTyped, FilesAre
    <3>4. QED
      BY <1>1, <2>2, <3>1, <3>2, <3>3, PutsIs DEF Tidy
  <2>3. QED
    BY <2>1, <2>2, StepPuts DEF Act
<1>3. ASSUME NEW s \in Runners, pc'[s] = "handle" PROVE job'[s].exc # "interrupt"
  <2>1. Onward(r)
    BY <1>1, StepOnward DEF Act
  <2>2. CASE s # r
    BY <1>3, <2>1, <2>2 DEF Onward, Tidy
  <2>3. CASE s = r
    <3>1. CASE Owns(r)
      <4>1. Leads(r)
        BY <1>1, <3>1, OwnerCalm, CalmLeads
      <4>2. QED
        BY <1>3, <2>3, <4>1 DEF Leads
    <3>2. CASE ~Owns(r)
      <4>1. pc[r] \in {"idle", "lock"}
        BY <3>2, Facts DEF Owns, Stages
      <4>2. pc'[r] \notin Late
        BY <1>1, <2>1, <4>1, EarlyLeads DEF Onward, Late, After
      <4>3. QED
        BY <1>3, <2>3, <4>2 DEF Late
    <3>3. QED
      BY <3>1, <3>2
  <2>4. QED
    BY <2>2, <2>3
<1>4. QED
  BY <1>2, <1>3 DEF Tidy

\* No step adds a success when what is active is archived already.
LEMMA SuccessesSame ==
    ASSUME NumberInv, Named, NEW r \in Runners, Act(r),
           current # None => disk[ReceiptFile(current.id)] = current
    PROVE  /\ Successes(Listing)' = Successes(Listing)
           /\ \A m \in SuccessReceipts : disk[ReceiptFile(m.id)] = m => disk'[ReceiptFile(m.id)] = m
<1>1. \A i \in AttemptIds : disk[ReceiptFile(i)] # None => disk'[ReceiptFile(i)] = disk[ReceiptFile(i)]
  BY EntriesStep
<1>2. Successes(Listing) \subseteq Successes(Listing)'
  BY <1>1 DEF Successes, Records, Listing
<1>3. \A m \in SuccessReceipts : m # None /\ m.id \in AttemptIds
  BY Facts, MarksAre DEF SuccessReceipts
<1>4. ASSUME NEW x \in Successes(Listing)', x \notin Successes(Listing) PROVE FALSE
  <2>1. x = current /\ x # None
    BY <1>4, NewSuccess DEF Successes, Records
  <2>2. x \in SuccessReceipts /\ x.id \in AttemptIds /\ x.kind = "success"
    BY <1>3, <2>1, <1>4, Facts DEF StoreTypeOK, Successes
  <2>3. Listing[x.id] = x
    BY <2>1, <2>2 DEF Listing
  <2>4. QED
    BY <1>4, <2>1, <2>2, <2>3 DEF Successes, Records
<1>5. QED
  BY <1>1, <1>2, <1>3, <1>4

\* What a success is, and what it is compared by.
LEMMA SuccessIs ==
    ASSUME NumberInv, Named
    PROVE  /\ \A x \in Successes(Listing) :
                 x \in SuccessReceipts /\ x.id \in AttemptIds /\ Listing[x.id] = x
           /\ \A m \in SuccessReceipts :
                 /\ m # None /\ m.id \in AttemptIds /\ m.done \in Nat
                 /\ disk[ReceiptFile(m.id)] = m <=> m \in Successes(Listing)
<1>1. \A m \in SuccessReceipts : m # None /\ m.id \in AttemptIds /\ m.done \in Nat
                                 /\ m.kind = "success"
  BY Facts, MarksAre DEF SuccessReceipts
<1>2. ASSUME NEW x \in Successes(Listing)
      PROVE  x \in SuccessReceipts /\ x.id \in AttemptIds /\ Listing[x.id] = x
  <2>1. PICK i \in AttemptIds : x = disk[ReceiptFile(i)] /\ x # None /\ x.kind = "success"
    BY DEF Successes, Records, Listing
  <2>2. x \in Receipts /\ x.id = i
    BY <2>1 DEF Named, Receipt
  <2>3. QED
    BY <2>1, <2>2 DEF Receipts, FailureReceipts, Listing
<1>3. ASSUME NEW m \in SuccessReceipts
      PROVE  disk[ReceiptFile(m.id)] = m <=> m \in Successes(Listing)
  BY <1>1, <1>2 DEF Successes, Records, Listing
<1>4. QED
  BY <1>1, <1>2, <1>3

\* A success that a call adds without a failure is its candidate.
LEMMA AddedLast ==
    ASSUME NumberInv, NumberInv', Named, Named', Topped, NEW r \in Runners, Act(r),
           NEW x \in Successes(Listing)', x \notin Successes(Listing)
    PROVE  /\ pc[r] = "receipt" /\ x = job[r].cand /\ x = current /\ x \in SuccessReceipts
           /\ Successes(Listing)' = Successes(Listing) \cup {x}
           /\ Top(job[r].prev)
           /\ \A y \in Successes(Listing) : y.done <= job[r].prev.done /\ y.done <= x.done
           /\ job[r].prev # None => /\ job[r].prev \in Successes(Listing)
                                    /\ job[r].prev.done <= x.done
<1>1. /\ x = current /\ x # None
      /\ Knows(pc[r], job[r], current, disk, doubled, durable, clock)
      /\ current \in SuccessReceipts /\ job[r].prev \in SuccessReceipts \cup {None}
  BY NewSuccess, Facts DEF Successes, Records, StoreTypeOK, Jobs
<1>2. PICK i \in AttemptIds : x = disk'[ReceiptFile(i)] /\ x.kind = "success"
  BY DEF Successes, Records, Listing
<1>3. disk'[ReceiptFile(i)] # disk[ReceiptFile(i)]
  BY <1>1, <1>2 DEF Successes, Records, Listing
<1>4. Adds(r, x) /\ pc[r] \in {"archive", "receipt"}
  <2>1. Adds(r, x)
    BY <1>2, <1>3, EntriesStep
  <2>2. QED
    BY <1>2, <2>1 DEF Adds, Failure
<1>5. pc[r] = "receipt"
  <2>1. SUFFICES ASSUME pc[r] = "archive" PROVE FALSE
    BY <1>4
  <2>2. \A s \in Runners : pc[s] \notin Late
    BY <2>1, Owners DEF Late, After, Owns, Owning, Preflight
  <2>3. disk[ReceiptFile(current.id)] = current
    BY <1>1, <2>2 DEF Topped, Top
  <2>4. QED
    BY <1>1, <2>3, SuccessIs
<1>6. x = job[r].cand /\ Top(job[r].prev)
  BY <1>4, <1>5 DEF Adds, Topped, Late, After
<1>7. Successes(Listing)' = Successes(Listing) \cup {x}
  <2>1. ASSUME NEW y \in Successes(Listing) PROVE y \in Successes(Listing)'
    <3>1. PICK k \in AttemptIds : y = disk[ReceiptFile(k)] /\ y # None /\ y.kind = "success"
      BY DEF Successes, Records, Listing
    <3>2. disk'[ReceiptFile(k)] = y
      BY <3>1, EntriesStep
    <3>3. QED
      BY <3>1, <3>2 DEF Successes, Records, Listing
  <2>2. QED
    BY <1>1, <2>1, NewSuccess
<1>8. job[r].prev # None => job[r].prev \in Successes(Listing) /\ job[r].prev.done <= x.done
  BY <1>1, <1>5, <1>6, SuccessIs DEF Top, Knows, Timed, Owning, Protected
<1>9. ASSUME NEW y \in Successes(Listing)
      PROVE  y.done <= job[r].prev.done /\ y.done <= x.done
  <2>1. job[r].prev # None /\ y.done <= job[r].prev.done
    BY <1>6 DEF Top
  <2>2. y.done \in Nat /\ job[r].prev.done \in Nat /\ x.done \in Nat
    BY <1>1, <2>1, SuccessIs
  <2>3. QED
    BY <1>8, <2>1, <2>2
<1>10. QED
  BY <1>1, <1>5, <1>6, <1>7, <1>8, <1>9

LEMMA TopKept ==
    ASSUME NumberInv, Named, NEW m \in SuccessReceipts \cup {None}, Top(m),
           \A i \in AttemptIds : disk[ReceiptFile(i)] # None =>
              disk'[ReceiptFile(i)] = disk[ReceiptFile(i)],
           Successes(Listing)' = Successes(Listing)
    PROVE  Top(m)'
BY SuccessIs DEF Top

LEMMA ToppedStep ==
    ASSUME NumberInv, NumberInv', Named, Named', Unharmed', Tidy, Topped,
           faults = 0, faults' = 0, NEW r \in Runners, Act(r)
    PROVE  Topped'
<1>1. /\ TypeInv /\ Onward(r) /\ Moves(r) /\ job[r] \in Jobs /\ faults' = faults
      /\ Knows(pc[r], job[r], current, disk, doubled, durable, clock)
      /\ Knows(pc[r], job[r], current, disk, doubled, durable, clock)'
      /\ current \in SuccessReceipts \cup {None}
      /\ job[r].prev \in SuccessReceipts \cup {None}
  <2>1. Knows(pc[r], job[r], current, disk, doubled, durable, clock)'
    BY DEF NumberInv, TrackInv, Informed
  <2>2. QED
    BY <2>1, Facts, StepOnward, StepMovesMarker DEF Act, StoreTypeOK, Jobs
<1>2. \A i \in AttemptIds : disk[ReceiptFile(i)] # None =>
         disk'[ReceiptFile(i)] = disk[ReceiptFile(i)]
  BY EntriesStep
<1>3. \A s \in Runners \ {r} : pc'[s] = pc[s] /\ job'[s] = job[s]
  BY <1>1 DEF Onward
<1>4. CASE ~Owns(r)
  <2>1. Quiet /\ pc[r] \in {"idle", "lock"}
    BY <1>1, <1>4, OutsiderCalm, Facts DEF Owns, Stages
  <2>2. pc[r] \notin Late /\ pc'[r] \notin Late
    BY <1>1, <2>1, EarlyLeads DEF Onward, Late, After
  <2>3. disk' = disk /\ current' = current /\ Listing' = Listing
    BY <2>1 DEF Quiet, Listing
  <2>4. \A m : Top(m)' <=> Top(m)
    BY <2>3 DEF Top, Successes, Records
  <2>5. QED
    BY <1>3, <2>2, <2>3, <2>4 DEF Topped
<1>5. CASE Owns(r)
  <2>1. Leads(r)
    BY <1>1, <1>5, OwnerCalm, CalmLeads
  <2>2. \A s \in Runners \ {r} : pc[s] \notin Late /\ pc'[s] \notin Late
    BY <1>3, <1>5, Owners
  <2>3. SUFFICES IF pc'[r] \in Late THEN Top(job[r].prev)' ELSE Top(current)'
    BY <2>2 DEF Topped, Top
  <2>4. CASE pc[r] \notin Late
    <3>1. Top(current)
      BY <2>2, <2>4 DEF Topped
    <3>2. \A x \in Successes(Listing)' : x \in Successes(Listing)
      BY <2>4, AddedLast DEF Late, After
    <3>3. Successes(Listing)' = Successes(Listing)
      BY <1>1, <3>1, SuccessesSame DEF Top
    <3>4. pc'[r] \in Late => job'[r].prev = current
      BY <2>4, LateKeeps
    <3>5. pc'[r] \notin Late => current' = current
      BY <1>1, <2>1, <2>4 DEF Moves, Leads, Late
    <3>6. ASSUME NEW m, m = current PROVE Top(m)'
      BY <1>1, <1>2, <3>1, <3>3, <3>6, TopKept
    <3>7. QED
      BY <3>4, <3>5, <3>6 DEF Top
  <2>5. CASE pc[r] \in Late /\ pc'[r] # "release"
    <3>1. Top(job[r].prev)
      BY <2>5 DEF Topped
    <3>2. \A i \in AttemptIds : disk'[ReceiptFile(i)] = disk[ReceiptFile(i)]
      <4>1. pc[r] = "receipt" => UNCHANGED disk
        BY <2>1, <2>5 DEF Leads, Late
      <4>2. QED
        BY <2>5, <4>1, EntryWritten DEF Late, After
    <3>3. Successes(Listing)' = Successes(Listing)
      BY <3>2 DEF Successes, Records, Listing
    <3>4. pc'[r] \in Late => job'[r].prev = job[r].prev
      BY LateKeeps
    <3>5. pc'[r] \notin Late => pc'[r] = "failure" /\ job'[r].prev = job[r].prev
      BY <1>1, <2>1, <2>5 DEF Leads, Onward, Follows, Late, After
    <3>6. pc'[r] \notin Late => current' = job[r].prev
      BY <1>1, <3>5 DEF Knows, Life, Unharmed
    <3>7. ASSUME NEW m, m = job[r].prev PROVE Top(m)'
      BY <1>1, <1>2, <3>1, <3>3, <3>7, TopKept
    <3>8. QED
      BY <3>4, <3>6, <3>7 DEF Top
  <2>6. CASE pc[r] \in Late /\ pc'[r] = "release"
    <3>1. pc[r] = "receipt" /\ job'[r].result = "success"
      <4>1. pc[r] = "handle" => job[r].exc # "interrupt"
        BY DEF Tidy
      <4>2. pc[r] = "handle" => MarkerState(job[r], current) # "ambiguous"
        BY <1>1 DEF Knows, Life, MarkerState
      <4>3. pc[r] # "handle"
        BY <2>1, <2>6, <4>1, <4>2 DEF Leads
      <4>4. QED
        BY <2>1, <2>6, <4>3 DEF Leads, Late, After
    <3>2. current' = current /\ current = job[r].cand /\ job'[r].cand = job[r].cand
          /\ pc'[r] \notin Late
      BY <1>1, <2>6, <3>1 DEF Moves, Knows, Life, After, Onward, Follows, Late
    <3>3. disk'[ReceiptFile(current'.id)] = current' /\ current' # None
      <4>1. InHistory(current', disk', doubled')
        BY <1>1, <2>6, <3>1, <3>2 DEF Knows, Kept
      <4>2. job[r].cand # None
        BY <1>1, <3>1, Facts, MarksAre DEF Local
      <4>3. QED
        BY <3>2, <4>1, <4>2 DEF InHistory
    <3>4. Top(job[r].prev) /\ job[r].cand \in SuccessReceipts
      BY <2>6, <3>1, Facts DEF Topped, Local
    <3>5. ASSUME NEW x \in Successes(Listing)' PROVE x.done <= current'.done
      <4>1. CASE x \notin Successes(Listing)
        BY <3>2, <3>4, <4>1, AddedLast, SuccessIs
      <4>2. CASE x \in Successes(Listing)
        <5>1. job[r].prev # None /\ x.done <= job[r].prev.done
          BY <3>4, <4>2 DEF Top
        <5>2. job[r].prev.done <= job[r].cand.done
          BY <1>1, <3>1, <3>2, <3>3, <5>1 DEF Knows, Timed, Owning, Protected
        <5>3. x.done \in Nat /\ job[r].prev.done \in Nat /\ job[r].cand.done \in Nat
          BY <1>1, <3>4, <4>2, <5>1, SuccessIs
        <5>4. QED
          BY <3>2, <5>1, <5>2, <5>3
      <4>3. QED
        BY <4>1, <4>2
    <3>6. QED
      BY <3>2, <3>3, <3>5 DEF Top
  <2>7. QED
    BY <2>4, <2>5, <2>6
<1>6. QED
  BY <1>4, <1>5

LEMMA PlacedStep ==
    ASSUME NumberInv, NumberInv', Named, Named', Topped, AllPlaced, source' = source,
           NEW r \in Runners, Built(r), Act(r)
    PROVE  AllPlaced'
<1>1. CASE Successes(Listing)' = Successes(Listing)
  BY <1>1 DEF AllPlaced, Placed, Regression
<1>2. ASSUME NEW c \in Successes(Listing)', c \notin Successes(Listing)
      PROVE  AllPlaced'
  <2> DEFINE S == Successes(Listing)
             p == job[r].prev
  <2>1. /\ c = job[r].cand /\ c \in SuccessReceipts /\ Successes(Listing)' = S \cup {c}
        /\ \A y \in S : y.done <= p.done /\ y.done <= c.done
        /\ p = None => S = {}
        /\ p # None => p \in S /\ p.done <= c.done
    BY <1>2, AddedLast DEF Top
  <2>2. c.done \in Nat /\ c # None /\ \A y \in S : y.norm # None
    <3>1. \A y \in SuccessReceipts : y.norm # None
      BY StoreAssumption DEF SuccessReceipts
    <3>2. QED
      BY <2>1, <3>1, SuccessIs
  <2>3. ASSUME NEW x \in S PROVE Placed(x)'
    <3>1. CASE x.prev = None
      <4>1. \A y \in S : y = x \/ x.done <= y.done
        BY <3>1 DEF AllPlaced, Placed
      <4>2. QED
        BY <2>1, <3>1, <4>1 DEF Placed
    <3>2. CASE x.prev # None
      <4>1. PICK n \in S :
               /\ n # x /\ n.norm = x.prev /\ n.done <= x.done
               /\ source # "fars-year" => ~Regression(x.norm, n.norm)
               /\ \A y \in S : y.done <= n.done \/ x.done <= y.done
        BY <3>2 DEF AllPlaced, Placed
      <4>2. \A y \in S \cup {c} : y.done <= n.done \/ x.done <= y.done
        BY <2>1, <4>1
      <4>3. QED
        BY <2>1, <3>2, <4>1, <4>2 DEF Placed, Regression
    <3>3. QED
      BY <3>1, <3>2
  <2>4. Placed(c)'
    <3>1. CASE p = None
      <4>1. c.prev = None
        BY <2>1, <2>2, <3>1 DEF Built
      <4>2. QED
        BY <2>1, <3>1, <4>1 DEF Placed
    <3>2. CASE p # None
      <4>1. /\ c.prev = p.norm /\ p # c
            /\ source # "fars-year" => ~Regression(c.norm, p.norm)
        BY <1>2, <2>1, <2>2, <3>2 DEF Built
      <4>2. p.norm # None
        BY <2>1, <2>2, <3>2
      <4>3. \A y \in S \cup {c} : y.done <= p.done \/ c.done <= y.done
        BY <2>1, <2>2
      <4>4. QED
        BY <2>1, <3>2, <4>1, <4>2, <4>3 DEF Placed, Regression
    <3>3. QED
      BY <3>1, <3>2
  <2>5. QED
    BY <2>1, <2>3, <2>4 DEF AllPlaced
<1>3. \A x \in Successes(Listing) : x \in Successes(Listing)'
  BY EntriesStep DEF Successes, Records, Listing
<1>4. QED
  BY <1>1, <1>2, <1>3

LEMMA StillThereStep ==
    ASSUME CauseInv, NumberInv', LineageNext, Verifying', ~disturbed', faults' = 0
    PROVE  StillThere'
<1>1. /\ NumberInv /\ faults = 0 /\ faults' = faults
      /\ ~disturbed /\ lock' = 0 /\ vpc' \in VerifyingStages
  <2>1. NumberInv
    BY DEF CauseInv, YearInv, RefInv
  <2>2. faults = 0
    BY <2>1, LineageFaults
  <2>3. ~disturbed /\ lock' = 0
    BY DEF LineageNext, Ghosts, Verifying
  <2>4. QED
    BY <2>1, <2>2, <2>3 DEF LineageNext, Ghosts, Verifying
<1>2. CASE UNCHANGED <<vpc, view>>
  <2>1. StillThere
    BY <1>1, <1>2 DEF CauseInv, Verifying
  <2>2. UNCHANGED <<disk, current>>
    <3>1. ASSUME NEW r \in Runners, Act(r) PROVE Quiet
      BY <1>1, <2>1, <3>1, Owners, OutsiderCalm DEF StillThere
    <3>2. QED
      BY <3>1, IdleSteps, LineageSteps DEF Quiet
  <2>3. QED
    BY <1>1, <1>2, <2>1, <2>2 DEF StillThere, Listing
<1>3. CASE ~UNCHANGED <<vpc, view>>
  <2>1. VerifierStep /\ UNCHANGED vars /\ UNCHANGED <<disk, current>> /\ Listing' = Listing
    <3>1. VerifierStep /\ UNCHANGED vars
      BY <1>3, VerifierFrame
    <3>2. UNCHANGED <<disk, current>>
      BY <3>1 DEF vars, storeVars
    <3>3. QED
      BY <3>1, <3>2 DEF Listing
  <2>2. vpc # "idle" => StillThere
    <3>1. vpc # "idle" => Verifying
      BY <1>1, <2>1, VerifierMoves DEF Verifying, VerifyingStages
    <3>2. QED
      BY <1>1, <3>1 DEF CauseInv
  <2>3. QED
    <3>1. CASE vpc = "idle"
      <4>1. vpc' = "current"
        BY <1>1, <2>1, <3>1, VerifierMoves DEF Verifying, VerifyingStages
      <4>2. QED
        BY <1>1, <4>1 DEF StillThere
    <3>2. CASE vpc = "current" /\ ReadMarker
      <4>1. vpc' = "scan" /\ current # None /\ view' = [view EXCEPT !.marker = current]
        BY <1>1, <3>2 DEF ReadMarker, Reject, VerifyingStages
      <4>2. view'.marker = current
        BY <4>1 DEF CauseInv, SeenInv, Views
      <4>3. QED
        BY <1>1, <2>1, <4>1, <4>2 DEF StillThere
    <3>3. CASE vpc = "scan" /\ ScanReceipts
      <4>1. vpc' = "chain" /\ view' = [view EXCEPT !.history = Listing]
        BY <1>1, <3>3 DEF ScanReceipts, Reject, VerifyingStages
      <4>2. view'.history = Listing /\ view'.marker = view.marker
        BY <4>1 DEF CauseInv, SeenInv, Views
      <4>3. QED
        BY <1>1, <2>1, <2>2, <3>3, <4>1, <4>2 DEF StillThere
    <3>4. CASE vpc = "chain" /\ VerifyChain
      BY <1>1, <2>1, <2>2, <3>4 DEF StillThere, VerifyChain, Reject, VerifyingStages
    <3>5. CASE vpc = "reread" /\ vpc' = "relock" /\ view' = view
      BY <1>1, <2>1, <2>2, <3>5 DEF StillThere
    <3>6. QED
      BY <1>1, <2>1, <3>1, <3>2, <3>3, <3>4, <3>5, VerifierMoves DEF VerifyingStages
<1>4. QED
  BY <1>2, <1>3

LEMMA CauseStep ==
    ASSUME Reversible, CauseInv, [LineageNext]_lineageVars
    PROVE  CauseInv'
<1>1. /\ SeenInv /\ YearInv /\ CapacityInv /\ NumberInv /\ Named
      /\ SeenInv' /\ YearInv' /\ CapacityInv' /\ NumberInv' /\ Named' /\ source' = source
  <2>1. /\ SeenInv /\ YearInv /\ CapacityInv /\ NumberInv /\ Named
        /\ source' = source
    BY DEF CauseInv, YearInv, RefInv, LineageNext, lineageVars
  <2>2. QED
    BY <2>1, SeenStep, YearStep, CapacityStep, NumberLineage, NamedStep
<1>2. Unharmed'
  <2>1. [Next]_vars
    BY LineageSteps DEF Act, Next
  <2>2. QED
    BY <1>1, <2>1, UnharmedStep DEF CauseInv, NumberInv
<1>3. \A r \in Runners : Built(r)'
  <2>1. CASE \E r \in Runners : RunnerStep(r)
    BY <1>1, <2>1, BuiltStep DEF CauseInv
  <2>2. CASE ClearLock \/ UNCHANGED vars
    BY <1>1, <2>2, IdleSteps DEF CauseInv, Built, Regression
  <2>3. QED
    BY <2>1, <2>2 DEF LineageNext, lineageVars
<1>4. ASSUME faults' = 0 PROVE Tidy' /\ Topped' /\ AllPlaced'
  <2>1. faults = 0 /\ Tidy /\ Topped /\ AllPlaced /\ Unharmed /\ \A r \in Runners : Built(r)
    BY <1>1, <1>4, LineageFaults DEF CauseInv
  <2>2. CASE \E r \in Runners : Act(r)
    BY <1>1, <1>2, <1>4, <2>1, <2>2, TidyStep, ToppedStep, PlacedStep
  <2>3. CASE ClearLock \/ UNCHANGED vars
    <3>1. UNCHANGED <<disk, doubled, current, pc, job>>
      BY <2>3, IdleSteps
    <3>2. Successes(Listing)' = Successes(Listing)
      BY <3>1 DEF Successes, Records, Listing
    <3>3. QED
      BY <1>1, <2>1, <3>1, <3>2 DEF Tidy, Topped, Top, AllPlaced, Placed, Regression
  <2>4. QED
    BY <2>2, <2>3, LineageSteps
<1>5. ASSUME Verifying', ~disturbed', faults' = 0 PROVE StillThere'
  <2>1. CASE LineageNext
    BY <1>1, <1>5, <2>1, StillThereStep
  <2>2. CASE UNCHANGED lineageVars
    <3>1. UNCHANGED <<disk, current, lock, faults, vpc, view, disturbed>>
      BY <2>2 DEF lineageVars, verifierVars, vars, storeVars
    <3>2. QED
      BY <1>5, <3>1 DEF CauseInv, StillThere, Listing, Verifying
  <2>3. QED
    BY <2>1, <2>2
<1>6. QED
  BY <1>1, <1>2, <1>3, <1>4, <1>5 DEF CauseInv

LEMMA CauseInit == LineageInit => CauseInv
<1> SUFFICES ASSUME LineageInit PROVE CauseInv
  OBVIOUS
<1>1. SeenInv /\ YearInv /\ CapacityInv
  BY SeenInit, YearInit, CapacityInit
<1>2. /\ disk = [f \in Files |-> None] /\ doubled = {} /\ current = None
      /\ \A r \in Runners : pc[r] = "idle" /\ job[r] = NoJob
      /\ lock = 0 /\ vpc = "idle"
  BY DEF LineageInit, Init, StoreInit
<1>3. Successes(Listing) = {}
  BY <1>2, FilesAre DEF Successes, Records, Listing
<1>4. Unharmed /\ \A r \in Runners : Built(r)
  BY <1>2, NoJobIs DEF Unharmed, Built, NoJob
<1>5. Tidy /\ Topped /\ AllPlaced
  BY <1>2, <1>3, FilesAre DEF Tidy, Topped, Top, AllPlaced, Late, After
<1>6. QED
  BY <1>1, <1>2, <1>4, <1>5 DEF CauseInv, Verifying, VerifyingStages

-----------------------------------------------------------------------------
(* Successes with distinct times have one ordering.                        *)

LEMMA OrderingIs ==
    ASSUME NEW S, IsFiniteSet(S), NEW s \in Orderings(S)
    PROVE  /\ Cardinality(S) \in Nat /\ Len(s) = Cardinality(S)
           /\ s \in [1 .. Cardinality(S) -> S] /\ DOMAIN s = 1 .. Cardinality(S)
           /\ \A i, j \in 1 .. Cardinality(S) : i < j => s[i] # s[j] /\ s[i].done <= s[j].done
           /\ \A x \in S : \E i \in 1 .. Cardinality(S) : s[i] = x
<1> DEFINE n == Cardinality(S)
<1>1. n \in Nat /\ IsFiniteSet(1 .. n) /\ Cardinality(1 .. n) = n
  BY FS_CardinalityType, FS_Interval
<1>2. s \in [1 .. n -> S] /\ DOMAIN s = 1 .. n
  BY DEF Orderings
<1>3. \A i, j \in 1 .. n : i < j => s[i] # s[j] /\ s[i].done <= s[j].done
  BY <1>2 DEF Orderings
<1>4. s \in Injection(1 .. n, S)
  <2>1. \A i, j \in 1 .. n : s[i] = s[j] => i = j
    BY <1>1, <1>3
  <2>2. QED
    BY <1>2, <2>1 DEF Injection, IsInjective
<1>5. s \in Surjection(1 .. n, S)
  BY <1>1, <1>4, FS_Injection
<1>6. \A x \in S : \E i \in 1 .. n : s[i] = x
  BY <1>5 DEF Surjection
<1>7. Len(s) = n
  <2> HIDE DEF n
  <2>1. QED
    BY <1>1, <1>2
<1>8. QED
  BY <1>1, <1>2, <1>3, <1>6, <1>7

LEMMA IntervalSize ==
    ASSUME NEW k \in Nat
    PROVE  IsFiniteSet(1 .. k) /\ Cardinality(1 .. k) = k
BY FS_Interval

LEMMA SameSize ==
    ASSUME NEW S, NEW T, IsFiniteSet(S), NEW f \in Surjection(S, T), f \in Injection(S, T)
    PROVE  Cardinality(T) = Cardinality(S)
BY FS_Surjection

LEMMA RankIs ==
    ASSUME NEW S \in SUBSET SuccessReceipts, IsFiniteSet(S), NEW s \in Orderings(S),
           \A x, y \in S : x.done = y.done => x = y,
           NEW i \in 1 .. Cardinality(S)
    PROVE  Cardinality({y \in S : y.done < s[i].done}) = i - 1
<1> DEFINE n == Cardinality(S)
           T == {y \in S : y.done < s[i].done}
           f == [k \in 1 .. (i - 1) |-> s[k]]
<1>1. /\ n \in Nat /\ s \in [1 .. n -> S] /\ i \in Nat /\ i - 1 \in Nat
      /\ \A j, k \in 1 .. n : j < k => s[j] # s[k] /\ s[j].done <= s[k].done
      /\ \A x \in S : \E j \in 1 .. n : s[j] = x
      /\ \A x \in S : x.done \in Nat
  <2>1. \A x \in S : x.done \in Nat
    BY DEF SuccessReceipts
  <2>2. n \in Nat
    BY OrderingIs
  <2>3. i \in Nat /\ i - 1 \in Nat
    BY <2>2
  <2>4. QED
    BY <2>1, <2>3, OrderingIs
<1>2. \A k \in 1 .. (i - 1) : k \in 1 .. n /\ k < i /\ s[k] \in S
  BY <1>1
<1>3. \A k \in 1 .. (i - 1) : s[k] \in T
  <2> TAKE k \in 1 .. (i - 1)
  <2>1. s[k] # s[i] /\ s[k].done <= s[i].done /\ s[k] \in S /\ s[i] \in S
    BY <1>1, <1>2
  <2>2. s[k].done # s[i].done /\ s[k].done \in Nat /\ s[i].done \in Nat
    BY <1>1, <2>1
  <2>3. QED
    BY <2>1, <2>2
<1>4. \A x \in T : \E k \in 1 .. (i - 1) : s[k] = x
  <2> TAKE x \in T
  <2>1. PICK j \in 1 .. n : s[j] = x
    BY <1>1
  <2>2. x.done < s[i].done /\ s[i] \in S /\ x.done \in Nat /\ s[i].done \in Nat
    BY <1>1
  <2>3. ~(i < j) /\ j # i
    BY <1>1, <2>1, <2>2
  <2>4. QED
    BY <1>1, <2>1, <2>3
<1>5. f \in Surjection(1 .. (i - 1), T)
  <2>1. f \in [1 .. (i - 1) -> T]
    BY <1>3
  <2>2. QED
    BY <1>4, <2>1 DEF Surjection
<1>6. f \in Injection(1 .. (i - 1), T)
  <2>1. \A j, k \in 1 .. (i - 1) : s[j] = s[k] => j = k
    BY <1>1, <1>2
  <2>2. QED
    <3>1. f \in [1 .. (i - 1) -> T] /\ DOMAIN f = 1 .. (i - 1)
      BY <1>3
    <3>2. \A j, k \in 1 .. (i - 1) : f[j] = s[j] /\ f[k] = s[k]
      OBVIOUS
    <3>3. IsInjective(f)
      BY <2>1, <3>1, <3>2 DEF IsInjective
    <3>4. QED
      BY <3>1, <3>3 DEF Injection
<1>7. IsFiniteSet(1 .. (i - 1)) /\ Cardinality(1 .. (i - 1)) = i - 1
  BY <1>1, IntervalSize
<1>8. Cardinality(T) = i - 1
  <2> HIDE DEF T, f
  <2>1. Cardinality(T) = Cardinality(1 .. (i - 1))
    BY <1>5, <1>6, <1>7, SameSize
  <2>2. QED
    BY <2>1, <1>7
<1>9. QED
  BY <1>8

LEMMA OneOrdering ==
    ASSUME NEW S \in SUBSET SuccessReceipts, IsFiniteSet(S),
           NEW s \in Orderings(S), NEW t \in Orderings(S),
           \A x, y \in S : x.done = y.done => x = y
    PROVE  s = t
<1> DEFINE n == Cardinality(S)
<1>1. n \in Nat /\ s \in [1 .. n -> S] /\ t \in [1 .. n -> S]
      /\ \A x \in S : \E i \in 1 .. n : s[i] = x
  BY OrderingIs
<1>2. ASSUME NEW i \in 1 .. n PROVE s[i] = t[i]
  <2>1. PICK j \in 1 .. n : s[j] = t[i]
    BY <1>1
  <2>2. Cardinality({y \in S : y.done < t[i].done}) = i - 1
    BY RankIs
  <2>3. Cardinality({y \in S : y.done < s[j].done}) = j - 1
    BY RankIs
  <2>4. i = j
    BY <1>1, <2>1, <2>2, <2>3
  <2>5. QED
    BY <2>1, <2>4
<1>3. QED
  BY <1>1, <1>2

-----------------------------------------------------------------------------
(* What a verification reads when nothing is in its way.                   *)

\* Every success has its place, and none shares its time: then the history replays.
LEMMA PlacedChain ==
    ASSUME CauseInv, Reversible, source # "fars-year", AllPlaced,
           NEW S, S = Successes(Listing), NEW s \in Orderings(S),
           \A x, y \in S : x.done = y.done => x = y,
           source = "fars-joined" => ~Reuse
    PROVE  Chain(s)
<1> DEFINE n == Cardinality(S)
<1>1. /\ NumberInv /\ Named /\ IsFiniteSet(S)
      /\ \A x \in S : /\ x \in SuccessReceipts /\ x.done \in Nat /\ x \in Marks
                      /\ x.norm # None
  <2>1. NumberInv /\ Named /\ TypeInv
    BY Facts DEF CauseInv, SeenInv
  <2>2. ASSUME NEW x \in S
        PROVE  x \in SuccessReceipts /\ x.done \in Nat /\ x \in Marks /\ x.norm # None
    <3>1. /\ x \in SuccessReceipts /\ x.id \in AttemptIds /\ x.done \in Nat
          /\ disk[ReceiptFile(x.id)] = x
      BY <2>1, SuccessIs
    <3>2. x \in SuccessesOnDisk
      BY <3>1 DEF SuccessesOnDisk, ReceiptsOnDisk
    <3>3. \A m \in SuccessReceipts : m.norm # None
      BY StoreAssumption DEF SuccessReceipts
    <3>4. QED
      BY <2>1, <3>1, <3>2, <3>3, MarksAre
  <2>3. QED
    BY <2>1, <2>2, HistoriesAreFinite
<1>2. /\ n \in Nat /\ Len(s) = n /\ s \in [1 .. n -> S] /\ DOMAIN s = 1 .. n
      /\ \A i, j \in 1 .. n : i < j => s[i] # s[j] /\ s[i].done <= s[j].done
      /\ \A x \in S : \E i \in 1 .. n : s[i] = x
  BY <1>1, OrderingIs
<1>3. \A i, j \in 1 .. n : i < j => s[i].done < s[j].done
  <2> TAKE i, j \in 1 .. n
  <2>1. s[i] \in S /\ s[j] \in S
    BY <1>2
  <2>2. s[i].done \in Nat /\ s[j].done \in Nat /\ (s[i].done = s[j].done => s[i] = s[j])
    BY <1>1, <2>1
  <2>3. QED
    BY <1>2, <2>2
<1> HIDE DEF n
<1>4. ASSUME NEW i \in 1 .. n
      PROVE  /\ s[i].prev = IF i = 1 THEN None ELSE s[i - 1].norm
             /\ i > 1 => ~Regression(s[i].norm, s[i - 1].norm)
  <2> DEFINE x == s[i]
  <2>1. x \in S /\ Placed(x) /\ x.done \in Nat
    BY <1>1, <1>2 DEF AllPlaced
  <2>2. CASE x.prev = None
    <3>1. \A y \in S : y = x \/ x.done <= y.done
      BY <2>1, <2>2 DEF Placed
    <3>2. ASSUME i > 1 PROVE FALSE
      <4>1. 1 \in 1 .. n /\ s[1] \in S /\ s[1].done < x.done /\ s[1] # x
        BY <1>2, <1>3, <3>2
      <4>2. s[1].done \in Nat
        BY <1>1, <4>1
      <4>3. QED
        BY <2>1, <3>1, <4>1, <4>2
    <3>3. QED
      BY <1>2, <2>2, <3>2
  <2>3. CASE x.prev # None
    <3>1. PICK p \in S : /\ p # x /\ p.norm = x.prev /\ p.done <= x.done
                         /\ ~Regression(x.norm, p.norm)
                         /\ \A y \in S : y.done <= p.done \/ x.done <= y.done
      BY <2>1, <2>3 DEF Placed
    <3>2. PICK j \in 1 .. n : s[j] = p
      BY <1>2
    <3>3. j < i
      <4>1. p.done \in Nat /\ i \in Nat /\ j \in Nat
        BY <1>1, <1>2
      <4>2. QED
        BY <1>3, <2>1, <3>1, <3>2, <4>1
    <3>4. i - 1 \in 1 .. n /\ i > 1 /\ j <= i - 1 /\ j \in Nat
      BY <1>2, <3>3
    <3>5. s[i - 1].done < x.done /\ s[i - 1] \in S
      BY <1>2, <1>3, <3>4
    <3>6. s[i - 1].done <= p.done
      <4>1. s[i - 1].done \in Nat
        BY <1>1, <3>5
      <4>2. QED
        BY <2>1, <3>1, <3>5, <4>1
    <3>7. j = i - 1
      <4>1. s[i - 1].done \in Nat /\ p.done \in Nat
        BY <1>1, <3>5
      <4>2. j < i - 1 => p.done < s[i - 1].done
        BY <1>3, <3>2, <3>4
      <4>3. QED
        BY <3>4, <3>6, <4>1, <4>2
    <3>8. QED
      BY <3>1, <3>2, <3>4, <3>7
  <2>4. QED
    BY <2>2, <2>3
<1>5. ASSUME NEW i \in 1 .. n PROVE Resolves(s[i])
  <2>1. s[i] \in Marks /\ s[i] \in SuccessReceipts
    BY <1>1, <1>2
  <2>2. Preserved(s[i].raw, s[i].norm)
    BY <2>1 DEF CauseInv, YearInv, RefInv
  <2>3. s[i].raw # None /\ s[i].norm # None
    <3>1. \A m \in SuccessReceipts : m.raw # None /\ m.norm # None
      BY StoreAssumption DEF SuccessReceipts
    <3>2. QED
      BY <2>1, <3>1
  <2>4. QED
    BY <2>2, <2>3 DEF Preserved, Resolves
<1>6. ASSUME NEW i \in 1 .. n, NEW j \in 1 .. (i - 1), s[j].norm = s[i].norm,
             source = "fars-joined"
      PROVE  i > 1 /\ SameGeneration(s[i], s[i - 1])
  <2>1. i > 1 /\ i - 1 \in 1 .. n /\ j \in 1 .. n /\ j < i
    BY <1>2
  <2>2. s[i] \in S /\ s[j] \in S /\ s[i] # s[j]
    BY <1>2, <2>1
  <2>3. s[i].prev = s[i].norm
    BY <1>6, <2>2 DEF Reuse
  <2>4. s[i - 1].norm = s[i].norm /\ s[i - 1] \in S
    BY <1>2, <1>4, <2>1, <2>3
  <2>5. \A x \in S : x.norm = Normalize[x.raw] /\ x.raw \in Raws
    BY <1>1 DEF CauseInv, YearInv, SuccessReceipts
  <2>6. s[i - 1].raw = s[i].raw
    BY <2>2, <2>4, <2>5 DEF Reversible
  <2>7. QED
    BY <2>1, <2>4, <2>6 DEF SameGeneration
<1>7. source = "fars" \/ source = "fars-joined"
  BY LineageAssumption DEF CauseInv, CapacityInv
<1>8. ASSUME NEW i \in 1 .. n
      PROVE  /\ s[i].prev = IF i = 1 THEN None ELSE s[i - 1].norm
             /\ Resolves(s[i])
             /\ source # "fars" =>
                   \/ i > 1 /\ SameGeneration(s[i], s[i - 1])
                   \/ \A j \in 1 .. i - 1 : s[j].norm # s[i].norm
             /\ i > 1 => ~Regression(s[i].norm, s[i - 1].norm)
  BY <1>4, <1>5, <1>6, <1>7
<1>9. QED
  BY <1>2, <1>8 DEF Chain

\* What a refusal of a store without a failure may be for.
Excuse ==
    /\ source # "fars-year"
    /\ \/ Tie
       \/ source = "fars-joined" /\ Reuse
       \/ Cardinality(Records(Listing)) > MaxReceipts[source]
       \/ Cardinality(Successes(Listing)) > MaxSuccesses[source]

\* Without a disturbance there is nothing in the way of reading the history.
LEMMA NothingInTheWay ==
    ASSUME CauseInv, Verifying, ~disturbed, faults = 0
    PROVE  /\ StillThere /\ Tidy /\ Clean /\ ~TemporaryEntry /\ ~Installing
           /\ Top(current) /\ AllPlaced
           /\ current \in SuccessReceipts \cup {None} /\ NumberInv /\ Named
<1>1. StillThere /\ Tidy /\ Topped /\ AllPlaced /\ NumberInv /\ Named
  BY DEF CauseInv, SeenInv
<1>2. \A r \in Runners : ~Owns(r) /\ pc[r] \notin Late
  BY <1>1, Owners DEF StillThere
<1>3. current \in SuccessReceipts \cup {None}
  BY <1>1, Facts DEF StoreTypeOK
<1>4. ~TemporaryEntry /\ ~Installing
  BY <1>2 DEF TemporaryEntry, Installing, Owns, Owning, Preflight, Protected, Recovery
<1>5. QED
  BY <1>1, <1>2, <1>3, <1>4 DEF Topped, Tidy, Clean

\* No two successes share a time, unless that is a cause to refuse them.
LEMMA TimesDiffer ==
    ASSUME CauseInv, Verifying, ~disturbed, faults = 0, current # None, ~Excuse
    PROVE  \A x, y \in Successes(Listing) : x.done = y.done => x = y
<1>1. CASE source # "fars-year"
  BY <1>1 DEF Excuse, Tie
<1>2. CASE source = "fars-year"
  <2>1. ReplaysTo(current)
    BY <1>2 DEF CauseInv, YearInv, Tips
  <2>2. \A x \in Successes(Listing) : x \in Upto(current)
    BY NothingInTheWay DEF Top, Upto
  <2>3. QED
    BY <2>1, <2>2 DEF ReplaysTo
<1>3. QED
  BY <1>1, <1>2

\* Then the history replays, and what is active is the end of it.
LEMMA HistoryReplays ==
    ASSUME Reversible, CauseInv, Verifying, ~disturbed, faults = 0, current # None,
           ~Excuse, NEW s \in Orderings(Successes(Listing))
    PROVE  /\ ActiveIsLatest(current, Listing)
           /\ Cardinality(Successes(Listing)) <= MaxSuccesses[source]
           /\ Chain(s) /\ s[Len(s)] = current
<1> DEFINE S == Successes(Listing)
           n == Cardinality(S)
<1>1. /\ NumberInv /\ Named /\ Top(current) /\ current \in SuccessReceipts
      /\ Tidy /\ AllPlaced /\ IsFiniteSet(S) /\ S \in SUBSET SuccessReceipts
      /\ source \in Sources
  <2>1. NumberInv /\ Named
    BY NothingInTheWay
  <2>2. QED
    BY <2>1, NothingInTheWay, SuccessIs, HistoriesAreFinite DEF CauseInv, CapacityInv
<1>2. /\ \A x, y \in S : x.done = y.done => x = y
      /\ \A x \in S : x.done \in Nat /\ Listing[x.id] = x /\ x.done <= current.done
      /\ current \in S /\ Listing[current.id] = current
  BY <1>1, TimesDiffer, SuccessIs DEF Top
<1>3. ActiveIsLatest(current, Listing)
  <2>1. ASSUME NEW x \in S, x.id # current.id PROVE x.done < current.done
    <3>1. x.done # current.done /\ x.done <= current.done
      BY <1>2, <2>1
    <3>2. x.done \in Nat /\ current.done \in Nat
      BY <1>2
    <3>3. QED
      BY <3>1, <3>2
  <2>2. QED
    BY <1>2, <2>1 DEF ActiveIsLatest
<1>4. n <= MaxSuccesses[source]
  <2>1. CASE source = "fars-year"
    BY <1>1, <2>1 DEF CauseInv, CapacityInv, CapacityHolds, NoFailureFiles, Tidy
  <2>2. CASE source # "fars-year"
    <3>1. n \in Nat /\ MaxSuccesses[source] \in Nat
      BY <1>1, FS_CardinalityType, LineageAssumption
    <3>2. QED
      BY <2>2, <3>1 DEF Excuse
  <2>3. QED
    BY <2>1, <2>2
<1>5. Chain(s)
  <2>1. CASE source # "fars-year"
    <3>1. source = "fars-joined" => ~Reuse
      BY <2>1 DEF Excuse
    <3>2. QED
      BY <1>1, <1>2, <2>1, <3>1, PlacedChain
  <2>2. CASE source = "fars-year"
    <3>1. ReplaysTo(current) /\ Upto(current) = S
      BY <1>2, <2>2 DEF CauseInv, YearInv, Tips, Upto
    <3>2. PICK t \in Orderings(S) : Chain(t)
      BY <3>1 DEF ReplaysTo
    <3>3. s = t
      BY <1>1, <1>2, OneOrdering
    <3>4. QED
      BY <3>2, <3>3
  <2>3. QED
    BY <2>1, <2>2
<1>6. s[Len(s)] = current
  <2>1. /\ n \in Nat /\ Len(s) = n
        /\ \A i, j \in 1 .. n : i < j => s[i] # s[j] /\ s[i].done <= s[j].done
        /\ \A x \in S : \E i \in 1 .. n : s[i] = x
        /\ s \in [1 .. n -> S]
    BY <1>1, OrderingIs
  <2> HIDE DEF n
  <2>2. PICK k \in 1 .. n : s[k] = current
    BY <1>2, <2>1
  <2>3. ASSUME k < n PROVE FALSE
    <3>1. n \in 1 .. n
      BY <2>1, <2>2
    <3>2. s[n] \in S /\ s[n] # current /\ current.done <= s[n].done
      BY <2>1, <2>2, <2>3, <3>1
    <3>3. s[n].done <= current.done /\ s[n].done \in Nat /\ current.done \in Nat
      BY <1>2, <3>2
    <3>4. QED
      BY <1>2, <3>2, <3>3
  <2>4. k = n
    BY <2>1, <2>2, <2>3
  <2>5. QED
    BY <2>1, <2>2, <2>4
<1>7. QED
  BY <1>3, <1>4, <1>5, <1>6

LEMMA Excused ==
    ASSUME Reversible, CauseInv, VerifierStep, Verifying, vpc' = "rejected",
           ~disturbed, faults = 0, current # None
    PROVE  Excuse
<1> SUFFICES ASSUME ~Excuse PROVE FALSE
  OBVIOUS
<1>1. /\ StillThere /\ Clean /\ ~TemporaryEntry /\ ~Installing /\ Tidy
      /\ source \in Sources
  BY NothingInTheWay DEF CauseInv, CapacityInv
<1>2. CASE CheckUnlocked
  BY <1>2 DEF CheckUnlocked, Verifying, VerifyingStages
<1>3. CASE ReadMarker
  BY <1>3 DEF ReadMarker
<1>4. CASE ScanReceipts
  <2>1. CASE source = "fars-year"
    BY <1>1, <1>4, <2>1
       DEF ScanReceipts, CauseInv, CapacityInv, CapacityHolds, NoFailureFiles, Tidy
  <2>2. CASE source # "fars-year"
    <3>1. Cardinality(Records(Listing)) \in Nat /\ MaxReceipts[source] \in Nat
      BY <1>1, HistoriesAreFinite, FS_CardinalityType, LineageAssumption
    <3>2. Cardinality(Records(Listing)) <= MaxReceipts[source]
      BY <2>2, <3>1 DEF Excuse
    <3>3. QED
      BY <1>1, <1>4, <3>2 DEF ScanReceipts
  <2>3. QED
    BY <2>1, <2>2
<1>5. CASE VerifyChain
  <2>1. view.marker = current /\ view.history = Listing
    BY <1>1, <1>5 DEF StillThere, VerifyChain
  <2>2. PICK s \in Orderings(Successes(Listing)) :
           ~(/\ ActiveIsLatest(current, Listing)
             /\ Cardinality(Successes(Listing)) <= MaxSuccesses[source]
             /\ Chain(s)
             /\ s[Len(s)] = current)
    BY <1>5, <2>1 DEF VerifyChain
  <2>3. QED
    BY <2>2, HistoryReplays
<1>6. CASE RereadMarker
  BY <1>1, <1>6 DEF RereadMarker, StillThere
<1>7. CASE CheckStillUnlocked
  BY <1>1, <1>7 DEF CheckStillUnlocked, StillThere
<1>8. QED
  BY <1>2, <1>3, <1>4, <1>5, <1>6, <1>7 DEF VerifierStep

(* A store that runs have written without a failure, and that no run holds *)
(* during the verification, is refused only if nothing is active, if two   *)
(* successes share a time, if a joined generation came back, or if the     *)
(* history outgrew the verifier; a year that is active never is.           *)
THEOREM RejectionsHaveCauses ==
    ASSUME Reversible PROVE LineageSpec => RejectionHasCause
<1>1. ASSUME CauseInv, [LineageNext]_lineageVars
      PROVE  [(Verifying /\ vpc' = "rejected" /\ ~disturbed /\ faults = 0) =>
                 \/ current = None
                 \/ Excuse]_lineageVars
  <2> SUFFICES ASSUME LineageNext, Verifying, vpc' = "rejected", ~disturbed, faults = 0,
                      current # None
               PROVE  Excuse
    BY <1>1
  <2>1. VerifierStep
    BY VerifierFrame DEF Verifying, VerifyingStages
  <2>2. QED
    BY <1>1, <2>1, Excused
<1>2. LineageSpec => []CauseInv
  BY CauseInit, CauseStep, PTL DEF LineageSpec
<1>3. QED
  BY <1>1, <1>2, PTL DEF LineageSpec, RejectionHasCause, Excuse
=============================================================================
