----------------------- MODULE IngestionHistoryProofs -----------------------
(* Proofs about Ingestion without a power loss: the receipt history, and   *)
(* that run_ingestion implements ActiveDataset.                            *)
EXTENDS IngestionProofs

-----------------------------------------------------------------------------
(* How a step changes the local variables of the call that takes it.       *)

\* The same attempt, prior marker, candidate and references.
Same(r, j) ==
    /\ j.id = job[r].id /\ j.run = job[r].run
    /\ j.prev = job[r].prev /\ j.cand = job[r].cand
    /\ j.rawRef = job[r].rawRef /\ j.normRef = job[r].normRef

\* What may become of the prior marker, the candidate and the references.
Follows(r, s, j) ==
    /\ j.id = job[r].id /\ j.run = job[r].run
    /\ \/ j.prev = job[r].prev
       \/ pc[r] = "archive" /\ j.prev = None
       \/ pc[r] = "load" /\ j.prev = current
    /\ \/ j.cand = job[r].cand
       \/ pc[r] = "history" /\ s = "precommit" /\ j.cand = Success(job[r], clock')
    /\ \/ j.rawRef \in {None, job[r].rawRef}
       \/ /\ pc[r] = "raw" /\ j.rawRef = job[r].raw
          /\ Install(RawFile(job[r].raw), job[r].raw)
    /\ \/ j.normRef \in {None, job[r].normRef}
       \/ /\ pc[r] = "normalize" /\ j.normRef = Normalize[job[r].raw]
          /\ Install(NormFile(Normalize[job[r].raw]), Normalize[job[r].raw])
    /\ s # "release" => pc[r] \notin {"limit", "failure", "release"}
    /\ s = "precommit" => pc[r] = "history"
    /\ s = "commit" => pc[r] = "precommit" /\ j.cand = job[r].cand

Onward(r) ==
    /\ \A t \in Runners \ {r} : pc'[t] = pc[t] /\ job'[t] = job[t]
    /\ \/ pc'[r] = "idle" /\ job'[r] = NoJob /\ runs' = runs
       \/ /\ pc[r] = "idle" /\ pc'[r] = "lock" /\ runs' = runs + 1
          /\ \E i \in (IF ReuseIds THEN 1 .. runs' ELSE {runs'}) :
                job'[r] = [NoJob EXCEPT !.id = i, !.run = runs']
       \/ /\ pc[r] # "idle" /\ pc'[r] # "idle" /\ runs' = runs
          /\ Follows(r, pc'[r], job'[r])

LEMMA GotoOnward ==
    ASSUME ControlOK, NEW r \in Runners, NEW s, NEW j, Goto(r, s, j),
           s # "idle", pc[r] # "idle", runs' = runs, Follows(r, s, j)
    PROVE  Onward(r)
BY GotoIs DEF Onward

LEMMA SameOnward ==
    ASSUME ControlOK, NEW r \in Runners, NEW s, NEW j, Goto(r, s, j),
           s # "idle", pc[r] # "idle", runs' = runs, Same(r, j),
           s # "release" => pc[r] \notin {"limit", "failure", "release"},
           s # "precommit", s = "commit" => pc[r] = "precommit"
    PROVE  Onward(r)
<1>1. Follows(r, s, j)
  BY DEF Same, Follows
<1>2. QED
  BY <1>1, GotoOnward

LEMMA DiesOnward ==
    ASSUME ControlOK, NEW r \in Runners, Dies(r), runs' = runs
    PROVE  Onward(r)
BY GotoIs DEF Dies, Onward

LEMMA ExitOnward ==
    ASSUME ControlOK, NEW r \in Runners, pc[r] # "idle", runs' = runs,
           \/ \E e, o : Leave(r, o) \/ LeaveRaising(r, e, o)
           \/ pc[r] \in Protected /\ \E e : Raise(r, e)
    PROVE  Onward(r)
<1>1. job[r] \in Jobs
  BY JobIs
<1>2. ASSUME NEW o, Leave(r, o) PROVE Onward(r)
  <2> DEFINE j == [job[r] EXCEPT !.result = o]
  <2>1. Same(r, j)
    BY <1>1 DEF Jobs, Same
  <2> HIDE DEF j
  <2>2. QED
    BY <1>2, <2>1, SameOnward DEF Leave, j
<1>3. ASSUME NEW e, Raise(r, e), pc[r] \in Protected PROVE Onward(r)
  <2> DEFINE j == [job[r] EXCEPT !.stage = pc[r], !.exc = e]
  <2>1. Same(r, j)
    BY <1>1 DEF Jobs, Same
  <2>2. Dies(r) \/ Goto(r, "handle", j)
    BY <1>3 DEF Raise
  <2> HIDE DEF j
  <2>3. pc[r] \notin {"limit", "failure", "release"}
    BY <1>3 DEF Protected
  <2>4. QED
    BY <2>1, <2>2, <2>3, SameOnward, DiesOnward
<1>4. QED
  BY <1>2, <1>3, DiesOnward DEF LeaveRaising

LEMMA EntryOnward ==
    ASSUME TypeInv, NEW r \in Runners,
           \/ Start(r) \/ Kill(r) \/ InterruptedUnguarded(r)
           \/ AcquireLock(r) \/ AcquireFails(r) \/ ReleaseLock(r)
    PROVE  Onward(r)
<1>1. job[r] \in Jobs /\ ControlOK
  BY JobIs, TypeInvIs
<1>2. CASE Start(r)
  BY <1>1, <1>2, GotoIs DEF Start, Onward
<1>3. CASE AcquireLock(r)
  <2>1. Same(r, job[r])
    BY DEF Same
  <2>2. QED
    BY <1>1, <1>3, <2>1, SameOnward, DiesOnward DEF AcquireLock
<1>4. CASE Kill(r) \/ InterruptedUnguarded(r) \/ AcquireFails(r) \/ ReleaseLock(r)
  BY <1>1, <1>4, DiesOnward DEF Kill, InterruptedUnguarded, AcquireFails, ReleaseLock
<1>5. QED
  BY <1>2, <1>3, <1>4

LEMMA PreflightOnward ==
    ASSUME TypeInv, NEW r \in Runners,
           \/ LoadActive(r) \/ ArchiveActive(r) \/ CheckOwnReceipt(r)
           \/ RecordLimit(r) \/ PreflightInterrupted(r)
    PROVE  Onward(r)
<1>1. job[r] \in Jobs /\ ControlOK /\ Same(r, job[r])
  BY JobIs, TypeInvIs DEF Same
<1>2. CASE LoadActive(r)
  <2> DEFINE j == [job[r] EXCEPT !.prev = current]
  <2>1. /\ j.id = job[r].id /\ j.run = job[r].run /\ j.prev = current
        /\ j.cand = job[r].cand
        /\ j.rawRef = job[r].rawRef /\ j.normRef = job[r].normRef
    BY <1>1 DEF Jobs
  <2>2. /\ pc[r] = "load" /\ runs' = runs
        /\ \/ Goto(r, "own", job[r]) \/ Goto(r, "limit", job[r])
           \/ Goto(r, "archive", j) \/ Leave(r, "raised")
    BY <1>2 DEF LoadActive
  <2> HIDE DEF j
  <2>3. Follows(r, "archive", j)
    BY <2>1, <2>2 DEF Follows
  <2>4. QED
    BY <1>1, <2>2, <2>3, SameOnward, GotoOnward, ExitOnward
<1>3. CASE ArchiveActive(r)
  <2> DEFINE j == [job[r] EXCEPT !.prev = None]
  <2>1. /\ j.id = job[r].id /\ j.run = job[r].run /\ j.prev = None
        /\ j.cand = job[r].cand
        /\ j.rawRef = job[r].rawRef /\ j.normRef = job[r].normRef
    BY <1>1 DEF Jobs
  <2>2. /\ pc[r] = "archive" /\ runs' = runs
        /\ \/ Goto(r, "own", job[r]) \/ Goto(r, "limit", j)
           \/ \E e : LeaveRaising(r, e, "raised")
    BY <1>3 DEF ArchiveActive
  <2> HIDE DEF j
  <2>3. Follows(r, "limit", j)
    BY <2>1, <2>2 DEF Follows
  <2>4. QED
    BY <1>1, <2>2, <2>3, SameOnward, GotoOnward, ExitOnward
<1>4. CASE CheckOwnReceipt(r)
  BY <1>1, <1>4, SameOnward, ExitOnward DEF CheckOwnReceipt
<1>5. CASE RecordLimit(r) \/ PreflightInterrupted(r)
  BY <1>1, <1>5, ExitOnward DEF RecordLimit, PreflightInterrupted, Preflight
<1>6. QED
  BY <1>2, <1>3, <1>4, <1>5

LEMMA StageOnward ==
    ASSUME TypeInv, NEW r \in Runners,
           \/ Fetch(r) \/ PreserveRaw(r) \/ PreserveNormalized(r)
           \/ BuildMarker(r) \/ Precommit(r) \/ Commit(r)
           \/ ValidateActivated(r) \/ FinalizationAllowed(r) \/ WriteReceipt(r)
           \/ CallbackRaises(r) \/ StageInterrupted(r)
    PROVE  Onward(r)
<1>1. job[r] \in Jobs /\ ControlOK /\ Same(r, job[r]) /\ runs' = runs
      /\ pc[r] # "idle" /\ pc[r] \in Protected
  BY JobIs, TypeInvIs DEF Same, Fetch, PreserveRaw, PreserveNormalized,
     BuildMarker, Precommit, Commit, ValidateActivated, FinalizationAllowed,
     WriteReceipt, CallbackRaises, StageInterrupted, Protected
<1>2. ASSUME NEW e, Raise(r, e) PROVE Onward(r)
  BY <1>1, <1>2, ExitOnward
<1>3. CASE Fetch(r)
  <2>1. PICK x \in Raws : Goto(r, "raw", [job[r] EXCEPT !.raw = x])
    BY <1>3 DEF Fetch
  <2>2. Same(r, [job[r] EXCEPT !.raw = x])
    BY <1>1 DEF Jobs, Same
  <2>3. QED
    BY <1>1, <1>3, <2>1, <2>2, SameOnward DEF Fetch
<1>4. CASE PreserveRaw(r)
  <2> DEFINE x == job[r].raw
             j == [job[r] EXCEPT !.rawRef = x]
  <2>1. /\ j.id = job[r].id /\ j.run = job[r].run /\ j.prev = job[r].prev
        /\ j.cand = job[r].cand /\ j.rawRef = x /\ j.normRef = job[r].normRef
    BY <1>1 DEF Jobs
  <2>2. pc[r] = "raw"
        /\ \/ Install(RawFile(x), x) /\ Goto(r, "normalize", j)
           \/ \E e : Raise(r, e)
    BY <1>4 DEF PreserveRaw
  <2> HIDE DEF j
  <2>3. Install(RawFile(x), x) => Follows(r, "normalize", j)
    BY <2>1, <2>2 DEF Follows
  <2>4. QED
    BY <1>1, <1>2, <2>2, <2>3, GotoOnward
<1>5. CASE PreserveNormalized(r)
  <2> DEFINE y == Normalize[job[r].raw]
             j == [job[r] EXCEPT !.normRef = y]
  <2>1. /\ j.id = job[r].id /\ j.run = job[r].run /\ j.prev = job[r].prev
        /\ j.cand = job[r].cand /\ j.rawRef = job[r].rawRef /\ j.normRef = y
    BY <1>1 DEF Jobs
  <2>2. pc[r] = "normalize"
        /\ \/ Install(NormFile(y), y) /\ Goto(r, "history", j)
           \/ \E e : Raise(r, e)
    BY <1>5 DEF PreserveNormalized
  <2> HIDE DEF j
  <2>3. Install(NormFile(y), y) => Follows(r, "history", j)
    BY <2>1, <2>2 DEF Follows
  <2>4. QED
    BY <1>1, <1>2, <2>2, <2>3, GotoOnward
<1>6. CASE BuildMarker(r)
  <2> DEFINE j == [job[r] EXCEPT !.cand = Success(job[r], clock')]
  <2>1. /\ j.id = job[r].id /\ j.run = job[r].run /\ j.prev = job[r].prev
        /\ j.cand = Success(job[r], clock')
        /\ j.rawRef = job[r].rawRef /\ j.normRef = job[r].normRef
    BY <1>1 DEF Jobs
  <2>2. pc[r] = "history" /\ Goto(r, "precommit", j)
    BY <1>6 DEF BuildMarker
  <2> HIDE DEF j
  <2>3. Follows(r, "precommit", j)
    BY <2>1, <2>2 DEF Follows
  <2>4. QED
    BY <1>1, <2>2, <2>3, GotoOnward
<1>7. CASE Precommit(r)
  <2> DEFINE j == [job[r] EXCEPT !.stage = "precommit", !.exc = "changed"]
  <2>1. Same(r, j)
    BY <1>1 DEF Jobs, Same
  <2>2. pc[r] = "precommit"
        /\ \/ Goto(r, "commit", job[r]) \/ Goto(r, "handle", j)
           \/ \E e : Raise(r, e)
    BY <1>7 DEF Precommit
  <2> HIDE DEF j
  <2>3. QED
    BY <1>1, <1>2, <2>1, <2>2, SameOnward
<1>8. CASE Commit(r) \/ ValidateActivated(r) \/ FinalizationAllowed(r)
  BY <1>1, <1>2, <1>8, SameOnward DEF Commit, ValidateActivated, FinalizationAllowed
<1>9. CASE WriteReceipt(r) \/ CallbackRaises(r) \/ StageInterrupted(r)
  BY <1>1, <1>2, <1>9, ExitOnward DEF WriteReceipt, CallbackRaises, StageInterrupted
<1>10. QED
  BY <1>3, <1>4, <1>5, <1>6, <1>7, <1>8, <1>9

LEMMA HandlerOnward ==
    ASSUME TypeInv, NEW r \in Runners,
           \/ HandleChanged(r) \/ HandleAmbiguous(r) \/ HandleKnown(r)
           \/ Rollback(r) \/ RollbackRaises(r) \/ RecordFailure(r)
           \/ HandlerEscapes(r)
    PROVE  Onward(r)
<1>1. job[r] \in Jobs /\ ControlOK /\ Same(r, job[r]) /\ runs' = runs
      /\ pc[r] \in Recovery /\ pc[r] # "idle"
  BY JobIs, TypeInvIs DEF Same, HandleChanged, HandleAmbiguous, HandleKnown,
     Rollback, RollbackRaises, RecordFailure, HandlerEscapes, Recovery
<1> DEFINE unreferenced == [job[r] EXCEPT !.rawRef = None, !.normRef = None]
<1>2. ASSUME NEW s \in {"failure", "rollback", "release"}, NEW j,
             j \in Jobs, Follows(r, "release", j),
             Goto(r, s, j), pc[r] # "failure"
      PROVE  Onward(r)
  <2>1. Follows(r, s, j)
    BY <1>1, <1>2 DEF Follows, Recovery
  <2>2. QED
    BY <1>1, <1>2, <2>1, GotoOnward
<1>3. /\ unreferenced \in Jobs /\ Follows(r, "release", unreferenced)
      /\ Follows(r, "release", job[r])
  <2>1. /\ unreferenced.id = job[r].id /\ unreferenced.run = job[r].run
        /\ unreferenced.prev = job[r].prev /\ unreferenced.cand = job[r].cand
        /\ unreferenced.rawRef = None /\ unreferenced.normRef = None
    BY <1>1 DEF Jobs
  <2>2. unreferenced \in Jobs
    BY <1>1 DEF Jobs
  <2> HIDE DEF unreferenced
  <2>3. QED
    BY <2>1, <2>2 DEF Follows
<1>4. ASSUME NEW j \in Jobs, Follows(r, "release", j), NEW o \in Results
      PROVE  /\ [j EXCEPT !.result = o] \in Jobs
             /\ Follows(r, "release", [j EXCEPT !.result = o])
             /\ [j EXCEPT !.retain = TRUE, !.result = o] \in Jobs
             /\ Follows(r, "release", [j EXCEPT !.retain = TRUE, !.result = o])
  <2> DEFINE k == [j EXCEPT !.result = o]
             l == [j EXCEPT !.retain = TRUE, !.result = o]
  <2>1. k \in Jobs /\ l \in Jobs
    BY DEF Jobs
  <2>2. ASSUME NEW i \in {k, l}
        PROVE  /\ i.id = j.id /\ i.run = j.run /\ i.prev = j.prev
               /\ i.cand = j.cand /\ i.rawRef = j.rawRef /\ i.normRef = j.normRef
    BY DEF Jobs
  <2> HIDE DEF k, l
  <2>3. Follows(r, "release", k) /\ Follows(r, "release", l)
    BY <1>4, <2>2 DEF Follows
  <2>4. QED
    BY <2>1, <2>3 DEF k, l
<1>5. CASE HandleChanged(r)
  BY <1>2, <1>3, <1>5 DEF HandleChanged
<1>6. CASE HandleAmbiguous(r)
  <2>1. PICK o \in Results :
             Goto(r, "release", [job[r] EXCEPT !.retain = TRUE, !.result = o])
    BY <1>6 DEF HandleAmbiguous, Results
  <2>2. pc[r] = "handle"
    BY <1>6 DEF HandleAmbiguous
  <2>3. QED
    BY <1>1, <1>2, <1>3, <1>4, <2>1, <2>2
<1>7. CASE HandleKnown(r)
  <2> DEFINE state == MarkerState(job[r], current)
             after(j) ==
                IF j.exc = "interrupt"
                THEN Goto(r, "release", [j EXCEPT !.result = "interrupted"])
                ELSE Goto(r, IF state = "candidate" THEN "rollback"
                             ELSE "failure", j)
  <2>1. pc[r] = "handle"
    BY <1>7 DEF HandleKnown
  <2>2. ASSUME NEW j \in Jobs, Follows(r, "release", j), after(j)
        PROVE  Onward(r)
    BY <1>2, <1>4, <2>1, <2>2 DEF Results
  <2>3. after(job[r]) \/ after(unreferenced)
    BY <1>7 DEF HandleKnown
  <2> HIDE DEF after, unreferenced
  <2>4. QED
    BY <1>1, <1>3, <2>2, <2>3
<1>8. CASE Rollback(r)
  BY <1>1, <1>8, SameOnward DEF Rollback
<1>9. CASE RollbackRaises(r)
  <2>1. ASSUME NEW b \in BOOLEAN, NEW n \in BOOLEAN,
               LET j == [job[r] EXCEPT !.rbFailed = b, !.retain = n]
               IN \/ Goto(r, "release", [j EXCEPT !.result = "undetermined"])
                  \/ Goto(r, "release", [j EXCEPT !.result = "interrupted"])
                  \/ Goto(r, "failure", j)
        PROVE  Onward(r)
    <3> DEFINE j == [job[r] EXCEPT !.rbFailed = b, !.retain = n]
    <3>1. j \in Jobs
      BY <1>1, FlagsSet
    <3>2. /\ j.id = job[r].id /\ j.run = job[r].run
          /\ j.prev = job[r].prev /\ j.cand = job[r].cand
          /\ j.rawRef = job[r].rawRef /\ j.normRef = job[r].normRef
      BY <1>1 DEF Jobs
    <3>3. \/ Goto(r, "release", [j EXCEPT !.result = "undetermined"])
          \/ Goto(r, "release", [j EXCEPT !.result = "interrupted"])
          \/ Goto(r, "failure", j)
      BY <2>1
    <3> HIDE DEF j
    <3>4. Follows(r, "release", j)
      BY <3>2 DEF Follows
    <3>5. pc[r] = "rollback"
      BY <1>9 DEF RollbackRaises
    <3>6. QED
      BY <1>2, <1>4, <3>1, <3>3, <3>4, <3>5 DEF Results
  <2>2. QED
    BY <1>1, <1>9, <2>1, DiesOnward DEF RollbackRaises
<1>10. CASE RecordFailure(r) \/ HandlerEscapes(r)
  BY <1>1, <1>10, ExitOnward DEF RecordFailure, HandlerEscapes
<1>11. QED
  BY <1>5, <1>6, <1>7, <1>8, <1>9, <1>10

LEMMA StepOnward ==
    ASSUME TypeInv, NEW r \in Runners, Start(r) \/ Step(r) \/ Kill(r)
    PROVE  Onward(r)
BY EntryOnward, PreflightOnward, StageOnward, HandlerOnward DEF Step

-----------------------------------------------------------------------------
(* The success receipts in use: in the history, in current.json, and the   *)
(* ones a call holds.                                                      *)

Marks ==
    SuccessesOnDisk
    \cup (({current} \cup {job[r].prev : r \in Runners}
           \cup {job[r].cand : r \in Runners}) \ {None})

LEMMA MarksAre ==
    ASSUME TypeInv
    PROVE  /\ Marks \subseteq SuccessReceipts
           /\ \A m \in SuccessReceipts : m # None /\ m \notin FailureReceipts
           /\ SuccessesOnDisk \subseteq Marks
           /\ current # None => current \in Marks
           /\ \A r \in Runners : job[r].prev # None => job[r].prev \in Marks
           /\ \A r \in Runners : job[r].cand # None => job[r].cand \in Marks
<1>1. current \in SuccessReceipts \cup {None}
      /\ \A r \in Runners : /\ job[r].prev \in SuccessReceipts \cup {None}
                            /\ job[r].cand \in SuccessReceipts \cup {None}
  BY TypeInvIs, JobIs DEF StoreTypeOK, Jobs
<1>2. \A m \in SuccessReceipts : m # None
  BY RunAssumption DEF Receipts
<1>3. \A m \in SuccessReceipts : m \notin FailureReceipts
  BY DEF SuccessReceipts, FailureReceipts
<1>4. QED
  BY <1>1, <1>2, <1>3 DEF Marks, SuccessesOnDisk

LEMMA NoJobIs ==
    /\ NoJob.prev = None /\ NoJob.cand = None
    /\ NoJob.rawRef = None /\ NoJob.normRef = None
    /\ \A i, n : LET j == [NoJob EXCEPT !.id = i, !.run = n]
                 IN /\ j.id = i /\ j.run = n
                    /\ j.prev = None /\ j.cand = None
                    /\ j.rawRef = None /\ j.normRef = None
BY DEF NoJob

LEMMA OnwardIs ==
    ASSUME NEW r \in Runners, Onward(r)
    PROVE  /\ \/ job'[r].prev \in {None, job[r].prev}
              \/ pc[r] = "load" /\ job'[r].prev = current
           /\ \/ job'[r].cand \in {None, job[r].cand}
              \/ /\ pc[r] = "history" /\ pc'[r] = "precommit"
                 /\ job'[r].cand = Success(job[r], clock')
           /\ \/ job'[r].rawRef = None /\ job'[r].normRef = None
              \/ Follows(r, pc'[r], job'[r])
           /\ \/ pc'[r] = "idle" /\ runs' = runs
              \/ pc[r] = "idle" /\ pc'[r] = "lock" /\ runs' = runs + 1
                 /\ job'[r].run = runs' /\ job'[r].prev = None
                 /\ job'[r].cand = None
              \/ /\ pc[r] # "idle" /\ pc'[r] # "idle" /\ runs' = runs
                 /\ Follows(r, pc'[r], job'[r])
<1>1. CASE pc'[r] = "idle" /\ job'[r] = NoJob /\ runs' = runs
  BY <1>1, NoJobIs
<1>2. ASSUME NEW i, pc[r] = "idle", pc'[r] = "lock", runs' = runs + 1,
             job'[r] = [NoJob EXCEPT !.id = i, !.run = runs']
      PROVE  /\ job'[r].prev = None /\ job'[r].cand = None
             /\ job'[r].rawRef = None /\ job'[r].normRef = None
             /\ job'[r].run = runs'
  BY <1>2, NoJobIs
<1>3. CASE pc[r] # "idle" /\ pc'[r] # "idle" /\ runs' = runs
           /\ Follows(r, pc'[r], job'[r])
  BY <1>3 DEF Follows
<1>4. QED
  BY <1>1, <1>2, <1>3 DEF Onward

(* An entry that is there keeps its content; a new one is what is written. *)
LEMMA PutsIs ==
    ASSUME StoreTypeOK, NEW f \in Files, NEW c, Puts(f, c)
    PROVE  /\ \A g \in Files \ {f} : disk'[g] = disk[g]
           /\ disk'[f] = disk[f] \/ (disk[f] = None /\ disk'[f] = c)
<1>1. CASE Install(f, c)
  BY <1>1 DEF Install, Installable, Holds, StoreTypeOK
<1>2. ASSUME NEW e, InstallRaises(f, c, e)
      PROVE  /\ \A g \in Files \ {f} : disk'[g] = disk[g]
             /\ disk'[f] = disk[f] \/ (disk[f] = None /\ disk'[f] = c)
  BY <1>2 DEF InstallRaises, Collides, FailsUnlinked, FailsLinked, StoreTypeOK
<1>3. QED
  BY <1>1, <1>2 DEF Puts

ReceiptFiles ==
    {ReceiptFile(i) : i \in AttemptIds} \cup {FailureFile(i) : i \in AttemptIds}

LEMMA ReceiptFilesAre ==
    /\ ReceiptsOnDisk = {disk[f] : f \in ReceiptFiles}
    /\ ReceiptsOnDisk' = {disk'[f] : f \in ReceiptFiles}
    /\ ReceiptFiles \subseteq Files
    /\ \A x : RawFile(x) \notin ReceiptFiles /\ NormFile(x) \notin ReceiptFiles
BY DEF ReceiptsOnDisk, ReceiptFiles, Files, ReceiptFile, FailureFile, RawFile,
   NormFile

(* What the stage of a call adds to the receipts.                          *)
Adds(r, x) ==
    \/ pc[r] = "archive" /\ x = job[r].prev
    \/ pc[r] = "receipt" /\ x = job[r].cand
    \/ pc[r] \in {"limit", "failure"} /\ x = Failure(job[r])

LEMMA ReceiptsStep ==
    ASSUME TypeInv, NEW r \in Runners, Start(r) \/ Step(r) \/ Kill(r)
    PROVE  /\ \A x \in ReceiptsOnDisk' : x \in ReceiptsOnDisk \/ Adds(r, x)
           /\ \A x \in ReceiptsOnDisk : x # None => x \in ReceiptsOnDisk'
<1>1. CASE UNCHANGED <<disk, doubled>>
  BY <1>1, ReceiptFilesAre
<1>2. ASSUME NEW f, NEW c, Writing(r, f, c), Puts(f, c)
      PROVE  /\ \A x \in ReceiptsOnDisk' : x \in ReceiptsOnDisk \/ Adds(r, x)
             /\ \A x \in ReceiptsOnDisk : x # None => x \in ReceiptsOnDisk'
  <2>1. /\ f \in Files
        /\ \A g \in Files \ {f} : disk'[g] = disk[g]
        /\ disk'[f] = disk[f] \/ (disk[f] = None /\ disk'[f] = c)
    BY <1>2, TypeInvIs, WritingTyped, PutsIs
  <2>2. f \in ReceiptFiles => Adds(r, c)
    BY <1>2, ReceiptFilesAre DEF Writing, Adds
  <2>3. QED
    BY <2>1, <2>2, ReceiptFilesAre
<1>3. QED
  BY <1>1, <1>2, StepPuts

LEMMA SuccessesStep ==
    ASSUME TypeInv, NEW r \in Runners, Start(r) \/ Step(r) \/ Kill(r)
    PROVE  /\ SuccessesOnDisk \subseteq SuccessesOnDisk'
           /\ \A m \in SuccessesOnDisk' :
                 \/ m \in SuccessesOnDisk
                 \/ pc[r] = "archive" /\ m = job[r].prev
                 \/ pc[r] = "receipt" /\ m = job[r].cand
<1>1. pc[r] \in {"limit", "failure"} => Failure(job[r]) \in FailureReceipts
  BY TypeInvIs, JobIs, FailureTyped DEF Local
<1>2. QED
  BY <1>1, ReceiptsStep, MarksAre DEF SuccessesOnDisk, Adds

LEMMA FailuresStep ==
    ASSUME TypeInv, NEW r \in Runners, Start(r) \/ Step(r) \/ Kill(r)
    PROVE  /\ FailuresOnDisk \subseteq FailuresOnDisk'
           /\ \A x \in FailuresOnDisk' :
                 \/ x \in FailuresOnDisk
                 \/ pc[r] \in {"limit", "failure"} /\ x = Failure(job[r])
<1>1. \A x \in FailureReceipts : x # None /\ x \notin SuccessReceipts
  BY RunAssumption DEF Receipts, SuccessReceipts, FailureReceipts
<1>2. /\ pc[r] = "archive" => job[r].prev \in SuccessReceipts
      /\ pc[r] = "receipt" => job[r].cand \in SuccessReceipts
  BY TypeInvIs, JobIs DEF Local, Jobs
<1>3. QED
  BY <1>1, <1>2, ReceiptsStep DEF FailuresOnDisk, Adds

(* A step adds at most the candidate that is built to the marks.           *)
LEMMA MarksStep ==
    ASSUME TypeInv, NEW r \in Runners, Start(r) \/ Step(r) \/ Kill(r),
           NEW m \in Marks'
    PROVE  \/ m \in Marks
           \/ /\ pc[r] = "history" /\ pc'[r] = "precommit"
              /\ m = job'[r].cand /\ m = Success(job[r], clock')
<1>1. Onward(r) /\ Moves(r)
  BY StepOnward, StepMovesMarker
<1>2. CASE m \in SuccessesOnDisk'
  BY <1>2, SuccessesStep, MarksAre DEF SuccessesOnDisk
<1>3. CASE m = current' /\ m # None
  BY <1>1, <1>3, MarksAre DEF Moves
<1>4. ASSUME NEW s \in Runners, m = job'[s].prev, m # None PROVE m \in Marks
  <2>1. CASE s # r
    BY <1>1, <1>4, <2>1, MarksAre DEF Onward
  <2>2. CASE s = r
    <3>1. job'[r].prev \in {None, job[r].prev, current}
      BY <1>1, OnwardIs
    <3>2. QED
      BY <1>4, <2>2, <3>1, MarksAre
  <2>3. QED
    BY <2>1, <2>2
<1>5. ASSUME NEW s \in Runners, m = job'[s].cand, m # None
      PROVE  \/ m \in Marks
             \/ /\ pc[r] = "history" /\ pc'[r] = "precommit"
                /\ m = job'[r].cand /\ m = Success(job[r], clock')
  <2>1. CASE s # r
    BY <1>1, <1>5, <2>1, MarksAre DEF Onward
  <2>2. CASE s = r
    <3>1. \/ job'[r].cand \in {None, job[r].cand}
          \/ /\ pc[r] = "history" /\ pc'[r] = "precommit"
             /\ job'[r].cand = Success(job[r], clock')
      BY <1>1, OnwardIs
    <3>2. QED
      BY <1>5, <2>2, <3>1, MarksAre
  <2>3. QED
    BY <2>1, <2>2
<1>6. QED
  BY <1>2, <1>3, <1>4, <1>5 DEF Marks

-----------------------------------------------------------------------------
(* Every success receipt carries the number of the one run that built it.  *)

MarksNumbered ==
    /\ \A m \in Marks : m.run \in 1 .. runs
    /\ \A m, n \in Marks : m.run = n.run => m = n

\* The only mark with the number of a call is the candidate of that call.
OwnMark(r) ==
    /\ \A m \in Marks : pc[r] # "idle" /\ m.run = job[r].run => m = job[r].cand
    /\ pc[r] # "idle" /\ job[r].prev # None => job[r].prev.run # job[r].run
    /\ pc[r] \in {"precommit", "commit"} => job[r].cand \notin SuccessesOnDisk

NumberInv == TrackInv /\ MarksNumbered /\ \A r \in Runners : OwnMark(r)

LEMMA MarksNumberedStep ==
    ASSUME NumberInv, NEW r \in Runners, Start(r) \/ Step(r) \/ Kill(r)
    PROVE  MarksNumbered'
<1>1. /\ TypeInv /\ Onward(r) /\ runs \in Nat /\ LockInv
      /\ Knows(pc[r], job[r], current, disk, doubled, durable, clock)
  BY TrackIs, StepOnward, TypeInvIs, RunAssumption DEF NumberInv, TrackInv, LockInv
<1>2. runs' \in Nat /\ runs <= runs'
  BY <1>1, OnwardIs
<1>3. ASSUME NEW m \in Marks', m \notin Marks
      PROVE  /\ pc[r] = "history" /\ pc'[r] = "precommit" /\ m = job'[r].cand
             /\ m.run = job[r].run /\ m.run \in 1 .. runs
             /\ \A n \in Marks : n.run # m.run
  <2>1. /\ pc[r] = "history" /\ pc'[r] = "precommit"
        /\ m = job'[r].cand /\ m.run = job[r].run
    BY <1>1, <1>3, MarksStep DEF Success
  <2>2. job[r].cand = None
    BY <1>1, <2>1 DEF Knows, Life, Unbuilt
  <2>3. \A n \in Marks : n # None
    BY <1>1, MarksAre
  <2>4. QED
    BY <1>1, <2>1, <2>2, <2>3 DEF NumberInv, OwnMark, LockInv, Serial
<1>4. \A m \in Marks' : m.run \in 1 .. runs'
  BY <1>1, <1>2, <1>3 DEF NumberInv, MarksNumbered
<1>5. ASSUME NEW m \in Marks', NEW n \in Marks', m.run = n.run PROVE m = n
  BY <1>3, <1>5 DEF NumberInv, MarksNumbered
<1>6. QED
  BY <1>4, <1>5 DEF MarksNumbered

LEMMA OwnMarkStep ==
    ASSUME NumberInv, NEW r \in Runners, Start(r) \/ Step(r) \/ Kill(r),
           NEW s \in Runners
    PROVE  OwnMark(s)'
<1>1. /\ TypeInv /\ Onward(r) /\ runs \in Nat /\ LockInv
      /\ Knows(pc[r], job[r], current, disk, doubled, durable, clock)
      /\ MarksNumbered /\ OwnMark(r) /\ OwnMark(s)
  BY TrackIs, StepOnward, TypeInvIs, RunAssumption DEF NumberInv, TrackInv, LockInv
<1>2. \A n \in Marks : n # None
  BY <1>1, MarksAre
<1>3. pc[r] \in Unbuilt => job[r].cand = None
  BY <1>1 DEF Knows, Life
<1>4. ASSUME NEW m \in Marks'
      PROVE  \/ m \in Marks
             \/ /\ pc[r] = "history" /\ pc'[r] = "precommit"
                /\ m = job'[r].cand /\ m.run = job[r].run
  BY <1>1, MarksStep DEF Success
<1>5. CASE s # r
  <2>1. pc'[s] = pc[s] /\ job'[s] = job[s]
    BY <1>1, <1>5 DEF Onward
  <2>2. ASSUME NEW m \in Marks', pc[s] # "idle", m.run = job[s].run
        PROVE  m = job[s].cand
    <3>1. m \in Marks
      BY <1>1, <1>4, <1>5, <2>2 DEF LockInv, Serial
    <3>2. QED
      BY <1>1, <2>2, <3>1 DEF OwnMark
  <2>3. ASSUME pc[s] \in {"precommit", "commit"}
        PROVE  job[s].cand \notin SuccessesOnDisk'
    <3>1. Owns(s)
      BY <2>3 DEF Owns, Owning, Protected
    <3>2. ~Owns(r)
      BY <1>1, <1>5, <3>1 DEF LockInv, Serial, Owns, Owning, Preflight,
         Protected, Recovery
    <3>3. pc[r] \notin {"archive", "receipt"}
      BY <3>2 DEF Owns, Owning, Preflight, Protected
    <3>4. QED
      BY <1>1, <2>3, <3>3, SuccessesStep DEF OwnMark
  <2>4. QED
    BY <1>1, <2>1, <2>2, <2>3 DEF OwnMark
<1>6. CASE s = r
  <2>1. ASSUME NEW m \in Marks', pc'[r] # "idle", m.run = job'[r].run
        PROVE  m = job'[r].cand
    <3>1. CASE m \notin Marks
      BY <1>4, <3>1
    <3>2. CASE m \in Marks /\ pc[r] = "idle"
      BY <1>1, <2>1, <3>2, OnwardIs DEF MarksNumbered
    <3>3. CASE m \in Marks /\ pc[r] # "idle"
      <4>1. Follows(r, pc'[r], job'[r])
        BY <1>1, <2>1, <3>3, OnwardIs
      <4>2. m = job[r].cand
        BY <1>1, <2>1, <3>3, <4>1 DEF OwnMark, Follows
      <4>3. pc[r] # "history"
        BY <1>2, <1>3, <3>3, <4>2 DEF Unbuilt
      <4>4. QED
        BY <4>1, <4>2, <4>3 DEF Follows
    <3>4. QED
      BY <3>1, <3>2, <3>3
  <2>2. ASSUME pc'[r] # "idle", job'[r].prev # None
        PROVE  job'[r].prev.run # job'[r].run
    <3>1. Follows(r, pc'[r], job'[r]) /\ pc[r] # "idle"
      BY <1>1, <2>2, OnwardIs
    <3>2. CASE job'[r].prev = job[r].prev
      BY <1>1, <2>2, <3>1, <3>2 DEF OwnMark, Follows
    <3>3. CASE pc[r] = "load" /\ job'[r].prev = current
      <4>1. current \in Marks
        BY <1>1, <2>2, <3>3, MarksAre
      <4>2. QED
        BY <1>1, <1>2, <1>3, <3>1, <3>3, <4>1 DEF OwnMark, Follows, Unbuilt
    <3>4. QED
      BY <2>2, <3>1, <3>2, <3>3 DEF Follows
  <2>3. ASSUME pc'[r] \in {"precommit", "commit"}
        PROVE  job'[r].cand \notin SuccessesOnDisk'
    <3>1. Follows(r, pc'[r], job'[r]) /\ pc[r] # "idle"
      BY <1>1, <2>3, OnwardIs
    <3>2. pc[r] \in {"history", "precommit"}
      BY <2>3, <3>1 DEF Follows
    <3>3. SuccessesOnDisk' \subseteq SuccessesOnDisk
          /\ SuccessesOnDisk \subseteq Marks
      BY <1>1, <3>2, SuccessesStep, MarksAre
    <3>4. CASE pc[r] = "precommit"
      BY <1>1, <2>3, <3>1, <3>3, <3>4 DEF OwnMark, Follows
    <3>5. CASE pc[r] = "history"
      <4>1. job[r].cand = None
        BY <1>3, <3>5 DEF Unbuilt
      <4>2. job'[r].cand = None \/ job'[r].cand.run = job[r].run
        BY <3>1, <4>1 DEF Follows, Success
      <4>3. QED
        BY <1>1, <1>2, <3>3, <3>5, <4>1, <4>2 DEF OwnMark
    <3>6. QED
      BY <3>2, <3>4, <3>5
  <2>4. QED
    BY <1>6, <2>1, <2>2, <2>3 DEF OwnMark
<1>7. QED
  BY <1>5, <1>6

LEMMA QuietMarks ==
    ASSUME UNCHANGED <<disk, doubled, current, runs, pc, job>>
    PROVE  /\ ReceiptsOnDisk' = ReceiptsOnDisk /\ SuccessesOnDisk' = SuccessesOnDisk
           /\ FailuresOnDisk' = FailuresOnDisk /\ Marks' = Marks
<1>1. ReceiptsOnDisk' = ReceiptsOnDisk
  BY ReceiptFilesAre
<1>2. QED
  BY <1>1 DEF SuccessesOnDisk, FailuresOnDisk, Marks

LEMMA IdleSteps ==
    ASSUME ClearLock \/ UNCHANGED vars
    PROVE  UNCHANGED <<disk, doubled, current, runs, pc, job>>
BY DEF ClearLock, Quiet, vars, storeVars

LEMMA NumberStep ==
    ASSUME "power" \notin Faults, NumberInv, [Next]_vars
    PROVE  NumberInv'
<1>1. TrackInv'
  BY TrackStep DEF NumberInv
<1>2. ~PowerLoss
  BY DEF PowerLoss, LosePower, Strike
<1>3. ASSUME NEW r \in Runners, Start(r) \/ Step(r) \/ Kill(r)
      PROVE  NumberInv'
  BY <1>1, <1>3, MarksNumberedStep, OwnMarkStep DEF NumberInv
<1>4. CASE ClearLock \/ UNCHANGED vars
  BY <1>1, <1>4, IdleSteps, QuietMarks DEF NumberInv, MarksNumbered, OwnMark
<1>5. QED
  BY <1>2, <1>3, <1>4 DEF Next

LEMMA MarksInit == Init => Marks = {} /\ ReceiptsOnDisk \subseteq {None}
<1> SUFFICES ASSUME Init PROVE Marks = {} /\ ReceiptsOnDisk \subseteq {None}
  OBVIOUS
<1>1. \A f \in ReceiptFiles : disk[f] = None
  BY ReceiptFilesAre DEF Init, StoreInit
<1>2. SuccessesOnDisk = {}
  BY <1>1, ReceiptFilesAre, RunAssumption DEF SuccessesOnDisk, Receipts
<1>3. current = None /\ \A r \in Runners : pc[r] = "idle" /\ job[r] = NoJob
  BY DEF Init, StoreInit
<1>4. Marks = {}
  BY <1>2, <1>3, NoJobIs DEF Marks
<1>5. QED
  BY <1>1, <1>4, ReceiptFilesAre

LEMMA NumberInit == Init => NumberInv
<1>1. Init => \A r \in Runners : pc[r] = "idle"
  BY DEF Init
<1>2. QED
  BY <1>1, MarksInit, TrackInit DEF NumberInv, MarksNumbered, OwnMark

(* From validate_history only BuildMarker leads to the precommit check.    *)
LEMMA HistoryBuilds ==
    ASSUME TypeInv, NEW r \in Runners, Start(r) \/ Step(r) \/ Kill(r),
           pc[r] = "history", pc'[r] = "precommit"
    PROVE  BuildMarker(r)
<1>1. ControlOK
  BY TypeInvIs
<1>2. ~Dies(r) /\ \A e : ~Raise(r, e)
  BY <1>1 DEF ControlOK, Goto, Dies, Raise
<1>3. QED
  BY <1>2 DEF Step, Start, Kill, AcquireLock, AcquireFails, LoadActive,
     ArchiveActive, RecordLimit, PreserveRaw, PreserveNormalized, Preflight,
     WriteReceipt, RecordFailure, Commit, Rollback, RollbackRaises,
     CheckOwnReceipt, PreflightInterrupted, Fetch, Precommit,
     ValidateActivated, FinalizationAllowed, CallbackRaises,
     StageInterrupted, HandleChanged, HandleAmbiguous, HandleKnown,
     HandlerEscapes, InterruptedUnguarded, ReleaseLock

-----------------------------------------------------------------------------
(* The chain of generations.  The predecessor of a marker that is built is *)
(* in the history by then, and older: the injected clock has to advance.   *)

Linked(m) ==
    m.prev # None =>
        \E old \in SuccessesOnDisk :
            Archived(old) /\ old.norm = m.prev /\ old.done < m.done

LinkInv == NumberInv /\ \A m \in Marks : Linked(m)

LEMMA ArchivedOnDisk ==
    ASSUME NEW m \in SuccessReceipts, Archived(m)
    PROVE  m \in SuccessesOnDisk
BY ReceiptFilesAre DEF Archived, Holds, SuccessesOnDisk, ReceiptsOnDisk, SuccessReceipts

LEMMA LinkStep ==
    ASSUME "power" \notin Faults, 0 \notin ClockSteps, LinkInv, [Next]_vars
    PROVE  LinkInv'
<1>1. NumberInv'
  BY NumberStep DEF LinkInv
<1>2. ~PowerLoss
  BY DEF PowerLoss, LosePower, Strike
<1>3. ASSUME NEW r \in Runners, Start(r) \/ Step(r) \/ Kill(r), NEW m \in Marks'
      PROVE  Linked(m)'
  <2>1. /\ TrackInv /\ TypeInv /\ StoreTypeOK /\ Persists
        /\ SuccessesOnDisk \subseteq SuccessesOnDisk'
        /\ SuccessesOnDisk \subseteq SuccessReceipts
    BY <1>3, TypeInvIs, StepPersists, SuccessesStep, MarksAre
       DEF LinkInv, NumberInv, TrackInv, LockInv
  <2>2. \A old \in SuccessesOnDisk : Archived(old) => Archived(old)'
    BY <2>1, HistoryIs DEF Persists
  <2>3. CASE m \in Marks
    <3>1. SUFFICES ASSUME m.prev # None
                   PROVE  \E old \in SuccessesOnDisk' :
                             /\ Archived(old)' /\ old.norm = m.prev
                             /\ old.done < m.done
      BY DEF Linked, Archived, Holds
    <3>2. PICK old \in SuccessesOnDisk :
               Archived(old) /\ old.norm = m.prev /\ old.done < m.done
      BY <2>3, <3>1 DEF LinkInv, Linked
    <3>3. QED
      BY <2>1, <2>2, <3>2
  <2>4. CASE pc[r] = "history" /\ pc'[r] = "precommit"
             /\ m = Success(job[r], clock')
    <3>0. PICK old : old = job[r].prev
      OBVIOUS
    <3>1. SUFFICES ASSUME m.prev # None
                   PROVE  \E x \in SuccessesOnDisk' :
                             /\ Archived(x)' /\ x.norm = m.prev
                             /\ x.done < m.done
      BY DEF Linked, Archived, Holds
    <3>2. old # None /\ m.prev = old.norm /\ m.done = clock'
      BY <2>4, <3>0, <3>1 DEF Success
    <3>3. /\ job[r] \in Jobs /\ clock \in Nat
          /\ Knows("history", job[r], current, disk, doubled, durable, clock)
      BY <2>1, <2>4, TrackIs
    <3>4. old \in SuccessReceipts /\ old.done \in Nat /\ old.done <= clock
      BY <3>0, <3>2, <3>3 DEF Knows, Timed, Owning, Protected, Jobs,
         SuccessReceipts
    <3>5. InHistory(old, disk, doubled)
      BY <3>0, <3>2, <3>3 DEF Knows, Kept, Before
    <3>6. old \in SuccessesOnDisk /\ Archived(old)
      BY <3>4, <3>5, HistoryIs, ArchivedOnDisk
    <3>7. clock < clock' /\ clock' \in Nat
      <4>1. BuildMarker(r)
        BY <1>3, <2>1, <2>4, HistoryBuilds
      <4>2. QED
        BY <3>3, <4>1, RunAssumption DEF BuildMarker
    <3>8. old \in SuccessesOnDisk' /\ Archived(old)'
      BY <2>1, <2>2, <3>6
    <3>9. old.norm = m.prev /\ old.done < m.done
      BY <3>2, <3>3, <3>4, <3>7
    <3>10. QED
      BY <3>8, <3>9
  <2>5. QED
    BY <1>3, <2>1, <2>3, <2>4, MarksStep
<1>4. CASE ClearLock \/ UNCHANGED vars
  <2>1. UNCHANGED <<disk, doubled>> /\ Marks' = Marks
        /\ SuccessesOnDisk' = SuccessesOnDisk
    BY <1>4, IdleSteps, QuietMarks
  <2>2. QED
    BY <1>1, <2>1 DEF LinkInv, Linked, Archived, Holds
<1>5. QED
  BY <1>1, <1>2, <1>3, <1>4 DEF Next, LinkInv

(* Following the digests of the receipts from the active marker or from    *)
(* any archived one leads to archived receipts, back to a first one: the   *)
(* chain is never cut by a failure, an interrupt or a kill.                *)
THEOREM ChainsResolve ==
    ASSUME "power" \notin Faults, 0 \notin ClockSteps
    PROVE  Spec => []ChainResolves
<1>1. Init => LinkInv
  <2>1. Init => Marks = {}
    BY MarksInit
  <2>2. QED
    BY <2>1, NumberInit DEF LinkInv
<1>2. LinkInv => ChainResolves
  <2>1. LinkInv => SuccessesOnDisk \cup ({current} \ {None}) \subseteq Marks
    BY MarksAre DEF LinkInv, NumberInv, TrackInv, LockInv
  <2>2. QED
    BY <2>1 DEF LinkInv, Linked, ChainResolves
<1>3. LinkInv /\ [Next]_vars => LinkInv'
  BY LinkStep
<1>4. QED
  BY <1>1, <1>2, <1>3, PTL DEF Spec

-----------------------------------------------------------------------------
(* References.  A digest is set only after the artifact is installed, and  *)
(* an installed artifact stays.                                            *)

Preserved(raw, norm) ==
    /\ raw # None => Holds(RawFile(raw), raw)
    /\ norm # None => Holds(NormFile(norm), norm)

RefInv ==
    /\ NumberInv
    /\ \A m \in Marks : Preserved(m.raw, m.norm)
    /\ \A x \in FailuresOnDisk : Preserved(x.raw, x.norm)
    /\ \A r \in Runners : Preserved(job[r].rawRef, job[r].normRef)

LEMMA PreservedStays ==
    ASSUME StoreTypeOK, Writes, NEW x \in Raws \cup {None}, NEW y \in Norms \cup {None},
           Preserved(x, y)
    PROVE  Preserved(x, y)'
<1>1. /\ x # None => RawFile(x) \in Files
      /\ y # None => NormFile(y) \in Files
  BY FilesAre
<1>2. ASSUME NEW g \in Files, NEW c, c # None, Holds(g, c) PROVE Holds(g, c)'
  BY <1>2, InstallKeeps, RaisesKeep DEF Writes, Holds
<1>3. QED
  BY <1>1, <1>2 DEF Preserved

LEMMA InstallPreserves ==
    ASSUME StoreTypeOK, MarkerTimed, NEW f \in Files, NEW c, Install(f, c)
    PROVE  Holds(f, c)'
BY DEF StoreTypeOK, MarkerTimed, Install, Installable, Holds

LEMMA ReferencesStep ==
    ASSUME RefInv, NEW r \in Runners, Start(r) \/ Step(r) \/ Kill(r),
           NEW s \in Runners
    PROVE  Preserved(job[s].rawRef, job[s].normRef)'
<1>1. /\ TypeInv /\ StoreTypeOK /\ MarkerTimed /\ Onward(r) /\ Writes
      /\ job[r] \in Jobs /\ job[s] \in Jobs /\ Local(pc[r], job[r])
  BY TrackIs, StepOnward, StepWrites DEF RefInv, NumberInv, TrackInv, LockInv
<1>2. ASSUME NEW t \in Runners
      PROVE  /\ job[t].rawRef \in Raws \cup {None}
             /\ job[t].normRef \in Norms \cup {None}
  BY <1>1, TypeInvIs, JobIs DEF Jobs
<1>3. ASSUME NEW t \in Runners
      PROVE  /\ job[t].rawRef # None =>
                   /\ disk'[RawFile(job[t].rawRef)] = job[t].rawRef
                   /\ RawFile(job[t].rawRef) \notin doubled'
             /\ job[t].normRef # None =>
                   /\ disk'[NormFile(job[t].normRef)] = job[t].normRef
                   /\ NormFile(job[t].normRef) \notin doubled'
  <2>1. PICK x \in Raws \cup {None}, y \in Norms \cup {None} :
             x = job[t].rawRef /\ y = job[t].normRef
    BY <1>2
  <2>2. Preserved(x, y)'
    BY <1>1, <2>1, PreservedStays DEF RefInv
  <2>3. QED
    BY <2>1, <2>2 DEF Preserved, Holds
<1>4. /\ job'[s].rawRef # None =>
            /\ disk'[RawFile(job'[s].rawRef)] = job'[s].rawRef
            /\ RawFile(job'[s].rawRef) \notin doubled'
      /\ job'[s].normRef # None =>
            /\ disk'[NormFile(job'[s].normRef)] = job'[s].normRef
            /\ NormFile(job'[s].normRef) \notin doubled'
  <2>1. CASE s # r
    BY <1>1, <1>3, <2>1 DEF Onward
  <2>2. CASE s = r /\ job'[r].rawRef = None /\ job'[r].normRef = None
    BY <2>2
  <2>3. CASE s = r /\ Follows(r, pc'[r], job'[r])
    <3>1. \/ job'[r].rawRef \in {None, job[r].rawRef}
          \/ /\ job'[r].rawRef \in Raws
             /\ Install(RawFile(job'[r].rawRef), job'[r].rawRef)
      BY <1>1, <2>3 DEF Follows, Local
    <3>2. \/ job'[r].normRef \in {None, job[r].normRef}
          \/ /\ job'[r].normRef \in Norms
             /\ Install(NormFile(job'[r].normRef), job'[r].normRef)
      <4>1. pc[r] = "normalize" => Normalize[job[r].raw] \in Norms
        BY <1>1, StoreAssumption DEF Local
      <4>2. QED
        BY <2>3, <4>1 DEF Follows
    <3>3. ASSUME NEW f \in Files, NEW c, Install(f, c)
          PROVE  disk'[f] = c /\ f \notin doubled'
      BY <1>1, <3>3, InstallPreserves DEF Holds
    <3>4. QED
      BY <1>3, <2>3, <3>1, <3>2, <3>3, FilesAre
  <2>4. \/ job'[r].rawRef = None /\ job'[r].normRef = None
        \/ Follows(r, pc'[r], job'[r])
    BY <1>1, OnwardIs
  <2>5. QED
    BY <2>1, <2>2, <2>3, <2>4
<1>5. QED
  BY <1>4 DEF Preserved, Holds

LEMMA RefAct ==
    ASSUME RefInv, NEW r \in Runners, Start(r) \/ Step(r) \/ Kill(r)
    PROVE  /\ \A m \in Marks' : Preserved(m.raw, m.norm)'
           /\ \A x \in FailuresOnDisk' : Preserved(x.raw, x.norm)'
           /\ \A s \in Runners : Preserved(job[s].rawRef, job[s].normRef)'
<1>1. /\ TypeInv /\ StoreTypeOK /\ Writes
      /\ job[r] \in Jobs /\ Local(pc[r], job[r])
  BY TrackIs, StepWrites DEF RefInv, NumberInv, TrackInv, LockInv
<1>2. ASSUME NEW m \in Marks' PROVE Preserved(m.raw, m.norm)'
  <2>1. m.raw \in Raws \cup {None} /\ m.norm \in Norms \cup {None}
        /\ Preserved(m.raw, m.norm)
    <3>1. CASE m \in Marks
      BY <1>1, <3>1, MarksAre DEF RefInv, SuccessReceipts
    <3>2. CASE pc[r] = "history" /\ m = Success(job[r], clock')
      BY <1>1, <3>2 DEF RefInv, Success, Jobs
    <3>3. QED
      BY <1>1, <3>1, <3>2, MarksStep
  <2>2. QED
    BY <1>1, <2>1, PreservedStays
<1>3. ASSUME NEW x \in FailuresOnDisk' PROVE Preserved(x.raw, x.norm)'
  <2>1. x.raw \in Raws \cup {None} /\ x.norm \in Norms \cup {None}
        /\ Preserved(x.raw, x.norm)
    <3>1. CASE x \in FailuresOnDisk
      BY <3>1 DEF RefInv, FailuresOnDisk, FailureReceipts
    <3>2. CASE x = Failure(job[r])
      BY <1>1, <3>2 DEF RefInv, Failure, Jobs
    <3>3. QED
      BY <1>1, <3>1, <3>2, FailuresStep
  <2>2. QED
    BY <1>1, <2>1, PreservedStays
<1>4. QED
  BY <1>2, <1>3, ReferencesStep

LEMMA RefIdle ==
    ASSUME RefInv, ClearLock \/ UNCHANGED vars
    PROVE  /\ \A m \in Marks' : Preserved(m.raw, m.norm)'
           /\ \A x \in FailuresOnDisk' : Preserved(x.raw, x.norm)'
           /\ \A s \in Runners : Preserved(job[s].rawRef, job[s].normRef)'
<1>1. UNCHANGED <<disk, doubled, job>> /\ Marks' = Marks
      /\ FailuresOnDisk' = FailuresOnDisk
  BY IdleSteps, QuietMarks
<1>2. QED
  BY <1>1 DEF RefInv, Preserved, Holds

LEMMA RefStep ==
    ASSUME "power" \notin Faults, RefInv, [Next]_vars
    PROVE  RefInv'
<1>1. NumberInv'
  BY NumberStep DEF RefInv
<1>2. ~PowerLoss
  BY DEF PowerLoss, LosePower, Strike
<1>3. QED
  BY <1>1, <1>2, RefAct, RefIdle DEF Next, RefInv

LEMMA RefInit == Init => RefInv
<1> SUFFICES ASSUME Init PROVE RefInv
  OBVIOUS
<1>1. FailuresOnDisk = {}
  BY MarksInit, RunAssumption DEF FailuresOnDisk, Receipts
<1>2. \A r \in Runners : job[r].rawRef = None /\ job[r].normRef = None
  BY NoJobIs DEF Init
<1>3. QED
  BY <1>1, <1>2, MarksInit, NumberInit DEF RefInv, Preserved

(* What a receipt references is preserved: the receipts of successes and   *)
(* of failures, under whatever names callers give to their attempts.       *)
THEOREM ReceiptsAlwaysResolve ==
    ASSUME "power" \notin Faults
    PROVE  Spec => []ReceiptsResolve
<1>1. Init => RefInv
  BY RefInit
<1>2. RefInv => ReceiptsResolve
  <2>1. RefInv => SuccessesOnDisk \subseteq Marks
    BY MarksAre DEF RefInv, NumberInv, TrackInv, LockInv
  <2>2. QED
    BY <2>1 DEF RefInv, Preserved, ReceiptsResolve
<1>3. RefInv /\ [Next]_vars => RefInv'
  BY RefStep
<1>4. QED
  BY <1>1, <1>2, <1>3, PTL DEF Spec

-----------------------------------------------------------------------------
(* Failure receipts.  A call records its failure last, so that no failure  *)
(* has the number of a call that goes on; one that denies an activation is *)
(* never of the run of a marker that is, or can again be, the active one.  *)

Exists(x) == \E m \in SuccessesOnDisk \cup ({current} \ {None}) : m.run = x.run

FailureHolds(x) ==
    /\ x.run \in 1 .. runs
    /\ \A r \in Runners : pc[r] \notin {"idle", "release"} => x.run # job[r].run
    /\ ~x.activated =>
          /\ current # None => current.run # x.run
          /\ \A r \in Runners :
                pc[r] # "idle" /\ job[r].prev # None => job[r].prev.run # x.run
    /\ x.activated => Exists(x)

FailureInv == NumberInv /\ \A x \in FailuresOnDisk : FailureHolds(x)

LEMMA NewFailureHolds ==
    ASSUME FailureInv, NEW r \in Runners, Start(r) \/ Step(r) \/ Kill(r),
           pc[r] \in {"limit", "failure"}, NEW x, x = Failure(job[r])
    PROVE  FailureHolds(x)'
<1>1. /\ TypeInv /\ Onward(r) /\ Moves(r) /\ LockInv /\ runs \in Nat
      /\ job[r] \in Jobs /\ OwnMark(r)
      /\ Knows(pc[r], job[r], current, disk, doubled, durable, clock)
  BY TrackIs, TypeInvIs, RunAssumption, StepOnward, StepMovesMarker
     DEF FailureInv, NumberInv, TrackInv, LockInv
<1>2. x.run = job[r].run /\ x.activated = job[r].rbFailed
  BY DEF Failure
<1>3. current' = current /\ runs' = runs
      /\ job[r].run \in 1 .. runs
  BY <1>1, OnwardIs DEF Moves, LockInv, Serial
<1>4. ASSUME NEW s \in Runners, pc'[s] \notin {"idle", "release"}
      PROVE  x.run # job'[s].run
  <2>1. s # r
    BY <1>1, <1>4, OnwardIs DEF Follows
  <2>2. QED
    BY <1>1, <1>2, <1>4, <2>1 DEF Onward, LockInv, Serial
<1>5. ASSUME ~x.activated, current # None PROVE current.run # x.run
  <2>1. current \in Marks
    BY <1>1, <1>5, MarksAre
  <2>2. CASE pc[r] = "limit"
    <3>1. job[r].cand = None
      BY <1>1, <2>2 DEF Knows, Life, Unbuilt
    <3>2. QED
      BY <1>1, <1>2, <1>5, <2>1, <2>2, <3>1 DEF OwnMark
  <2>3. CASE pc[r] = "failure"
    <3>1. current = job[r].prev
      BY <1>1, <1>2, <1>5, <2>3 DEF Knows, Life
    <3>2. QED
      BY <1>1, <1>2, <1>5, <2>3, <3>1 DEF OwnMark
  <2>4. QED
    BY <2>2, <2>3
<1>6. ASSUME NEW s \in Runners, pc'[s] # "idle", job'[s].prev # None
      PROVE  job'[s].prev.run # x.run
  <2>1. CASE s = r
    <3>1. Follows(r, pc'[r], job'[r])
      BY <1>1, <1>6, <2>1, OnwardIs
    <3>2. job'[r].prev = job[r].prev
      BY <1>6, <2>1, <3>1 DEF Follows
    <3>3. QED
      BY <1>1, <1>2, <1>6, <2>1, <3>2 DEF OwnMark
  <2>2. CASE s # r
    <3>1. pc'[s] = pc[s] /\ job'[s] = job[s]
      BY <1>1, <2>2 DEF Onward
    <3>2. Owns(r)
      BY DEF Owns, Owning, Preflight, Recovery
    <3>3. ~Owns(s)
      BY <1>1, <2>2, <3>2 DEF LockInv, Serial, Owns, Owning, Preflight,
         Protected, Recovery
    <3>4. pc[s] = "lock"
      BY <1>1, <1>6, <3>1, <3>3, TypeInvIs, JobIs DEF Owns, Stages
    <3>5. Knows(pc[s], job[s], current, disk, doubled, durable, clock)
      BY TrackIs DEF FailureInv, NumberInv
    <3>6. QED
      BY <1>6, <3>1, <3>4, <3>5 DEF Knows, Life
  <2>3. QED
    BY <2>1, <2>2
<1>7. ASSUME x.activated
      PROVE  current # None /\ current.run = x.run
  BY <1>1, <1>2, <1>7 DEF Knows, Life, Unbuilt
<1>8. QED
  BY <1>2, <1>3, <1>4, <1>5, <1>6, <1>7 DEF FailureHolds, Exists

LEMMA OldFailureHolds ==
    ASSUME FailureInv, NEW r \in Runners, Start(r) \/ Step(r) \/ Kill(r),
           NEW x \in FailuresOnDisk
    PROVE  FailureHolds(x)'
<1>1. /\ TypeInv /\ Onward(r) /\ Moves(r) /\ runs \in Nat /\ StoreTypeOK
      /\ job[r] \in Jobs /\ FailureHolds(x)
      /\ SuccessesOnDisk \subseteq SuccessesOnDisk'
      /\ Knows(pc[r], job[r], current, disk, doubled, durable, clock)
  BY TrackIs, TypeInvIs, RunAssumption, StepOnward, StepMovesMarker, SuccessesStep
     DEF FailureInv, NumberInv, TrackInv, LockInv
<1>2. runs' \in Nat /\ runs <= runs'
  BY <1>1, OnwardIs
<1>3. x.run \in 1 .. runs'
  BY <1>1, <1>2 DEF FailureHolds
<1>4. ASSUME NEW s \in Runners, pc'[s] \notin {"idle", "release"}
      PROVE  x.run # job'[s].run
  <2>1. CASE s # r
    BY <1>1, <1>4, <2>1 DEF Onward, FailureHolds
  <2>2. CASE s = r /\ pc[r] = "idle"
    BY <1>1, <1>4, <2>2, OnwardIs DEF FailureHolds
  <2>3. CASE s = r /\ pc[r] # "idle"
    BY <1>1, <1>4, <2>3, OnwardIs DEF Follows, FailureHolds
  <2>4. QED
    BY <2>1, <2>2, <2>3
<1>5. pc[r] = "commit" => job[r].cand.run # x.run
  <2>1. ASSUME pc[r] = "commit" PROVE job[r].cand.run = job[r].run
    BY <1>1, <2>1, MarksAre, TypeInvIs, JobIs DEF Knows, Life, Local
  <2>2. QED
    BY <1>1, <2>1 DEF FailureHolds
<1>6. ASSUME ~x.activated, current' # None PROVE current'.run # x.run
  BY <1>1, <1>5, <1>6 DEF FailureHolds, Moves
<1>7. ASSUME ~x.activated, NEW s \in Runners, pc'[s] # "idle", job'[s].prev # None
      PROVE  job'[s].prev.run # x.run
  <2>1. CASE s # r
    BY <1>1, <1>7, <2>1 DEF Onward, FailureHolds
  <2>2. CASE s = r
    <3>1. Follows(r, pc'[r], job'[r]) /\ pc[r] # "idle"
      BY <1>1, <1>7, <2>2, OnwardIs
    <3>2. QED
      BY <1>1, <1>7, <2>2, <3>1 DEF Follows, FailureHolds
  <2>3. QED
    BY <2>1, <2>2
<1>8. ASSUME x.activated PROVE Exists(x)'
  <2>1. PICK m \in SuccessesOnDisk \cup ({current} \ {None}) : m.run = x.run
    BY <1>1, <1>8 DEF FailureHolds, Exists
  <2>2. CASE m \in SuccessesOnDisk
    BY <1>1, <2>1, <2>2 DEF Exists
  <2>3. CASE m = current /\ m # None /\ current' = current
    BY <2>1, <2>3 DEF Exists
  <2>4. CASE m = current /\ m # None /\ pc[r] = "commit"
    <3>1. InHistory(m, disk, doubled) /\ m \in SuccessReceipts
      BY <1>1, <2>4 DEF Knows, Life, Kept, Before, StoreTypeOK
    <3>2. m \in SuccessesOnDisk
      BY <3>1, HistoryIs, ArchivedOnDisk
    <3>3. QED
      BY <1>1, <2>1, <3>2 DEF Exists
  <2>5. CASE m = current /\ m # None /\ pc[r] = "rollback"
    <3>1. m.run = job[r].run
      BY <1>1, <2>5 DEF Knows, Life
    <3>2. QED
      BY <1>1, <2>1, <2>5, <3>1 DEF FailureHolds
  <2>6. QED
    BY <1>1, <2>1, <2>2, <2>3, <2>4, <2>5 DEF Moves
<1>9. QED
  BY <1>3, <1>4, <1>6, <1>7, <1>8 DEF FailureHolds

LEMMA FailureStep ==
    ASSUME "power" \notin Faults, FailureInv, [Next]_vars
    PROVE  FailureInv'
<1>1. NumberInv'
  BY NumberStep DEF FailureInv
<1>2. ~PowerLoss
  BY DEF PowerLoss, LosePower, Strike
<1>3. ASSUME NEW r \in Runners, Start(r) \/ Step(r) \/ Kill(r),
             NEW x \in FailuresOnDisk'
      PROVE  FailureHolds(x)'
  BY <1>3, FailuresStep, NewFailureHolds, OldFailureHolds
     DEF FailureInv, NumberInv, TrackInv, LockInv
<1>4. CASE ClearLock \/ UNCHANGED vars
  <2>1. UNCHANGED <<current, runs, pc, job>> /\ FailuresOnDisk' = FailuresOnDisk
        /\ SuccessesOnDisk' = SuccessesOnDisk
    BY <1>4, IdleSteps, QuietMarks
  <2>2. QED
    BY <1>1, <2>1 DEF FailureInv, FailureHolds, Exists
<1>5. QED
  BY <1>1, <1>2, <1>3, <1>4 DEF Next, FailureInv

LEMMA FailureInit == Init => FailureInv
<1> SUFFICES ASSUME Init PROVE FailureInv
  OBVIOUS
<1>1. FailuresOnDisk = {}
  BY MarksInit, RunAssumption DEF FailuresOnDisk, Receipts
<1>2. QED
  BY <1>1, NumberInit DEF FailureInv

(* What a failure receipt says of the activation is true for as long as    *)
(* the receipt exists, and not only when it is written.                    *)
THEOREM FailuresAreTruthful ==
    ASSUME "power" \notin Faults
    PROVE  Spec => []FailureReceiptsTruthful
<1>1. FailureInv => FailureReceiptsTruthful
  BY DEF FailureInv, FailureHolds, Exists, FailureReceiptsTruthful
<1>2. FailureInv /\ [Next]_vars => FailureInv'
  BY FailureStep
<1>3. QED
  BY <1>1, <1>2, FailureInit, PTL DEF Spec

-----------------------------------------------------------------------------
(* Names.  When callers never reuse an attempt id and nothing leaves a     *)
(* temporary link behind, the receipt under the name of the active marker  *)
(* is that marker or nothing.                                              *)

Unbroken == Faults \cap {"power", "kill", "unlink"} = {} /\ ~ReuseIds

\* What may be under the name receipts/<i>.json.
UnderName(i, c) ==
    c # None =>
        /\ c \in Receipts
        /\ c.id = i
        /\ c \in FailureReceipts => ~c.activated

NameInv ==
    /\ RefInv
    /\ FailureInv
    /\ doubled = {}
    /\ \A r \in Runners : pc[r] # "idle" => job[r].id = job[r].run
    /\ \A m \in Marks : m.id = m.run
    /\ \A x \in FailuresOnDisk : x.id = x.run
    /\ \A i \in AttemptIds : UnderName(i, disk[ReceiptFile(i)])

LEMMA NothingDoubled ==
    ASSUME Unbroken, NEW f, NEW c, Puts(f, c), doubled = {}
    PROVE  doubled' = {}
BY DEF Unbroken, Puts, Install, InstallRaises, Collides, FailsUnlinked,
   FailsLinked, KeepsTemporary, Strike

LEMMA OnwardNamed ==
    ASSUME Unbroken, NEW r \in Runners, Onward(r), runs \in Nat, pc'[r] # "idle"
    PROVE  \/ job'[r].id = job'[r].run
           \/ pc[r] # "idle" /\ job'[r].id = job[r].id /\ job'[r].run = job[r].run
<1>1. ASSUME job'[r] = [NoJob EXCEPT !.id = runs', !.run = runs']
      PROVE  job'[r].id = job'[r].run
  BY <1>1, NoJobIs
<1>2. QED
  BY <1>1 DEF Onward, Unbroken, Follows

LEMMA WritingNamed ==
    ASSUME NameInv, NEW r \in Runners, NEW f, NEW c, Writing(r, f, c),
           NEW i \in AttemptIds, f = ReceiptFile(i)
    PROVE  UnderName(i, c)
<1>1. /\ TypeInv /\ Local(pc[r], job[r]) /\ job[r] \in Jobs
      /\ Knows(pc[r], job[r], current, disk, doubled, durable, clock)
  BY TrackIs DEF NameInv, RefInv, NumberInv, TrackInv, LockInv
<1>2. f # FailureFile(job[r].id) /\ (\A x : f # RawFile(x) /\ f # NormFile(x))
      /\ \A k : f = ReceiptFile(k) => k = i
  BY DEF ReceiptFile, FailureFile, RawFile, NormFile
<1>3. CASE pc[r] = "archive" /\ f = ReceiptFile(job[r].prev.id) /\ c = job[r].prev
  BY <1>1, <1>2, <1>3, MarksAre DEF Local, Jobs, UnderName, Receipts
<1>4. CASE pc[r] = "receipt" /\ f = ReceiptFile(job[r].id) /\ c = job[r].cand
  BY <1>1, <1>2, <1>4, MarksAre DEF Local, Knows, Life, UnderName, Receipts
<1>5. CASE /\ pc[r] \in {"limit", "failure"} /\ f = ReceiptFile(job[r].id)
           /\ ~job[r].rbFailed /\ c = Failure(job[r])
  <2>1. c.id = job[r].id /\ ~c.activated
    BY <1>5 DEF Failure
  <2>2. c \in Receipts
    BY <1>1, <1>5, FailureTyped DEF Local, Receipts
  <2>3. QED
    BY <1>2, <1>5, <2>1, <2>2 DEF UnderName
<1>6. QED
  BY <1>1, <1>2, <1>3, <1>4, <1>5 DEF Writing, Knows, Life, Unbuilt

LEMMA NameStep ==
    ASSUME Unbroken, NameInv, [Next]_vars
    PROVE  NameInv'
<1>1. "power" \notin Faults /\ ~PowerLoss
  BY DEF Unbroken, PowerLoss, LosePower, Strike
<1>2. RefInv' /\ FailureInv'
  BY <1>1, RefStep, FailureStep DEF NameInv
<1>3. ASSUME NEW r \in Runners, Start(r) \/ Step(r) \/ Kill(r)
      PROVE  NameInv'
  <2>1. /\ TypeInv /\ StoreTypeOK /\ Onward(r) /\ runs \in Nat
        /\ pc[r] \in Stages
    BY <1>3, TypeInvIs, RunAssumption, StepOnward, TrackIs
       DEF NameInv, RefInv, NumberInv, TrackInv, LockInv
  <2>2. ASSUME NEW s \in Runners, pc'[s] # "idle"
        PROVE  job'[s].id = job'[s].run
    BY <2>1, <2>2, OnwardNamed DEF NameInv, Onward
  <2>3. ASSUME NEW m \in Marks' PROVE m.id = m.run
    <3>1. CASE m \in Marks
      BY <3>1 DEF NameInv
    <3>2. CASE pc[r] = "history" /\ m = Success(job[r], clock')
      BY <3>2 DEF NameInv, Success
    <3>3. QED
      BY <1>3, <2>1, <3>1, <3>2, MarksStep
  <2>4. ASSUME NEW x \in FailuresOnDisk' PROVE x.id = x.run
    <3>1. CASE x \in FailuresOnDisk
      BY <3>1 DEF NameInv
    <3>2. CASE pc[r] \in {"limit", "failure"} /\ x = Failure(job[r])
      BY <3>2 DEF NameInv, Failure
    <3>3. QED
      BY <1>3, <2>1, <3>1, <3>2, FailuresStep
  <2>5. CASE UNCHANGED <<disk, doubled>>
    BY <1>2, <2>2, <2>3, <2>4, <2>5 DEF NameInv
  <2>6. ASSUME NEW f, NEW c, Writing(r, f, c), Puts(f, c)
        PROVE  NameInv'
    <3>1. doubled' = {}
      BY <2>6, NothingDoubled DEF NameInv
    <3>2. /\ f \in Files
          /\ \A g \in Files \ {f} : disk'[g] = disk[g]
          /\ disk'[f] = disk[f] \/ (disk[f] = None /\ disk'[f] = c)
      BY <2>1, <2>6, WritingTyped, PutsIs
    <3>3. ASSUME NEW i \in AttemptIds
          PROVE  UnderName(i, disk'[ReceiptFile(i)])
      <4>1. \/ disk'[ReceiptFile(i)] = disk[ReceiptFile(i)]
            \/ f = ReceiptFile(i) /\ disk'[ReceiptFile(i)] = c
        BY <3>2, FilesAre
      <4>2. QED
        BY <2>6, <4>1, WritingNamed DEF NameInv
    <3>4. QED
      BY <1>2, <2>2, <2>3, <2>4, <3>1, <3>3 DEF NameInv
  <2>7. QED
    BY <1>3, <2>5, <2>6, StepPuts
<1>4. CASE ClearLock \/ UNCHANGED vars
  <2>1. UNCHANGED <<disk, doubled, pc, job>> /\ Marks' = Marks
        /\ FailuresOnDisk' = FailuresOnDisk
    BY <1>4, IdleSteps, QuietMarks
  <2>2. QED
    BY <1>2, <2>1 DEF NameInv
<1>5. QED
  BY <1>1, <1>3, <1>4 DEF Next

(* Nothing that runs or raises, in whatever order and however often, makes *)
(* the source need repair: the next preflight accepts the active marker    *)
(* and can archive it, and no entry ever has a second link.  Kills and     *)
(* failed unlinks leave one (docs/INGESTION.md).                           *)
THEOREM AlwaysReconcilable ==
    ASSUME Unbroken
    PROVE  Spec => [](Reconcilable /\ doubled = {})
<1>1. Init => NameInv
  <2> SUFFICES ASSUME Init PROVE NameInv
    OBVIOUS
  <2>1. FailuresOnDisk = {} /\ Marks = {}
    BY MarksInit, RunAssumption DEF FailuresOnDisk, Receipts
  <2>2. \A i \in AttemptIds : disk[ReceiptFile(i)] = None
    BY FilesAre DEF Init, StoreInit
  <2>3. QED
    BY <2>1, <2>2, RefInit, FailureInit DEF NameInv, UnderName, Init, StoreInit
<1>2. NameInv => Reconcilable /\ doubled = {}
  <2> SUFFICES ASSUME NameInv, current # None
               PROVE  /\ Resolves(current)
                      /\ Installable(ReceiptFile(current.id), current)
    BY DEF Reconcilable, PreflightAccepts, NameInv
  <2>1. /\ TypeInv /\ current \in Marks /\ current \in SuccessReceipts
        /\ SuccessesOnDisk \subseteq Marks
    BY MarksAre DEF NameInv, RefInv, NumberInv, TrackInv, LockInv
  <2>2. Resolves(current)
    BY <2>1, StoreAssumption DEF NameInv, RefInv, Preserved, Resolves,
       SuccessReceipts
  <2>3. PICK i \in AttemptIds : i = current.id
    BY <2>1 DEF SuccessReceipts
  <2>4. PICK c : c = disk[ReceiptFile(i)]
    OBVIOUS
  <2>5. CASE c = None
    BY <2>2, <2>3, <2>4, <2>5 DEF Installable
  <2>6. CASE c \in SuccessReceipts
    <3>1. c \in Marks /\ c.id = i
      BY <2>1, <2>4, <2>6, MarksAre
         DEF SuccessesOnDisk, ReceiptsOnDisk, NameInv, UnderName
    <3>2. c = current
      BY <2>1, <2>3, <3>1 DEF NameInv, RefInv, NumberInv, MarksNumbered
    <3>3. QED
      BY <2>2, <2>3, <2>4, <3>2 DEF Installable, Holds, NameInv
  <2>7. CASE c \in FailureReceipts
    <3>1. c \in FailuresOnDisk /\ c.id = i /\ ~c.activated
      BY <2>4, <2>7, RunAssumption
         DEF FailuresOnDisk, ReceiptsOnDisk, NameInv, UnderName, Receipts
    <3>2. current.run # c.run
      BY <3>1 DEF NameInv, FailureInv, FailureHolds
    <3>3. QED
      BY <2>1, <2>3, <3>1, <3>2 DEF NameInv
  <2>8. QED
    BY <2>3, <2>4, <2>5, <2>6, <2>7 DEF NameInv, UnderName, Receipts
<1>3. NameInv /\ [Next]_vars => NameInv'
  BY NameStep
<1>4. QED
  BY <1>1, <1>2, <1>3, PTL DEF Spec

-----------------------------------------------------------------------------
(* run_ingestion implements ActiveDataset.                                 *)

\* The generation that a withdrawal restores, as Dataset reads it.
Fallback ==
    IF \E r \in Runners : Tentative(r)
    THEN job[CHOOSE r \in Runners : Tentative(r)].prev
    ELSE Settled

LEMMA TentativeOwns ==
    ASSUME LockInv, NEW r \in Runners, Tentative(r)
    PROVE  Owns(r) /\ \A s \in Runners : Owns(s) => s = r
<1>1. Owns(r)
  BY DEF Tentative, Owns, Owning, Protected, Recovery
<1>2. ASSUME NEW s \in Runners, Owns(s) PROVE s = r
  BY <1>1, <1>2 DEF LockInv, Serial, Owns, Owning, Preflight, Protected, Recovery
<1>3. QED
  BY <1>1, <1>2

LEMMA FallbackIs ==
    ASSUME LockInv
    PROVE  /\ \A r \in Runners : Tentative(r) => Fallback = job[r].prev
           /\ (\A r \in Runners : ~Tentative(r)) => Fallback = Settled
<1>1. ASSUME NEW r \in Runners, Tentative(r) PROVE Fallback = job[r].prev
  <2>1. ASSUME NEW s \in Runners, Tentative(s) PROVE s = r
    BY <1>1, <2>1, TentativeOwns
  <2>2. (CHOOSE s \in Runners : Tentative(s)) = r
    BY <1>1, <2>1
  <2>3. QED
    BY <1>1, <2>2 DEF Fallback
<1>2. QED
  BY <1>1 DEF Fallback

FallbackRead ==
    /\ \A r \in Runners : Tentative(r) => Fallback = job[r].prev
    /\ (\A r \in Runners : ~Tentative(r)) => Fallback = Settled

LEMMA FallbackImplied == LockInv => FallbackRead
BY FallbackIs DEF FallbackRead

LEMMA FallbackNext ==
    ASSUME LockInv'
    PROVE  /\ \A r \in Runners : Tentative(r)' => Fallback' = job'[r].prev
           /\ (\A r \in Runners : ~Tentative(r)') => Fallback' = Settled
<1>1. FallbackRead'
  BY FallbackImplied, PTL
<1>2. QED
  BY <1>1 DEF FallbackRead

LEMMA DatasetInit == Init => Dataset!Init
<1> SUFFICES ASSUME Init PROVE Dataset!Init
  OBVIOUS
<1>1. \A r \in Runners : ~Tentative(r)
  BY DEF Init, Tentative
<1>2. SuccessesOnDisk = {}
  BY MarksInit DEF Marks
<1>3. QED
  BY <1>1, <1>2 DEF Dataset!Init, Init, StoreInit

(* Who is tentative after a step of a call that works under the lock: only *)
(* that call can be, and it was before unless the step commits.            *)
LEMMA OwnerTentative ==
    ASSUME NumberInv, LockInv', NEW r \in Runners, Step(r) \/ Kill(r), Owns(r)
    PROVE  /\ \A s \in Runners \ {r} : ~Tentative(s) /\ ~Tentative(s)'
           /\ Tentative(r)' =>
                 /\ job'[r].prev = job[r].prev
                 /\ Tentative(r) \/ (pc[r] = "commit" /\ current' # current)
<1>1. /\ TypeInv /\ LockInv /\ Onward(r) /\ OwnMark(r) /\ Moves(r)
      /\ Local(pc[r], job[r]) /\ pc[r] \in Stages
      /\ Knows(pc[r], job[r], current, disk, doubled, durable, clock)
  BY TrackIs, StepOnward, StepMovesMarker DEF NumberInv, TrackInv, LockInv
<1>2. ASSUME NEW s \in Runners \ {r} PROVE ~Tentative(s) /\ ~Tentative(s)'
  <2>1. ~Owns(s)
    BY <1>1, <1>2 DEF LockInv, Serial, Owns, Owning, Preflight, Protected, Recovery
  <2>2. pc'[s] = pc[s]
    BY <1>1, <1>2 DEF Onward
  <2>3. QED
    BY <2>1, <2>2 DEF Tentative, Owns, Owning, Protected, Recovery
<1>3. ASSUME Tentative(r)'
      PROVE  /\ job'[r].prev = job[r].prev
             /\ Tentative(r) \/ (pc[r] = "commit" /\ current' # current)
  <2>1. /\ pc'[r] \in {"validate", "finalize", "receipt", "handle", "rollback"}
        /\ job'[r].cand # None /\ current' = job'[r].cand
    BY <1>3 DEF Tentative
  <2>2. Follows(r, pc'[r], job'[r]) /\ pc[r] # "idle"
    BY <1>1, <2>1, OnwardIs
  <2>3. job'[r].cand = job[r].cand /\ job[r].cand # None
    BY <2>1, <2>2 DEF Follows
  <2>4. pc[r] \in Before \cup After \cup {"handle", "rollback"}
        /\ pc[r] \notin Unbuilt
    BY <1>1, <2>1, <2>2, <2>3 DEF Follows, Knows, Life, Unbuilt, Before, After,
       Stages, Owning, Preflight, Protected, Recovery
  <2>5. job'[r].prev = job[r].prev
    BY <2>2, <2>4 DEF Follows, Unbuilt
  <2>6. job[r].cand # job[r].prev
    BY <1>1, <2>2, <2>3 DEF OwnMark, Knows, Life
  <2>7. CASE pc[r] \in {"precommit", "commit"}
    BY <1>1, <2>1, <2>3, <2>6, <2>5, <2>7 DEF Moves, Knows, Life, Before
  <2>8. CASE pc[r] = "rollback"
    BY <1>1, <2>1, <2>3, <2>6, <2>5, <2>8 DEF Moves, Tentative
  <2>9. CASE pc[r] \in {"validate", "finalize", "receipt", "handle"}
    BY <1>1, <2>1, <2>3, <2>5, <2>9 DEF Moves, Tentative
  <2>10. QED
    BY <2>4, <2>5, <2>7, <2>8, <2>9 DEF Unbuilt, Before, After
<1>4. QED
  BY <1>2, <1>3

LEMMA OutsiderFallback ==
    ASSUME NumberInv, LockInv', NEW r \in Runners, Start(r) \/ Step(r) \/ Kill(r),
           ~Owns(r)
    PROVE  Fallback' = Fallback
<1>1. /\ TypeInv /\ LockInv /\ Onward(r) /\ current' = current
  BY OutsiderQuiet, StepOnward DEF NumberInv, TrackInv, LockInv, Quiet
<1>2. ~Tentative(r) /\ ~Tentative(r)'
  <2>1. pc[r] \notin {"commit", "precommit", "validate", "finalize", "receipt",
                      "handle", "rollback"}
    BY DEF Owns, Owning, Protected, Recovery
  <2>2. ASSUME Tentative(r)' PROVE FALSE
    <3>1. pc'[r] \in {"validate", "finalize", "receipt", "handle", "rollback"}
      BY <2>2 DEF Tentative
    <3>2. Follows(r, pc'[r], job'[r]) /\ pc[r] # "idle"
      BY <1>1, <3>1, OnwardIs
    <3>3. pc[r] = "lock"
      BY <1>1, <3>2, TypeInvIs, JobIs DEF Owns, Stages
    <3>4. job[r].cand = None
      BY <3>3, TrackIs DEF NumberInv, Knows, Life, Unbuilt
    <3>5. job'[r].cand = None
      BY <3>2, <3>3, <3>4 DEF Follows
    <3>6. QED
      BY <2>2, <3>5 DEF Tentative
  <2>3. QED
    BY <2>1, <2>2 DEF Tentative
<1>3. ASSUME NEW s \in Runners
      PROVE  (Tentative(s)' <=> Tentative(s))
             /\ (Tentative(s) => job'[s].prev = job[s].prev)
  <2>1. CASE s = r
    BY <1>2, <2>1
  <2>2. CASE s # r
    BY <1>1, <2>2 DEF Onward, Tentative
  <2>3. QED
    BY <2>1, <2>2
<1>4. CASE \E s \in Runners : Tentative(s)
  <2>1. PICK s \in Runners : Tentative(s)
    BY <1>4
  <2>2. Fallback = job[s].prev
    BY <1>1, <2>1, FallbackIs
  <2>3. Fallback' = job'[s].prev
    BY <1>3, <2>1, FallbackNext
  <2>4. QED
    BY <1>3, <2>1, <2>2, <2>3
<1>5. CASE \A s \in Runners : ~Tentative(s)
  BY <1>1, <1>3, <1>5, FallbackIs, FallbackNext
<1>6. QED
  BY <1>4, <1>5

(* The abstract actions, with what Dataset substitutes for the variables.  *)
LEMMA DatasetSteps ==
    /\ /\ current # None
       /\ SuccessesOnDisk' = SuccessesOnDisk \cup {current}
       /\ Fallback' \in {Fallback, Settled} /\ current' = current
       => Dataset!Next
    /\ /\ Fallback' = Settled
       /\ current' = current /\ SuccessesOnDisk' = SuccessesOnDisk
       => Dataset!Next
    /\ /\ Fallback # Settled /\ current' = Fallback /\ Fallback' = Settled
       /\ SuccessesOnDisk' = SuccessesOnDisk
       => Dataset!Next
    /\ /\ Fallback = Settled
       /\ current # None => current \in SuccessesOnDisk
       /\ current' \in SuccessReceipts \ (SuccessesOnDisk \cup {current})
       /\ Fallback' \in {current, Settled}
       /\ SuccessesOnDisk' = SuccessesOnDisk
       => Dataset!Next
    /\ /\ Fallback' = Fallback
       /\ current' = current /\ SuccessesOnDisk' = SuccessesOnDisk
       => UNCHANGED Dataset!vars
BY DEF Fallback, Dataset!Next, Dataset!Activate, Dataset!Archive,
   Dataset!Settle, Dataset!Withdraw, Dataset!vars

LEMMA RefinementStep ==
    ASSUME "power" \notin Faults, NumberInv, LockInv', [Next]_vars
    PROVE  Dataset!Next \/ UNCHANGED Dataset!vars
<1>1. TypeInv /\ LockInv /\ ~PowerLoss
  BY DEF NumberInv, TrackInv, LockInv, PowerLoss, LosePower, Strike
<1>2. CASE ClearLock \/ UNCHANGED vars
  <2>1. UNCHANGED <<current, pc, job>> /\ SuccessesOnDisk' = SuccessesOnDisk
    BY <1>2, IdleSteps, QuietMarks
  <2>2. Fallback' = Fallback
    BY <2>1 DEF Fallback, Tentative
  <2>3. QED
    BY <2>1, <2>2, DatasetSteps
<1>3. ASSUME NEW r \in Runners, Start(r) \/ Step(r) \/ Kill(r)
      PROVE  Dataset!Next \/ UNCHANGED Dataset!vars
  <2>1. /\ Moves(r) /\ SuccessesOnDisk \subseteq SuccessesOnDisk'
        /\ \A m \in SuccessesOnDisk' :
              \/ m \in SuccessesOnDisk
              \/ pc[r] = "archive" /\ m = job[r].prev
              \/ pc[r] = "receipt" /\ m = job[r].cand
        /\ Knows(pc[r], job[r], current, disk, doubled, durable, clock)
        /\ OwnMark(r) /\ Local(pc[r], job[r]) /\ job[r] \in Jobs
    BY <1>1, <1>3, StepMovesMarker, SuccessesStep, TrackIs DEF NumberInv
  <2>2. CASE ~Owns(r)
    <3>1. Fallback' = Fallback /\ current' = current
          /\ UNCHANGED <<disk, doubled>>
      BY <1>1, <1>3, <2>2, OutsiderFallback, OutsiderQuiet DEF Quiet
    <3>2. SuccessesOnDisk' = SuccessesOnDisk
      BY <3>1, ReceiptFilesAre DEF SuccessesOnDisk
    <3>3. QED
      BY <3>1, <3>2, DatasetSteps
  <2>3. CASE Owns(r) /\ current' = current
    <3>1. Fallback' \in {Fallback, Settled}
      <4>1. /\ \A s \in Runners \ {r} : ~Tentative(s) /\ ~Tentative(s)'
            /\ Tentative(r)' =>
                  job'[r].prev = job[r].prev /\ Tentative(r)
        BY <1>3, <2>3, OwnerTentative DEF Start, Owns, Owning, Preflight,
           Protected, Recovery
      <4>2. Tentative(r)' => Fallback' = Fallback
        BY <1>1, <4>1, FallbackIs, FallbackNext
      <4>3. ~Tentative(r)' => Fallback' = Settled
        BY <4>1, FallbackNext
      <4>4. QED
        BY <4>2, <4>3
    <3>2. CASE SuccessesOnDisk' = SuccessesOnDisk
      BY <2>3, <3>1, <3>2, DatasetSteps
    <3>3. CASE SuccessesOnDisk' # SuccessesOnDisk
      <4>1. PICK m \in SuccessesOnDisk' : m \notin SuccessesOnDisk
        BY <2>1, <3>3
      <4>2. m = current /\ m # None
            /\ SuccessesOnDisk' \subseteq SuccessesOnDisk \cup {current}
        BY <1>1, <2>1, <4>1, MarksAre
           DEF Knows, Life, Before, After, SuccessesOnDisk
      <4>3. SuccessesOnDisk' = SuccessesOnDisk \cup {current}
        BY <2>1, <4>1, <4>2
      <4>4. QED
        BY <2>3, <3>1, <4>2, <4>3, DatasetSteps
    <3>4. QED
      BY <3>2, <3>3
  <2>4. CASE Owns(r) /\ current' # current
    <3>1. /\ \A s \in Runners \ {r} : ~Tentative(s) /\ ~Tentative(s)'
          /\ Tentative(r)' =>
                /\ job'[r].prev = job[r].prev
                /\ Tentative(r) \/ pc[r] = "commit"
      BY <1>3, <2>4, OwnerTentative DEF Start, Owns, Owning, Preflight,
         Protected, Recovery
    <3>2. /\ \/ pc[r] = "commit" /\ current' = job[r].cand
             \/ pc[r] = "rollback" /\ current' = job[r].prev
          /\ UNCHANGED <<disk, doubled>>
      BY <2>1, <2>4 DEF Moves
    <3>3. SuccessesOnDisk' = SuccessesOnDisk
      BY <3>2, ReceiptFilesAre DEF SuccessesOnDisk
    <3>4. CASE pc[r] = "commit"
      <4>1. Fallback = Settled
        BY <1>1, <3>1, <3>4, FallbackIs DEF Tentative
      <4>2. current = job[r].prev
        BY <2>1, <3>4 DEF Knows, Life, Before
      <4>3. current # None => current \in SuccessesOnDisk
        <5>1. current # None =>
                 current \in SuccessReceipts /\ InHistory(current, disk, doubled)
          BY <2>1, <3>4, <4>2 DEF Knows, Kept, Before, Jobs
        <5>2. QED
          BY <5>1, HistoryIs, ArchivedOnDisk
      <4>4. current' \in SuccessReceipts \ (SuccessesOnDisk \cup {current})
        BY <2>1, <2>4, <3>2, <3>4 DEF OwnMark, Local
      <4>5. Fallback' \in {current, Settled}
        BY <3>1, <4>2, FallbackNext
      <4>6. QED
        BY <3>3, <4>1, <4>3, <4>4, <4>5, DatasetSteps
    <3>5. CASE pc[r] = "rollback"
      <4>1. /\ Tentative(r) /\ current = job[r].cand /\ job[r].cand # None
            /\ current' = job[r].prev
        BY <2>1, <3>2, <3>5 DEF Tentative, Knows, Life
      <4>2. Fallback = job[r].prev /\ job[r].prev # Settled
        BY <1>1, <2>1, <4>1, FallbackIs, RunAssumption DEF Jobs, Receipts
      <4>3. ~Tentative(r)'
        <5>1. Tentative(r)' => job'[r].cand = job[r].cand
          <6>1. Onward(r)
            BY <1>1, <1>3, StepOnward
          <6>2. QED
            BY <3>5, <6>1, OnwardIs DEF Tentative
        <5>2. QED
          BY <2>4, <4>1, <5>1 DEF Tentative
      <4>4. Fallback' = Settled
        BY <3>1, <4>3, FallbackNext
      <4>5. QED
        BY <3>3, <4>1, <4>2, <4>4, DatasetSteps
    <3>6. QED
      BY <3>2, <3>4, <3>5
  <2>5. QED
    BY <2>2, <2>3, <2>4
<1>4. QED
  BY <1>1, <1>2, <1>3 DEF Next

(* run_ingestion implements ActiveDataset: whatever the interleaving of    *)
(* the calls and wherever they fail, readers see one generation replaced   *)
(* by a new one only when it is archived, and withdrawn only by the call   *)
(* that activated it, to the one before.                                   *)
THEOREM DatasetImplemented ==
    ASSUME "power" \notin Faults
    PROVE  Spec => ImplementsDataset
<1>1. Init => NumberInv /\ Dataset!Init
  BY NumberInit, DatasetInit
<1>2. NumberInv /\ [Next]_vars => NumberInv'
  BY NumberStep
<1>3. NumberInv => LockInv
  BY DEF NumberInv, TrackInv
<1>4. NumberInv /\ LockInv' /\ [Next]_vars => [Dataset!Next]_(Dataset!vars)
  BY RefinementStep
<1>5. QED
  BY <1>1, <1>2, <1>3, <1>4, PTL DEF Spec, ImplementsDataset, Dataset!Spec
=============================================================================
