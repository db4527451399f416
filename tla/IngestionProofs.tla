--------------------------- MODULE IngestionProofs ---------------------------
(* Proofs about Ingestion: types, the lock, that what the active marker    *)
(* names is there, and that a result says what became of the marker.       *)
EXTENDS Ingestion, TLAPS

Contents == Raws \cup Norms \cup Receipts

(* What the stage of a call says about its local variables.                *)
Local(stage, j) ==
    /\ stage # "idle" => j.id \in AttemptIds
    /\ stage = "archive" => j.prev # None
    /\ stage \in {"raw", "normalize"} => j.raw \in Raws
    /\ stage \in {"normalize", "history"} => j.rawRef \in Raws
    /\ stage = "history" => j.normRef \in Norms
    /\ stage \in {"precommit", "commit", "validate", "finalize", "receipt"}
       => j.cand \in SuccessReceipts

Located == \A r \in Runners : Local(pc[r], job[r])

ControlOK == pc \in [Runners -> Stages] /\ job \in [Runners -> Jobs] /\ Located

LEMMA QuietTyped ==
    ASSUME StoreTypeOK, Quiet, Calm \/ \E e \in FaultKinds : Strike(e)
    PROVE  StoreTypeOK'
BY StoreAssumption DEF StoreTypeOK, Quiet, Calm, Strike

LEMMA InstallTyped ==
    ASSUME StoreTypeOK, NEW f \in Files, NEW c \in Contents, Install(f, c), Calm
    PROVE  StoreTypeOK'
<1>1. disk' \in [Files -> Raws \cup Norms \cup Receipts \cup {None}]
  BY DEF StoreTypeOK, Install, Contents
<1>2. volatile' \subseteq Files
  BY DEF StoreTypeOK, Install
<1>3. QED
  BY <1>1, <1>2 DEF StoreTypeOK, Install, Calm

LEMMA RaisesTyped ==
    ASSUME StoreTypeOK, NEW f \in Files, NEW c \in Contents,
           NEW e \in Stops, InstallRaises(f, c, e)
    PROVE  StoreTypeOK'
<1>1. CASE Collides(f, c, e)
  BY <1>1 DEF Collides, StoreTypeOK, Calm
<1>2. CASE FailsUnlinked(e)
  BY <1>2, StoreAssumption DEF FailsUnlinked, StoreTypeOK, Strike
<1>3. CASE FailsLinked(f, c, e)
  <2>1. disk' \in [Files -> Raws \cup Norms \cup Receipts \cup {None}]
    BY <1>3 DEF FailsLinked, StoreTypeOK, Contents
  <2>2. volatile' \subseteq Files /\ doubled' \subseteq Files
    BY <1>3 DEF FailsLinked, StoreTypeOK
  <2>3. faults' \in 0 .. MaxFaults
    BY <1>3, StoreAssumption DEF FailsLinked, StoreTypeOK, Strike
  <2>4. QED
    BY <1>3, <2>1, <2>2, <2>3 DEF FailsLinked, StoreTypeOK
<1>4. QED
  BY <1>1, <1>2, <1>3 DEF InstallRaises

LEMMA MarkerTyped ==
    ASSUME StoreTypeOK, NEW m \in SuccessReceipts \cup {None},
           \/ ReplaceMarker(m) /\ Calm
           \/ \E e \in Stops : ReplaceMarkerRaises(m, e)
    PROVE  StoreTypeOK'
BY StoreAssumption
   DEF ReplaceMarker, ReplaceMarkerRaises, StoreTypeOK, Calm, Strike

LEMMA GotoTyped ==
    ASSUME ControlOK, NEW r \in Runners, NEW s \in Stages, NEW j \in Jobs,
           Local(s, j), Goto(r, s, j)
    PROVE  ControlOK'
BY DEF ControlOK, Located, Goto

LEMMA NoJobTyped == NoJob \in Jobs /\ Local("idle", NoJob)
BY RunAssumption DEF NoJob, Jobs, Local, Results

LEMMA DiesTyped ==
    ASSUME ControlOK, NEW r \in Runners, Dies(r)
    PROVE  ControlOK'
BY NoJobTyped, GotoTyped DEF Dies, Stages

(* Records of calls with two fields changed.                               *)
LEMMA StageSet ==
    ASSUME NEW k \in Jobs, NEW s \in Protected \cup {"none"},
           NEW e \in {"none", "exception", "interrupt", "changed"}
    PROVE  [k EXCEPT !.stage = s, !.exc = e] \in Jobs
BY DEF Jobs

LEMMA FlagsSet ==
    ASSUME NEW k \in Jobs, NEW b \in BOOLEAN, NEW n \in BOOLEAN
    PROVE  /\ [k EXCEPT !.rbFailed = b, !.retain = n] \in Jobs
           /\ [k EXCEPT !.rbFailed = b, !.retain = n].id = k.id
<1>1. [k EXCEPT !.rbFailed = b] \in Jobs
  BY DEF Jobs
<1>2. [k EXCEPT !.rbFailed = b, !.retain = n]
      = [[k EXCEPT !.rbFailed = b] EXCEPT !.retain = n]
  OBVIOUS
<1>3. [k EXCEPT !.rbFailed = b, !.retain = n] \in Jobs
  BY <1>1, <1>2 DEF Jobs
<1>4. [k EXCEPT !.rbFailed = b, !.retain = n].id = k.id
  BY DEF Jobs
<1>5. QED
  BY <1>3, <1>4

LEMMA RaiseTyped ==
    ASSUME ControlOK, NEW r \in Runners, NEW e, pc[r] \in Protected, Raise(r, e)
    PROVE  ControlOK'
<1>1. CASE e = "kill"
  BY <1>1, DiesTyped DEF Raise
<1>2. CASE e # "kill"
  <2> DEFINE j == [job[r] EXCEPT !.stage = pc[r], !.exc = e]
  <2>1. e \in {"exception", "interrupt"} /\ Goto(r, "handle", j)
    BY <1>2 DEF Raise, Stops
  <2>2. j \in Jobs
    <3>1. job[r] \in Jobs
      BY DEF ControlOK
    <3>2. QED
      BY <2>1, <3>1, StageSet
  <2>3. Local("handle", j)
    BY DEF ControlOK, Located, Local, Protected, Jobs
  <2>4. QED
    BY <2>1, <2>2, <2>3, GotoTyped DEF Stages, Owning, Recovery
<1>3. QED
  BY <1>1, <1>2

LEMMA LeaveTyped ==
    ASSUME ControlOK, NEW r \in Runners, NEW o \in Results,
           pc[r] \in Owning, Leave(r, o)
    PROVE  ControlOK'
<1> DEFINE j == [job[r] EXCEPT !.result = o]
<1>1. j \in Jobs /\ j.id = job[r].id
  BY DEF ControlOK, Jobs
<1>2. Local("release", j)
  BY <1>1 DEF ControlOK, Located, Local, Owning, Preflight, Protected, Recovery
<1>3. QED
  BY <1>1, <1>2, GotoTyped DEF Leave, Stages, Owning

LEMMA LeaveRaisingTyped ==
    ASSUME ControlOK, NEW r \in Runners, NEW e, NEW o \in Results,
           pc[r] \in Owning, LeaveRaising(r, e, o)
    PROVE  ControlOK'
BY DiesTyped, LeaveTyped DEF LeaveRaising, Results

LEMMA FilesAre ==
    /\ \A x \in Raws : RawFile(x) \in Files /\ x \in Contents
    /\ \A y \in Norms : NormFile(y) \in Files /\ y \in Contents
    /\ \A i \in AttemptIds : ReceiptFile(i) \in Files /\ FailureFile(i) \in Files
BY DEF Files, Contents

LEMMA FailureTyped ==
    ASSUME NEW j \in Jobs, j.id \in AttemptIds
    PROVE  Failure(j) \in FailureReceipts /\ Failure(j) \in Contents
<1>1. /\ j.run \in Nat /\ j.rawRef \in Raws \cup {None}
      /\ j.normRef \in Norms \cup {None} /\ j.rbFailed \in BOOLEAN
      /\ j.prev \in SuccessReceipts \cup {None}
  BY RunAssumption DEF Jobs
<1>2. (IF j.prev = None THEN None ELSE j.prev.norm) \in Norms \cup {None}
  BY <1>1 DEF SuccessReceipts
<1>3. Failure(j) \in FailureReceipts
  BY <1>1, <1>2 DEF Failure, FailureReceipts
<1>4. QED
  BY <1>3 DEF Contents, Receipts

LEMMA SuccessTyped ==
    ASSUME NEW j \in Jobs, NEW now \in Nat, j.id \in AttemptIds,
           j.rawRef \in Raws, j.normRef \in Norms
    PROVE  Success(j, now) \in SuccessReceipts
<1>1. j.run \in Nat /\ j.prev \in SuccessReceipts \cup {None}
  BY RunAssumption DEF Jobs
<1>2. (IF j.prev = None THEN None ELSE j.prev.norm) \in Norms \cup {None}
  BY <1>1 DEF SuccessReceipts
<1>3. QED
  BY <1>1, <1>2 DEF Success, SuccessReceipts

-----------------------------------------------------------------------------
(* Types.                                                                  *)

TypeInv == TypeOK /\ Located

LEMMA TypeInvIs ==
    TypeInv <=> /\ StoreTypeOK /\ ControlOK
                /\ lock \in 0 .. MaxRuns /\ clock \in Nat /\ runs \in 0 .. MaxRuns
BY DEF TypeInv, TypeOK, ControlOK

LEMMA JobIs ==
    ASSUME ControlOK, NEW r \in Runners
    PROVE  pc[r] \in Stages /\ job[r] \in Jobs /\ Local(pc[r], job[r])
BY DEF ControlOK, Located

LEMMA TypeInit == Init => TypeInv
<1> SUFFICES ASSUME Init PROVE TypeInv
  OBVIOUS
<1>1. StoreTypeOK
  BY StoreAssumption DEF Init, StoreInit, StoreTypeOK
<1>2. ControlOK
  BY NoJobTyped DEF Init, ControlOK, Located, Stages
<1>3. QED
  BY <1>1, <1>2, TypeInvIs, RunAssumption DEF Init

LEMMA StartTyped ==
    ASSUME TypeInv, NEW r \in Runners, Start(r)
    PROVE  TypeInv'
<1>1. PICK i \in (IF ReuseIds THEN 1 .. runs' ELSE {runs'}) :
          Goto(r, "lock", [NoJob EXCEPT !.id = i, !.run = runs'])
  BY DEF Start
<1>2. runs' \in 1 .. MaxRuns /\ i \in AttemptIds
  BY RunAssumption DEF Start, TypeInv, TypeOK
<1> DEFINE j == [NoJob EXCEPT !.id = i, !.run = runs']
<1>3. j \in Jobs /\ j.id = i
  <2>1. runs' \in 0 .. MaxRuns
    BY <1>2, RunAssumption
  <2>2. QED
    BY <1>2, <2>1, NoJobTyped DEF Jobs
<1>4. ControlOK'
  BY <1>1, <1>2, <1>3, TypeInvIs, GotoTyped DEF Local, Stages
<1>5. StoreTypeOK'
  BY TypeInvIs, QuietTyped DEF Start
<1>6. QED
  BY <1>2, <1>4, <1>5 DEF Start, TypeInv, TypeOK, ControlOK

LEMMA LockTyped ==
    ASSUME TypeInv, NEW r \in Runners,
           AcquireLock(r) \/ AcquireFails(r) \/ ReleaseLock(r)
    PROVE  TypeInv'
<1>1. pc[r] # "idle" /\ job[r] \in Jobs /\ Local(pc[r], job[r])
  BY JobIs, TypeInvIs DEF AcquireLock, AcquireFails, ReleaseLock
<1>2. lock' \in 0 .. MaxRuns
  <2>1. lock \in 0 .. MaxRuns /\ job[r].run \in 0 .. MaxRuns /\ 0 \in 0 .. MaxRuns
    BY <1>1, RunAssumption DEF TypeInv, TypeOK, Jobs
  <2>2. QED
    BY <2>1 DEF AcquireLock, AcquireFails, ReleaseLock
<1>3. StoreTypeOK'
  BY TypeInvIs, QuietTyped
     DEF AcquireLock, AcquireFails, ReleaseLock, FaultKinds
<1>4. ControlOK'
  <2>1. Local("load", job[r])
    BY <1>1 DEF Local
  <2>2. CASE AcquireLock(r)
    BY <1>1, <2>1, <2>2, TypeInvIs, GotoTyped, DiesTyped
       DEF AcquireLock, Stages, Owning, Preflight
  <2>3. CASE AcquireFails(r) \/ ReleaseLock(r)
    BY <2>3, TypeInvIs, DiesTyped DEF AcquireFails, ReleaseLock
  <2>4. QED
    BY <2>2, <2>3
<1>5. QED
  <2>1. UNCHANGED <<clock, runs>>
    BY DEF AcquireLock, AcquireFails, ReleaseLock
  <2>2. QED
    BY <1>2, <1>3, <1>4, <2>1 DEF TypeInv, TypeOK, ControlOK

LEMMA FrameTyped ==
    ASSUME TypeInv, StoreTypeOK', ControlOK', UNCHANGED <<lock, clock, runs>>
    PROVE  TypeInv'
BY DEF TypeInv, TypeOK, ControlOK

LEMMA QuietStep ==
    ASSUME TypeInv, Quiet, Calm \/ \E e \in FaultKinds : Strike(e)
    PROVE  StoreTypeOK'
BY TypeInvIs, QuietTyped

LEMMA LoadTyped ==
    ASSUME TypeInv, NEW r \in Runners, LoadActive(r)
    PROVE  TypeInv'
<1> DEFINE j == [job[r] EXCEPT !.prev = current]
<1>1. job[r] \in Jobs /\ Local(pc[r], job[r]) /\ pc[r] = "load"
      /\ ControlOK /\ StoreTypeOK
  BY JobIs, TypeInvIs DEF LoadActive
<1>2. Local("own", job[r]) /\ Local("limit", job[r])
  BY <1>1 DEF Local
<1>3. ASSUME current # None, Goto(r, "archive", j) PROVE ControlOK'
  <2>1. current \in SuccessReceipts
    BY <1>1, <1>3 DEF StoreTypeOK
  <2>2. j \in Jobs /\ j.id = job[r].id /\ j.prev = current
    BY <1>1, <2>1 DEF Jobs
  <2>3. Local("archive", j)
    BY <1>1, <1>3, <2>2 DEF Local
  <2>4. QED
    BY <1>1, <1>3, <2>2, <2>3, GotoTyped DEF Stages, Owning, Preflight
<1>4. ASSUME Goto(r, "own", job[r]) \/ Goto(r, "limit", job[r]) PROVE ControlOK'
  BY <1>1, <1>2, <1>4, GotoTyped DEF Stages, Owning, Preflight
<1>5. ASSUME Leave(r, "raised") PROVE ControlOK'
  BY <1>1, <1>5, LeaveTyped DEF Owning, Preflight, Results
<1>6. ControlOK'
  BY <1>3, <1>4, <1>5 DEF LoadActive
<1>7. QED
  BY <1>6, QuietStep, FrameTyped DEF LoadActive

LEMMA ArchiveTyped ==
    ASSUME TypeInv, NEW r \in Runners, ArchiveActive(r)
    PROVE  TypeInv'
<1> DEFINE m == job[r].prev
           f == ReceiptFile(m.id)
           j == [job[r] EXCEPT !.prev = None]
<1>1. job[r] \in Jobs /\ Local(pc[r], job[r]) /\ pc[r] = "archive"
      /\ ControlOK /\ StoreTypeOK
  BY JobIs, TypeInvIs DEF ArchiveActive
<1>2. m \in SuccessReceipts /\ m \in Contents
  BY <1>1 DEF Local, Jobs, Contents, Receipts
<1>3. f \in Files
  BY <1>2, FilesAre DEF SuccessReceipts
<1>4. j \in Jobs /\ Local("limit", j) /\ Local("own", job[r])
  BY <1>1 DEF Local, Jobs
<1>5. CASE Install(f, m) /\ Goto(r, "own", job[r]) /\ Calm
  <2>1. StoreTypeOK'
    BY <1>1, <1>2, <1>3, <1>5, InstallTyped
  <2>2. ControlOK'
    BY <1>1, <1>4, <1>5, GotoTyped DEF Stages, Owning, Preflight
  <2>3. QED
    BY <2>1, <2>2, FrameTyped DEF ArchiveActive
<1>6. ASSUME NEW e \in Stops, InstallRaises(f, m, e), LeaveRaising(r, e, "raised")
      PROVE  TypeInv'
  <2>1. StoreTypeOK'
    BY <1>1, <1>2, <1>3, <1>6, RaisesTyped
  <2>2. ControlOK'
    BY <1>1, <1>6, LeaveRaisingTyped DEF Owning, Preflight, Results
  <2>3. QED
    BY <2>1, <2>2, FrameTyped DEF ArchiveActive
<1>7. CASE Goto(r, "limit", j) /\ Quiet /\ Calm
  <2>1. ControlOK'
    BY <1>1, <1>4, <1>7, GotoTyped DEF Stages, Owning, Preflight
  <2>2. QED
    BY <1>7, <2>1, QuietStep, FrameTyped DEF ArchiveActive
<1>8. QED
  BY <1>5, <1>6, <1>7 DEF ArchiveActive

LEMMA PreflightTyped ==
    ASSUME TypeInv, NEW r \in Runners,
           CheckOwnReceipt(r) \/ PreflightInterrupted(r)
    PROVE  TypeInv'
<1>1. job[r] \in Jobs /\ Local(pc[r], job[r]) /\ pc[r] \in Preflight /\ ControlOK
  BY JobIs, TypeInvIs DEF CheckOwnReceipt, PreflightInterrupted, Preflight
<1>2. Local("fetch", job[r])
  BY <1>1 DEF Local, Preflight
<1>3. ControlOK'
  BY <1>1, <1>2, GotoTyped, LeaveTyped, LeaveRaisingTyped
     DEF CheckOwnReceipt, PreflightInterrupted, Stages, Owning, Protected, Results
<1>4. QED
  BY <1>3, QuietStep, FrameTyped
     DEF CheckOwnReceipt, PreflightInterrupted, FaultKinds

LEMMA RecordLimitTyped ==
    ASSUME TypeInv, NEW r \in Runners, RecordLimit(r)
    PROVE  TypeInv'
<1> DEFINE f == ReceiptFile(job[r].id)
           c == Failure(job[r])
<1>1. job[r] \in Jobs /\ job[r].id \in AttemptIds /\ pc[r] \in Owning
      /\ ControlOK /\ StoreTypeOK
  BY JobIs, TypeInvIs DEF RecordLimit, Local, Owning, Preflight
<1>2. f \in Files /\ c \in Contents
  BY <1>1, FilesAre, FailureTyped
<1>3. ControlOK'
  BY <1>1, LeaveTyped, LeaveRaisingTyped DEF RecordLimit, Results
<1>4. StoreTypeOK'
  BY <1>1, <1>2, InstallTyped, RaisesTyped, QuietTyped DEF RecordLimit
<1>5. QED
  BY <1>3, <1>4, FrameTyped DEF RecordLimit

LEMMA FetchTyped ==
    ASSUME TypeInv, NEW r \in Runners, Fetch(r)
    PROVE  TypeInv'
<1>1. job[r] \in Jobs /\ Local(pc[r], job[r]) /\ pc[r] = "fetch" /\ ControlOK
  BY JobIs, TypeInvIs DEF Fetch
<1>2. PICK x \in Raws : Goto(r, "raw", [job[r] EXCEPT !.raw = x])
  BY DEF Fetch
<1> DEFINE j == [job[r] EXCEPT !.raw = x]
<1>3. j \in Jobs /\ j.id = job[r].id /\ j.raw = x
  BY <1>1 DEF Jobs
<1>4. Local("raw", j)
  BY <1>1, <1>3 DEF Local
<1>5. ControlOK'
  BY <1>1, <1>2, <1>3, <1>4, GotoTyped DEF Stages, Owning, Protected
<1>6. QED
  BY <1>5, QuietStep, FrameTyped DEF Fetch

LEMMA PreserveRawTyped ==
    ASSUME TypeInv, NEW r \in Runners, PreserveRaw(r)
    PROVE  TypeInv'
<1> DEFINE x == job[r].raw
           j == [job[r] EXCEPT !.rawRef = x]
<1>1. job[r] \in Jobs /\ Local(pc[r], job[r]) /\ pc[r] = "raw"
      /\ ControlOK /\ StoreTypeOK
  BY JobIs, TypeInvIs DEF PreserveRaw
<1>2. x \in Raws /\ RawFile(x) \in Files /\ x \in Contents
  BY <1>1, FilesAre DEF Local
<1>3. j \in Jobs /\ j.id = job[r].id /\ j.raw = x /\ j.rawRef = x
  BY <1>1, <1>2 DEF Jobs
<1>4. Local("normalize", j)
  BY <1>1, <1>2, <1>3 DEF Local
<1>5. CASE Install(RawFile(x), x) /\ Goto(r, "normalize", j) /\ Calm
  <2>1. StoreTypeOK'
    BY <1>1, <1>2, <1>5, InstallTyped
  <2>2. ControlOK'
    BY <1>1, <1>3, <1>4, <1>5, GotoTyped DEF Stages, Owning, Protected
  <2>3. QED
    BY <2>1, <2>2, FrameTyped DEF PreserveRaw
<1>6. ASSUME NEW e \in Stops, InstallRaises(RawFile(x), x, e), Raise(r, e)
      PROVE  TypeInv'
  <2>1. StoreTypeOK'
    BY <1>1, <1>2, <1>6, RaisesTyped
  <2>2. ControlOK'
    BY <1>1, <1>6, RaiseTyped DEF Protected
  <2>3. QED
    BY <2>1, <2>2, FrameTyped DEF PreserveRaw
<1>7. QED
  BY <1>5, <1>6 DEF PreserveRaw

LEMMA PreserveNormalizedTyped ==
    ASSUME TypeInv, NEW r \in Runners, PreserveNormalized(r)
    PROVE  TypeInv'
<1> DEFINE y == Normalize[job[r].raw]
           j == [job[r] EXCEPT !.normRef = y]
<1>1. job[r] \in Jobs /\ Local(pc[r], job[r]) /\ pc[r] = "normalize"
      /\ ControlOK /\ StoreTypeOK
  BY JobIs, TypeInvIs DEF PreserveNormalized
<1>2. y \in Norms /\ NormFile(y) \in Files /\ y \in Contents
  BY <1>1, FilesAre, StoreAssumption DEF Local
<1>3. j \in Jobs /\ j.id = job[r].id /\ j.rawRef = job[r].rawRef /\ j.normRef = y
  BY <1>1, <1>2 DEF Jobs
<1>4. Local("history", j)
  BY <1>1, <1>2, <1>3 DEF Local
<1>5. CASE Install(NormFile(y), y) /\ Goto(r, "history", j) /\ Calm
  <2>1. StoreTypeOK'
    BY <1>1, <1>2, <1>5, InstallTyped
  <2>2. ControlOK'
    BY <1>1, <1>3, <1>4, <1>5, GotoTyped DEF Stages, Owning, Protected
  <2>3. QED
    BY <2>1, <2>2, FrameTyped DEF PreserveNormalized
<1>6. ASSUME NEW e \in Stops, InstallRaises(NormFile(y), y, e), Raise(r, e)
      PROVE  TypeInv'
  <2>1. StoreTypeOK'
    BY <1>1, <1>2, <1>6, RaisesTyped
  <2>2. ControlOK'
    BY <1>1, <1>6, RaiseTyped DEF Protected
  <2>3. QED
    BY <2>1, <2>2, FrameTyped DEF PreserveNormalized
<1>7. QED
  BY <1>5, <1>6 DEF PreserveNormalized

LEMMA BuildMarkerTyped ==
    ASSUME TypeInv, NEW r \in Runners, BuildMarker(r)
    PROVE  TypeInv'
<1> DEFINE m == Success(job[r], clock')
           j == [job[r] EXCEPT !.cand = m]
<1>1. job[r] \in Jobs /\ Local(pc[r], job[r]) /\ pc[r] = "history" /\ ControlOK
  BY JobIs, TypeInvIs DEF BuildMarker
<1>2. clock' \in Nat
  BY TypeInvIs, RunAssumption DEF BuildMarker
<1>3. m \in SuccessReceipts
  BY <1>1, <1>2, SuccessTyped DEF Local
<1>4. j \in Jobs /\ j.id = job[r].id /\ j.cand = m
  BY <1>1, <1>3 DEF Jobs
<1>5. Local("precommit", j)
  BY <1>1, <1>3, <1>4 DEF Local
<1>6. ControlOK'
  BY <1>1, <1>4, <1>5, GotoTyped DEF BuildMarker, Stages, Owning, Protected
<1>7. StoreTypeOK'
  BY QuietStep DEF BuildMarker
<1>8. QED
  BY <1>2, <1>6, <1>7 DEF BuildMarker, TypeInv, TypeOK, ControlOK

LEMMA PrecommitTyped ==
    ASSUME TypeInv, NEW r \in Runners, Precommit(r)
    PROVE  TypeInv'
<1> DEFINE j == [job[r] EXCEPT !.stage = "precommit", !.exc = "changed"]
<1>1. job[r] \in Jobs /\ Local(pc[r], job[r]) /\ pc[r] = "precommit" /\ ControlOK
  BY JobIs, TypeInvIs DEF Precommit
<1>2. Local("commit", job[r]) /\ j \in Jobs /\ Local("handle", j)
  <2>1. Local("commit", job[r])
    BY <1>1 DEF Local
  <2>2. j \in Jobs
    BY <1>1, StageSet DEF Protected
  <2>3. Local("handle", j)
    BY <1>1 DEF Local, Jobs
  <2>4. QED
    BY <2>1, <2>2, <2>3
<1>3. ControlOK'
  <2>1. ASSUME Goto(r, "commit", job[r]) PROVE ControlOK'
    BY <1>1, <1>2, <2>1, GotoTyped DEF Stages, Owning, Protected
  <2>2. ASSUME Goto(r, "handle", j) PROVE ControlOK'
    BY <1>1, <1>2, <2>2, GotoTyped DEF Stages, Owning, Recovery
  <2>3. ASSUME Raise(r, "exception") PROVE ControlOK'
    BY <1>1, <2>3, RaiseTyped DEF Protected
  <2>4. QED
    BY <2>1, <2>2, <2>3 DEF Precommit
<1>4. QED
  BY <1>3, QuietStep, FrameTyped DEF Precommit, FaultKinds

LEMMA CommitTyped ==
    ASSUME TypeInv, NEW r \in Runners, Commit(r)
    PROVE  TypeInv'
<1>1. job[r] \in Jobs /\ Local(pc[r], job[r]) /\ pc[r] = "commit"
      /\ ControlOK /\ StoreTypeOK
  BY JobIs, TypeInvIs DEF Commit
<1>2. job[r].cand \in SuccessReceipts /\ Local("validate", job[r])
  BY <1>1 DEF Local
<1>3. StoreTypeOK'
  BY <1>1, <1>2, MarkerTyped DEF Commit
<1>4. ControlOK'
  BY <1>1, <1>2, GotoTyped, RaiseTyped DEF Commit, Stages, Owning, Protected
<1>5. QED
  BY <1>3, <1>4, FrameTyped DEF Commit

LEMMA ValidateTyped ==
    ASSUME TypeInv, NEW r \in Runners,
           ValidateActivated(r) \/ FinalizationAllowed(r)
           \/ CallbackRaises(r) \/ StageInterrupted(r)
    PROVE  TypeInv'
<1>1. job[r] \in Jobs /\ Local(pc[r], job[r]) /\ ControlOK /\ pc[r] \in Protected
  BY JobIs, TypeInvIs DEF ValidateActivated, FinalizationAllowed,
     CallbackRaises, StageInterrupted, Protected
<1>2. CASE ValidateActivated(r) \/ FinalizationAllowed(r)
  <2>1. Local("finalize", job[r]) /\ Local("receipt", job[r])
    BY <1>1, <1>2 DEF ValidateActivated, FinalizationAllowed, Local
  <2>2. ControlOK'
    BY <1>1, <1>2, <2>1, GotoTyped, RaiseTyped
       DEF ValidateActivated, FinalizationAllowed, Stages, Owning, Protected
  <2>3. QED
    BY <1>2, <2>2, QuietStep, FrameTyped
       DEF ValidateActivated, FinalizationAllowed
<1>3. CASE CallbackRaises(r) \/ StageInterrupted(r)
  <2>1. ControlOK'
    BY <1>1, <1>3, RaiseTyped DEF CallbackRaises, StageInterrupted
  <2>2. QED
    BY <1>3, <2>1, QuietStep, FrameTyped
       DEF CallbackRaises, StageInterrupted, FaultKinds
<1>4. QED
  BY <1>2, <1>3

LEMMA WriteReceiptTyped ==
    ASSUME TypeInv, NEW r \in Runners, WriteReceipt(r)
    PROVE  TypeInv'
<1>1. job[r] \in Jobs /\ Local(pc[r], job[r]) /\ pc[r] = "receipt"
      /\ ControlOK /\ StoreTypeOK
  BY JobIs, TypeInvIs DEF WriteReceipt
<1>2. ReceiptFile(job[r].id) \in Files /\ job[r].cand \in Contents
  BY <1>1, FilesAre DEF Local, Contents, Receipts
<1>3. StoreTypeOK'
  BY <1>1, <1>2, InstallTyped, RaisesTyped DEF WriteReceipt
<1>4. ControlOK'
  BY <1>1, LeaveTyped, RaiseTyped DEF WriteReceipt, Owning, Protected, Results
<1>5. QED
  BY <1>3, <1>4, FrameTyped DEF WriteReceipt

(* After the handler has started, only the attempt id is still relied on.  *)
LEMMA RecoveryTyped ==
    ASSUME ControlOK, NEW r \in Runners, pc[r] \in Recovery,
           NEW s \in Recovery \cup {"release"}, NEW j \in Jobs,
           j.id = job[r].id, Goto(r, s, j)
    PROVE  ControlOK'
<1>1. Local(s, j)
  BY DEF ControlOK, Located, Local, Recovery
<1>2. QED
  BY <1>1, GotoTyped DEF Stages, Owning

LEMMA HandleTyped ==
    ASSUME TypeInv, NEW r \in Runners, HandleChanged(r) \/ HandleAmbiguous(r)
    PROVE  TypeInv'
<1>1. job[r] \in Jobs /\ pc[r] \in Recovery /\ ControlOK
  BY JobIs, TypeInvIs DEF HandleChanged, HandleAmbiguous, Recovery
<1>2. CASE HandleChanged(r)
  <2> DEFINE j == [job[r] EXCEPT !.rawRef = None, !.normRef = None]
  <2>1. j \in Jobs /\ j.id = job[r].id
    BY <1>1 DEF Jobs
  <2>2. ControlOK'
    BY <1>1, <1>2, <2>1, RecoveryTyped DEF HandleChanged, Recovery
  <2>3. QED
    BY <1>2, <2>2, QuietStep, FrameTyped DEF HandleChanged
<1>3. CASE HandleAmbiguous(r)
  <2> DEFINE o == IF job[r].exc = "interrupt" THEN "interrupted" ELSE "undetermined"
             j == [job[r] EXCEPT !.retain = TRUE, !.result = o]
  <2>1. o \in Results
    BY DEF Results
  <2>2. j \in Jobs /\ j.id = job[r].id
    <3> HIDE DEF o
    <3>1. TRUE \in BOOLEAN
      OBVIOUS
    <3>2. QED
      BY <1>1, <2>1, <3>1 DEF Jobs
  <2>3. Goto(r, "release", j)
    BY <1>3 DEF HandleAmbiguous
  <2>4. ControlOK'
    BY <1>1, <2>2, <2>3, RecoveryTyped
  <2>5. QED
    BY <1>3, <2>4, QuietStep, FrameTyped DEF HandleAmbiguous, FaultKinds
<1>4. QED
  BY <1>2, <1>3

LEMMA HandleKnownTyped ==
    ASSUME TypeInv, NEW r \in Runners, HandleKnown(r)
    PROVE  TypeInv'
<1> DEFINE state == MarkerState(job[r], current)
           after(j) == IF j.exc = "interrupt"
                       THEN Goto(r, "release", [j EXCEPT !.result = "interrupted"])
                       ELSE Goto(r, IF state = "candidate" THEN "rollback"
                                    ELSE "failure", j)
           unreferenced == [job[r] EXCEPT !.rawRef = None, !.normRef = None]
<1>1. job[r] \in Jobs /\ pc[r] \in Recovery /\ ControlOK
  BY JobIs, TypeInvIs DEF HandleKnown, Recovery
<1>2. ASSUME NEW j \in Jobs, j.id = job[r].id, after(j) PROVE ControlOK'
  <2> DEFINE k == [j EXCEPT !.result = "interrupted"]
  <2>1. k \in Jobs /\ k.id = job[r].id
    BY <1>2 DEF Jobs, Results
  <2>2. CASE Goto(r, "release", k)
    BY <1>1, <2>1, <2>2, RecoveryTyped
  <2>3. ASSUME NEW s \in {"rollback", "failure"}, Goto(r, s, j) PROVE ControlOK'
    BY <1>1, <1>2, <2>3, RecoveryTyped DEF Recovery
  <2>4. QED
    BY <1>2, <2>2, <2>3
<1>3. unreferenced \in Jobs /\ unreferenced.id = job[r].id
  BY <1>1 DEF Jobs
<1>4. after(job[r]) \/ after(unreferenced)
  BY DEF HandleKnown
<1>5. ControlOK'
  <2>1. CASE after(job[r])
    <3> HIDE DEF after
    <3> QED BY <1>1, <1>2, <2>1
  <2>2. CASE after(unreferenced)
    <3> HIDE DEF after
    <3> QED BY <1>2, <1>3, <2>2
  <2>3. QED
    BY <1>4, <2>1, <2>2
<1>6. QED
  BY <1>5, QuietStep, FrameTyped DEF HandleKnown, FaultKinds

LEMMA RollbackTyped ==
    ASSUME TypeInv, NEW r \in Runners, Rollback(r)
    PROVE  TypeInv'
<1>1. job[r] \in Jobs /\ pc[r] \in Recovery /\ ControlOK /\ StoreTypeOK
  BY JobIs, TypeInvIs DEF Rollback, Recovery
<1>2. StoreTypeOK'
  BY <1>1, MarkerTyped DEF Rollback, Jobs
<1>3. ControlOK'
  BY <1>1, RecoveryTyped DEF Rollback, Recovery
<1>4. QED
  BY <1>2, <1>3, FrameTyped DEF Rollback

LEMMA RollbackRaisesTyped ==
    ASSUME TypeInv, NEW r \in Runners, RollbackRaises(r)
    PROVE  TypeInv'
<1>1. job[r] \in Jobs /\ pc[r] \in Recovery /\ ControlOK /\ StoreTypeOK
  BY JobIs, TypeInvIs DEF RollbackRaises, Recovery
<1>2. PICK e \in Stops :
          /\ ReplaceMarkerRaises(job[r].prev, e)
          /\ IF e = "kill" THEN Dies(r)
             ELSE \E seen \in {MarkerState(job[r], current'), "ambiguous"} :
                LET j == [job[r] EXCEPT !.rbFailed = seen = "candidate",
                                        !.retain = seen # "previous"]
                IN IF seen = "ambiguous"
                   THEN Goto(r, "release", [j EXCEPT !.result = "undetermined"])
                   ELSE IF e = "interrupt"
                   THEN Goto(r, "release", [j EXCEPT !.result = "interrupted"])
                   ELSE Goto(r, "failure", j)
  BY DEF RollbackRaises
<1>3. StoreTypeOK'
  BY <1>1, <1>2, MarkerTyped DEF Jobs
<1>4. ControlOK'
  <2>1. CASE e = "kill"
    BY <1>1, <1>2, <2>1, DiesTyped
  <2>2. CASE e # "kill"
    <3>1. PICK seen \in {MarkerState(job[r], current'), "ambiguous"} :
             LET j == [job[r] EXCEPT !.rbFailed = seen = "candidate",
                                     !.retain = seen # "previous"]
             IN IF seen = "ambiguous"
                THEN Goto(r, "release", [j EXCEPT !.result = "undetermined"])
                ELSE IF e = "interrupt"
                THEN Goto(r, "release", [j EXCEPT !.result = "interrupted"])
                ELSE Goto(r, "failure", j)
      BY <1>2, <2>2
    <3> DEFINE b == seen = "candidate"
               n == seen # "previous"
               j == [job[r] EXCEPT !.rbFailed = b, !.retain = n]
    <3>2. b \in BOOLEAN /\ n \in BOOLEAN
      OBVIOUS
    <3>3. j \in Jobs /\ j.id = job[r].id
      <4> HIDE DEF b, n
      <4> QED BY <1>1, <3>2, FlagsSet
    <3>4. \A o \in Results :
             [j EXCEPT !.result = o] \in Jobs /\ [j EXCEPT !.result = o].id = job[r].id
      <4> HIDE DEF j
      <4> QED BY <3>3 DEF Jobs
    <3>5. \/ Goto(r, "release", [j EXCEPT !.result = "undetermined"])
          \/ Goto(r, "release", [j EXCEPT !.result = "interrupted"])
          \/ Goto(r, "failure", j)
      BY <3>1
    <3> HIDE DEF j
    <3>6. QED
      BY <1>1, <3>3, <3>4, <3>5, RecoveryTyped DEF Recovery, Results
  <2>3. QED
    BY <2>1, <2>2
<1>5. QED
  BY <1>3, <1>4, FrameTyped DEF RollbackRaises

LEMMA RecordFailureTyped ==
    ASSUME TypeInv, NEW r \in Runners, RecordFailure(r)
    PROVE  TypeInv'
<1> DEFINE f == IF job[r].rbFailed THEN FailureFile(job[r].id)
                ELSE ReceiptFile(job[r].id)
           c == Failure(job[r])
<1>1. job[r] \in Jobs /\ job[r].id \in AttemptIds /\ pc[r] \in Owning
      /\ ControlOK /\ StoreTypeOK
  BY JobIs, TypeInvIs DEF RecordFailure, Local, Owning, Recovery
<1>2. f \in Files /\ c \in Contents
  BY <1>1, FilesAre, FailureTyped
<1>3. ControlOK'
  BY <1>1, LeaveTyped, LeaveRaisingTyped DEF RecordFailure, Results
<1>4. \/ Install(f, c) /\ Calm
      \/ \E e \in Stops : InstallRaises(f, c, e)
      \/ Quiet /\ Calm
  BY DEF RecordFailure
<1>5. StoreTypeOK'
  <2> HIDE DEF f, c
  <2> QED BY <1>1, <1>2, <1>4, InstallTyped, RaisesTyped, QuietTyped
<1>6. QED
  BY <1>3, <1>5, FrameTyped DEF RecordFailure

LEMMA InterruptedTyped ==
    ASSUME TypeInv, NEW r \in Runners, HandlerEscapes(r) \/ InterruptedUnguarded(r) \/ Kill(r)
    PROVE  TypeInv'
<1>1. ControlOK'
  BY TypeInvIs, LeaveTyped, DiesTyped
     DEF HandlerEscapes, InterruptedUnguarded, Kill, Owning, Recovery, Results
<1>2. QED
  BY <1>1, QuietStep, FrameTyped
     DEF HandlerEscapes, InterruptedUnguarded, Kill, FaultKinds

LEMMA PowerLossTyped ==
    ASSUME TypeInv, PowerLoss
    PROVE  TypeInv'
<1>1. StoreTypeOK /\ ControlOK
  BY TypeInvIs
<1>2. ControlOK'
  BY <1>1, NoJobTyped DEF PowerLoss, ControlOK, Located, Stages
<1>3. PICK lost \in SUBSET volatile :
          /\ disk' = [f \in Files |-> IF f \in lost THEN None ELSE disk[f]]
          /\ doubled' \in SUBSET ((doubled \cup unlinked) \ lost)
  BY DEF PowerLoss, LosePower
<1>4. disk' \in [Files -> Raws \cup Norms \cup Receipts \cup {None}]
  BY <1>1, <1>3 DEF StoreTypeOK
<1>5. faults' \in 0 .. MaxFaults
  BY <1>1, StoreAssumption DEF PowerLoss, LosePower, Strike, StoreTypeOK
<1>6. StoreTypeOK'
  BY <1>1, <1>3, <1>4, <1>5 DEF PowerLoss, LosePower, StoreTypeOK
<1>7. QED
  BY <1>2, <1>6, FrameTyped DEF PowerLoss

LEMMA ClearLockTyped ==
    ASSUME TypeInv, ClearLock
    PROVE  TypeInv'
<1>1. StoreTypeOK'
  BY QuietStep DEF ClearLock
<1>2. 0 \in 0 .. MaxRuns
  BY RunAssumption
<1>3. QED
  BY <1>1, <1>2 DEF ClearLock, TypeInv, TypeOK, Located

LEMMA StutterTyped ==
    ASSUME TypeInv, UNCHANGED vars
    PROVE  TypeInv'
BY DEF TypeInv, TypeOK, StoreTypeOK, Located, vars, storeVars

LEMMA TypeStep == TypeInv /\ [Next]_vars => TypeInv'
<1> SUFFICES ASSUME TypeInv, [Next]_vars PROVE TypeInv'
  OBVIOUS
<1>1. ASSUME NEW r \in Runners, Start(r) \/ Step(r) \/ Kill(r) PROVE TypeInv'
  BY <1>1, StartTyped, LockTyped, LoadTyped, ArchiveTyped, PreflightTyped,
     RecordLimitTyped, FetchTyped, PreserveRawTyped, PreserveNormalizedTyped,
     BuildMarkerTyped, PrecommitTyped, CommitTyped, ValidateTyped,
     WriteReceiptTyped, HandleTyped, HandleKnownTyped, RollbackTyped,
     RollbackRaisesTyped, RecordFailureTyped, InterruptedTyped
     DEF Step
<1>2. QED
  BY <1>1, PowerLossTyped, ClearLockTyped, StutterTyped DEF Next

(* Every variable keeps a value of its kind, for any number of runners,    *)
(* runs, payloads and failures: whatever raises or dies where, only a      *)
(* complete success receipt is ever in current.json.                       *)
THEOREM TypeCorrect == Spec => []TypeOK
<1>1. TypeInv => TypeOK
  BY DEF TypeInv
<1>2. QED
  BY <1>1, TypeInit, TypeStep, PTL DEF Spec

-----------------------------------------------------------------------------
(* The lock.  Every run has a serial number of its own, the lock directory *)
(* carries the number of the run that made it, and a number is never used  *)
(* twice: what keeps a runner out of a lock that was cleared and taken     *)
(* again.                                                                  *)

Serial ==
    /\ lock <= runs
    /\ \A r \in Runners : pc[r] # "idle" => job[r].run \in 1 .. runs
    /\ \A r, s \in Runners :
          pc[r] # "idle" /\ pc[s] # "idle" /\ job[r].run = job[s].run => r = s
    /\ \A r \in Runners : Owns(r) => lock = job[r].run

LockInv == TypeInv /\ Serial

(* A step of a runner that works under the lock.                           *)
Advances(r) ==
    /\ Owns(r)
    /\ UNCHANGED <<lock, runs>>
    /\ \A s \in Runners \ {r} : pc'[s] = pc[s] /\ job'[s] = job[s]
    /\ \/ pc'[r] = "idle"
       \/ pc'[r] \in Owning /\ job'[r].run = job[r].run

LEMMA GotoAdvances ==
    ASSUME ControlOK, NEW r \in Runners, Owns(r), UNCHANGED <<lock, runs>>,
           NEW s \in Owning, NEW j, j.run = job[r].run, Goto(r, s, j)
    PROVE  Advances(r)
BY DEF ControlOK, Goto, Advances

LEMMA DiesAdvances ==
    ASSUME ControlOK, NEW r \in Runners, Owns(r), UNCHANGED <<lock, runs>>, Dies(r)
    PROVE  Advances(r)
<1>1. pc'[r] = "idle"
  BY DEF ControlOK, Dies, Goto
<1>2. \A s \in Runners \ {r} : pc'[s] = pc[s] /\ job'[s] = job[s]
  BY DEF ControlOK, Dies, Goto
<1>3. QED
  BY <1>1, <1>2 DEF Advances

LEMMA RaiseAdvances ==
    ASSUME ControlOK, NEW r \in Runners, Owns(r), UNCHANGED <<lock, runs>>,
           NEW e, Raise(r, e)
    PROVE  Advances(r)
<1> DEFINE j == [job[r] EXCEPT !.stage = pc[r], !.exc = e]
<1>1. j.run = job[r].run
  BY DEF ControlOK, Jobs
<1> HIDE DEF j
<1>2. ASSUME Goto(r, "handle", j) PROVE Advances(r)
  BY <1>1, <1>2, GotoAdvances DEF Owning, Recovery
<1>3. QED
  BY <1>2, DiesAdvances DEF Raise, j

LEMMA LeaveAdvances ==
    ASSUME ControlOK, NEW r \in Runners, Owns(r), UNCHANGED <<lock, runs>>,
           NEW o, Leave(r, o)
    PROVE  Advances(r)
<1> DEFINE j == [job[r] EXCEPT !.result = o]
<1>1. j.run = job[r].run
  BY DEF ControlOK, Jobs
<1>2. QED
  BY <1>1, GotoAdvances DEF Leave, Owning

LEMMA LeaveRaisingAdvances ==
    ASSUME ControlOK, NEW r \in Runners, Owns(r), UNCHANGED <<lock, runs>>,
           NEW e, NEW o, LeaveRaising(r, e, o)
    PROVE  Advances(r)
BY DiesAdvances, LeaveAdvances DEF LeaveRaising

LEMMA PreflightAdvances ==
    ASSUME TypeInv, NEW r \in Runners,
           \/ LoadActive(r) \/ ArchiveActive(r) \/ CheckOwnReceipt(r)
           \/ RecordLimit(r) \/ PreflightInterrupted(r)
           \/ InterruptedUnguarded(r)
    PROVE  Advances(r)
<1>1. job[r] \in Jobs /\ ControlOK /\ Owns(r) /\ UNCHANGED <<lock, runs>>
  BY JobIs, TypeInvIs DEF LoadActive, ArchiveActive, CheckOwnReceipt,
     RecordLimit, PreflightInterrupted, InterruptedUnguarded, Owns, Owning,
     Preflight, Protected
<1>2. /\ [job[r] EXCEPT !.prev = current].run = job[r].run
      /\ [job[r] EXCEPT !.prev = None].run = job[r].run
  BY <1>1 DEF Jobs
<1>3. CASE LoadActive(r)
  BY <1>1, <1>2, <1>3, GotoAdvances, LeaveAdvances
     DEF LoadActive, Owning, Preflight
<1>4. CASE ArchiveActive(r)
  BY <1>1, <1>2, <1>4, GotoAdvances, LeaveRaisingAdvances
     DEF ArchiveActive, Owning, Preflight
<1>5. CASE CheckOwnReceipt(r)
  BY <1>1, <1>5, GotoAdvances, LeaveAdvances
     DEF CheckOwnReceipt, Owning, Protected
<1>6. CASE RecordLimit(r) \/ PreflightInterrupted(r) \/ InterruptedUnguarded(r)
  BY <1>1, <1>6, DiesAdvances, LeaveAdvances, LeaveRaisingAdvances
     DEF RecordLimit, PreflightInterrupted, InterruptedUnguarded
<1>7. QED
  BY <1>3, <1>4, <1>5, <1>6

LEMMA StageAdvances ==
    ASSUME TypeInv, NEW r \in Runners,
           \/ Fetch(r) \/ PreserveRaw(r) \/ PreserveNormalized(r)
           \/ BuildMarker(r) \/ Precommit(r) \/ Commit(r)
           \/ ValidateActivated(r) \/ FinalizationAllowed(r) \/ WriteReceipt(r)
           \/ CallbackRaises(r) \/ StageInterrupted(r)
    PROVE  Advances(r)
<1>1. job[r] \in Jobs /\ ControlOK /\ Owns(r) /\ UNCHANGED <<lock, runs>>
  BY JobIs, TypeInvIs DEF Fetch, PreserveRaw, PreserveNormalized, BuildMarker,
     Precommit, Commit, ValidateActivated, FinalizationAllowed, WriteReceipt,
     CallbackRaises, StageInterrupted, Owns, Owning, Protected
<1>2. ASSUME NEW v
      PROVE  /\ [job[r] EXCEPT !.raw = v].run = job[r].run
             /\ [job[r] EXCEPT !.rawRef = v].run = job[r].run
             /\ [job[r] EXCEPT !.normRef = v].run = job[r].run
             /\ [job[r] EXCEPT !.cand = v].run = job[r].run
             /\ [job[r] EXCEPT !.stage = "precommit", !.exc = "changed"].run
                = job[r].run
  BY <1>1 DEF Jobs
<1>3. CASE Fetch(r) \/ PreserveRaw(r)
  BY <1>1, <1>2, <1>3, GotoAdvances, RaiseAdvances
     DEF Fetch, PreserveRaw, Owning, Protected
<1>4. CASE PreserveNormalized(r) \/ BuildMarker(r)
  BY <1>1, <1>2, <1>4, GotoAdvances, RaiseAdvances
     DEF PreserveNormalized, BuildMarker, Owning, Protected
<1>5. CASE Precommit(r) \/ Commit(r)
  BY <1>1, <1>2, <1>5, GotoAdvances, RaiseAdvances
     DEF Precommit, Commit, Owning, Protected, Recovery
<1>6. CASE ValidateActivated(r) \/ FinalizationAllowed(r)
  BY <1>1, <1>6, GotoAdvances, RaiseAdvances
     DEF ValidateActivated, FinalizationAllowed, Owning, Protected
<1>7. CASE WriteReceipt(r) \/ CallbackRaises(r) \/ StageInterrupted(r)
  BY <1>1, <1>7, LeaveAdvances, RaiseAdvances
     DEF WriteReceipt, CallbackRaises, StageInterrupted
<1>8. QED
  BY <1>3, <1>4, <1>5, <1>6, <1>7

LEMMA HandlerAdvances ==
    ASSUME TypeInv, NEW r \in Runners,
           \/ HandleChanged(r) \/ HandleAmbiguous(r) \/ HandleKnown(r)
           \/ Rollback(r) \/ RollbackRaises(r) \/ RecordFailure(r)
           \/ HandlerEscapes(r)
    PROVE  Advances(r)
<1>1. job[r] \in Jobs /\ ControlOK /\ Owns(r) /\ UNCHANGED <<lock, runs>>
  BY JobIs, TypeInvIs DEF HandleChanged, HandleAmbiguous, HandleKnown, Rollback,
     RollbackRaises, RecordFailure, HandlerEscapes, Owns, Owning, Recovery
<1>2. ASSUME NEW j \in Jobs, j.run = job[r].run, NEW o
      PROVE  /\ [j EXCEPT !.result = o].run = job[r].run
             /\ [j EXCEPT !.retain = TRUE, !.result = o].run = job[r].run
  BY <1>2 DEF Jobs
<1> DEFINE unreferenced == [job[r] EXCEPT !.rawRef = None, !.normRef = None]
<1>3. unreferenced \in Jobs /\ unreferenced.run = job[r].run
  BY <1>1 DEF Jobs
<1>4. CASE HandleChanged(r)
  BY <1>1, <1>3, <1>4, GotoAdvances DEF HandleChanged, Owning, Recovery
<1>5. CASE HandleAmbiguous(r)
  BY <1>1, <1>2, <1>5, GotoAdvances DEF HandleAmbiguous, Owning
<1>6. CASE HandleKnown(r)
  <2> DEFINE state == MarkerState(job[r], current)
             after(j) ==
                IF j.exc = "interrupt"
                THEN Goto(r, "release", [j EXCEPT !.result = "interrupted"])
                ELSE Goto(r, IF state = "candidate" THEN "rollback"
                             ELSE "failure", j)
  <2>1. ASSUME NEW j \in Jobs, j.run = job[r].run, after(j) PROVE Advances(r)
    BY <1>1, <1>2, <2>1, GotoAdvances DEF Owning, Recovery
  <2>2. after(job[r]) \/ after(unreferenced)
    BY <1>6 DEF HandleKnown
  <2> HIDE DEF after, unreferenced
  <2>3. QED
    BY <1>1, <1>3, <2>1, <2>2
<1>7. CASE Rollback(r)
  BY <1>1, <1>7, GotoAdvances DEF Rollback, Owning, Recovery
<1>8. CASE RollbackRaises(r)
  <2>1. ASSUME NEW b, NEW n,
               LET j == [job[r] EXCEPT !.rbFailed = b, !.retain = n]
               IN \/ Goto(r, "release", [j EXCEPT !.result = "undetermined"])
                  \/ Goto(r, "release", [j EXCEPT !.result = "interrupted"])
                  \/ Goto(r, "failure", j)
        PROVE  Advances(r)
    <3> DEFINE j == [job[r] EXCEPT !.rbFailed = b, !.retain = n]
               u == [j EXCEPT !.result = "undetermined"]
               i == [j EXCEPT !.result = "interrupted"]
    <3>1. j.run = job[r].run /\ u.run = job[r].run /\ i.run = job[r].run
      BY <1>1 DEF Jobs
    <3>2. Goto(r, "release", u) \/ Goto(r, "release", i) \/ Goto(r, "failure", j)
      BY <2>1
    <3> HIDE DEF j, u, i
    <3>3. QED
      BY <1>1, <3>1, <3>2, GotoAdvances DEF Owning, Recovery
  <2>2. QED
    BY <1>1, <1>8, <2>1, DiesAdvances DEF RollbackRaises
<1>9. CASE RecordFailure(r) \/ HandlerEscapes(r)
  BY <1>1, <1>9, LeaveAdvances, LeaveRaisingAdvances
     DEF RecordFailure, HandlerEscapes
<1>10. QED
  BY <1>4, <1>5, <1>6, <1>7, <1>8, <1>9

LEMMA AdvancesSerial ==
    ASSUME LockInv, NEW r \in Runners, Advances(r)
    PROVE  Serial'
<1>1. Owns(r) /\ pc[r] # "idle" /\ lock' = lock /\ runs' = runs
  BY DEF Advances, Owns, Owning, Preflight, Protected, Recovery
<1>2. \A s \in Runners :
         pc'[s] # "idle" => pc[s] # "idle" /\ job'[s].run = job[s].run
  BY <1>1 DEF Advances
<1>3. \A s \in Runners : Owns(s)' => Owns(s) /\ job'[s].run = job[s].run
  BY <1>1, <1>2 DEF Advances, Owns, Owning, Preflight, Protected, Recovery
<1>4. QED
  BY <1>1, <1>2, <1>3 DEF LockInv, Serial

LEMMA SerialStep == LockInv /\ [Next]_vars => Serial'
<1> SUFFICES ASSUME LockInv, [Next]_vars PROVE Serial'
  OBVIOUS
<1>1. TypeInv /\ ControlOK /\ lock \in Nat /\ runs \in Nat
      /\ \A r \in Runners : job[r] \in Jobs /\ job[r].run \in Nat
  BY TypeInvIs, JobIs, RunAssumption DEF LockInv, Jobs
<1>2. ASSUME NEW r \in Runners, Start(r) PROVE Serial'
  <2>1. PICK i \in (IF ReuseIds THEN 1 .. runs' ELSE {runs'}) :
            Goto(r, "lock", [NoJob EXCEPT !.id = i, !.run = runs'])
    BY <1>2 DEF Start
  <2>2. [NoJob EXCEPT !.id = i, !.run = runs'].run = runs'
    BY NoJobTyped DEF Jobs
  <2>3. pc'[r] = "lock" /\ job'[r].run = runs'
    BY <1>1, <2>1, <2>2 DEF Goto, ControlOK
  <2>4. \A s \in Runners \ {r} : pc'[s] = pc[s] /\ job'[s] = job[s]
    BY <1>1, <2>1 DEF Goto, ControlOK
  <2>5. runs' = runs + 1 /\ lock' = lock
    BY <1>2 DEF Start
  <2>6. \A s \in Runners : Owns(s)' => s # r /\ Owns(s)
    BY <2>3, <2>4 DEF Owns, Owning, Preflight, Protected, Recovery
  <2>7. \A s \in Runners : pc'[s] # "idle" => job'[s].run \in 1 .. runs'
    BY <1>1, <2>3, <2>4, <2>5 DEF LockInv, Serial
  <2>8. \A s, t \in Runners :
           pc'[s] # "idle" /\ pc'[t] # "idle" /\ job'[s].run = job'[t].run => s = t
    BY <1>1, <2>3, <2>4, <2>5 DEF LockInv, Serial
  <2>9. QED
    BY <1>1, <2>4, <2>5, <2>6, <2>7, <2>8 DEF LockInv, Serial, Owns
<1>3. ASSUME NEW r \in Runners, AcquireLock(r) PROVE Serial'
  <2>1. CASE lock = 0
    <3>1. \A s \in Runners : ~Owns(s)
      BY <2>1, <1>1 DEF LockInv, Serial, Owns, Owning, Preflight, Protected, Recovery
    <3>2. /\ lock' = job[r].run /\ runs' = runs /\ job'[r] = job[r]
          /\ pc[r] = "lock" /\ pc'[r] = "load"
          /\ \A s \in Runners \ {r} : pc'[s] = pc[s] /\ job'[s] = job[s]
      BY <1>1, <1>3, <2>1 DEF AcquireLock, Goto, ControlOK
    <3>3. \A s \in Runners : Owns(s)' => s = r
      BY <3>1, <3>2 DEF Owns
    <3>4. \A s \in Runners :
             pc'[s] # "idle" => pc[s] # "idle" /\ job'[s].run = job[s].run
      BY <3>2
    <3>5. lock' <= runs'
      BY <1>1, <3>2 DEF LockInv, Serial
    <3>6. QED
      BY <3>2, <3>3, <3>4, <3>5 DEF LockInv, Serial
  <2>2. CASE lock # 0
    <3>1. lock' = lock /\ runs' = runs /\ pc'[r] = "idle"
          /\ \A s \in Runners \ {r} : pc'[s] = pc[s] /\ job'[s] = job[s]
      BY <1>1, <1>3, <2>2 DEF AcquireLock, Dies, Goto, ControlOK
    <3>2. QED
      BY <3>1 DEF LockInv, Serial, Owns, Owning, Preflight, Protected, Recovery
  <2>3. QED
    BY <2>1, <2>2
<1>4. ASSUME NEW r \in Runners, AcquireFails(r) PROVE Serial'
  <2>1. \A s \in Runners : ~Owns(s)
    BY <1>4, <1>1 DEF AcquireFails, LockInv, Serial, Owns, Owning, Preflight,
       Protected, Recovery
  <2>2. /\ lock' \in {0, job[r].run} /\ runs' = runs
        /\ pc[r] = "lock" /\ pc'[r] = "idle"
        /\ \A s \in Runners \ {r} : pc'[s] = pc[s] /\ job'[s] = job[s]
    BY <1>1, <1>4 DEF AcquireFails, Dies, Goto, ControlOK
  <2>3. \A s \in Runners : ~Owns(s)'
    BY <2>1, <2>2 DEF Owns, Owning, Preflight, Protected, Recovery
  <2>4. lock' <= runs'
    BY <1>1, <2>2 DEF LockInv, Serial
  <2>5. QED
    BY <2>2, <2>3, <2>4 DEF LockInv, Serial
<1>5. ASSUME NEW r \in Runners, ReleaseLock(r) PROVE Serial'
  <2>1. /\ Owns(r) /\ pc'[r] = "idle" /\ runs' = runs /\ lock' \in {0, lock}
        /\ \A s \in Runners \ {r} : pc'[s] = pc[s] /\ job'[s] = job[s]
    BY <1>1, <1>5 DEF ReleaseLock, Dies, Goto, ControlOK, Owns, Owning
  <2>2. \A s \in Runners : ~Owns(s)'
    <3>1. \A s \in Runners : Owns(s) => s = r
      BY <2>1 DEF LockInv, Serial, Owns, Owning, Preflight, Protected, Recovery
    <3>2. QED
      BY <2>1, <3>1 DEF Owns, Owning, Preflight, Protected, Recovery
  <2>3. lock' <= runs'
    BY <1>1, <2>1 DEF LockInv, Serial
  <2>4. QED
    BY <2>1, <2>2, <2>3 DEF LockInv, Serial
<1>6. ASSUME NEW r \in Runners, Kill(r) PROVE Serial'
  <2>1. /\ pc'[r] = "idle" /\ runs' = runs /\ lock' = lock
        /\ \A s \in Runners \ {r} : pc'[s] = pc[s] /\ job'[s] = job[s]
    BY <1>1, <1>6 DEF Kill, Dies, Goto, ControlOK
  <2>2. QED
    BY <2>1 DEF LockInv, Serial, Owns, Owning, Preflight, Protected, Recovery
<1>7. CASE PowerLoss
  BY <1>7 DEF PowerLoss, LockInv, Serial, Owns, Owning, Preflight, Protected,
     Recovery
<1>8. CASE ClearLock
  <2>1. lock # 0 /\ lock' = 0 /\ UNCHANGED <<runs, pc, job>>
        /\ \A r \in Runners : ~Owns(r)
    BY <1>8 DEF ClearLock, LockInv, Serial
  <2>2. lock' <= runs'
    BY <1>1, <2>1
  <2>3. QED
    BY <2>1, <2>2 DEF LockInv, Serial, Owns
<1>9. CASE UNCHANGED vars
  BY <1>9 DEF vars, LockInv, Serial, Owns
<1>10. ASSUME NEW r \in Runners, Step(r) PROVE Serial'
  BY <1>1, <1>3, <1>4, <1>5, <1>10, AdvancesSerial, PreflightAdvances,
     StageAdvances, HandlerAdvances DEF Step
<1>11. QED
  BY <1>2, <1>6, <1>7, <1>8, <1>9, <1>10 DEF Next

LEMMA LockInvariant == Spec => []LockInv
<1>1. Init => LockInv
  <2>1. Init => Serial
    BY DEF Init, Serial, Owns, Owning, Preflight, Protected, Recovery
  <2>2. QED
    BY <2>1, TypeInit DEF LockInv
<1>2. LockInv /\ [Next]_vars => LockInv'
  BY TypeStep, SerialStep DEF LockInv
<1>3. QED
  BY <1>1, <1>2, PTL DEF Spec

(* The lock directory excludes: two runners are never both past            *)
(* _acquire_lock, although locks are left behind by kills and failures and *)
(* are then cleared by hand.                                               *)
THEOREM LockExcludes == Spec => []OneWriter
<1>1. LockInv => OneWriter
  BY DEF LockInv, Serial, OneWriter, Owns, Owning, Preflight, Protected, Recovery
<1>2. QED
  BY <1>1, LockInvariant, PTL

-----------------------------------------------------------------------------
(* An entry that holds a content holds it for good: installing leaves an   *)
(* existing entry alone, and only a new one can be left with two links.    *)

LEMMA InstallKeeps ==
    ASSUME StoreTypeOK, NEW g \in Files, NEW c, c # None, Holds(g, c),
           NEW f, NEW d, Install(f, d)
    PROVE  Holds(g, c)'
BY DEF StoreTypeOK, Holds, Install, Installable

LEMMA RaisesKeep ==
    ASSUME StoreTypeOK, NEW g \in Files, NEW c, c # None, Holds(g, c),
           NEW f, NEW d, NEW e, InstallRaises(f, d, e)
    PROVE  Holds(g, c)'
<1>1. CASE Collides(f, d, e) \/ FailsUnlinked(e)
  BY <1>1 DEF Holds, Collides, FailsUnlinked
<1>2. CASE FailsLinked(f, d, e)
  <2>1. f # g
    BY <1>2 DEF Holds, FailsLinked
  <2>2. disk'[g] = disk[g]
    BY <1>2, <2>1 DEF StoreTypeOK, FailsLinked
  <2>3. g \notin doubled => g \notin doubled'
    BY <1>2, <2>1 DEF FailsLinked
  <2>4. QED
    BY <2>2, <2>3 DEF Holds
<1>3. QED
  BY <1>1, <1>2 DEF InstallRaises

(* A step that is not a power loss writes at most one entry.               *)
Writes ==
    \/ UNCHANGED <<disk, doubled>>
    \/ \E f, d : Install(f, d)
    \/ \E f, d, e : InstallRaises(f, d, e)

LEMMA WritesKeep ==
    ASSUME StoreTypeOK, Writes, NEW m \in SuccessReceipts, Resolves(m)
    PROVE  Resolves(m)'
<1>1. /\ m.raw \in Raws /\ RawFile(m.raw) \in Files /\ m.raw # None
      /\ m.norm \in Norms /\ NormFile(m.norm) \in Files /\ m.norm # None
  BY FilesAre, StoreAssumption DEF SuccessReceipts
<1>2. ASSUME NEW g \in Files, NEW c, c # None, Holds(g, c) PROVE Holds(g, c)'
  BY <1>2, InstallKeeps, RaisesKeep DEF Writes, Holds
<1>3. Holds(RawFile(m.raw), m.raw)' /\ Holds(NormFile(m.norm), m.norm)'
  BY <1>1, <1>2 DEF Resolves
<1>4. QED
  BY <1>3 DEF Resolves

LEMMA StepWrites ==
    ASSUME NEW r \in Runners, Start(r) \/ Step(r) \/ Kill(r)
    PROVE  Writes
<1>1. CASE \/ Start(r) \/ Kill(r) \/ AcquireLock(r) \/ AcquireFails(r)
           \/ LoadActive(r) \/ CheckOwnReceipt(r) \/ PreflightInterrupted(r)
           \/ Fetch(r) \/ BuildMarker(r) \/ Precommit(r)
           \/ ValidateActivated(r) \/ FinalizationAllowed(r)
           \/ CallbackRaises(r) \/ StageInterrupted(r)
           \/ HandleChanged(r) \/ HandleAmbiguous(r) \/ HandleKnown(r)
           \/ HandlerEscapes(r) \/ InterruptedUnguarded(r) \/ ReleaseLock(r)
  <2>1. Quiet
    BY <1>1 DEF Start, Kill, AcquireLock, AcquireFails, LoadActive,
       CheckOwnReceipt, PreflightInterrupted, Fetch, BuildMarker, Precommit,
       ValidateActivated, FinalizationAllowed, CallbackRaises,
       StageInterrupted, HandleChanged, HandleAmbiguous, HandleKnown,
       HandlerEscapes, InterruptedUnguarded, ReleaseLock
  <2>2. QED
    BY <2>1 DEF Quiet, Writes
<1>2. CASE ArchiveActive(r)
  BY <1>2 DEF ArchiveActive, Writes, Quiet
<1>3. CASE RecordLimit(r)
  BY <1>3 DEF RecordLimit, Writes, Quiet
<1>4. CASE PreserveRaw(r)
  BY <1>4 DEF PreserveRaw, Writes
<1>5. CASE PreserveNormalized(r)
  BY <1>5 DEF PreserveNormalized, Writes
<1>6. CASE Commit(r) \/ Rollback(r) \/ RollbackRaises(r)
  BY <1>6 DEF Commit, Rollback, RollbackRaises, ReplaceMarker,
     ReplaceMarkerRaises, Writes
<1>7. CASE WriteReceipt(r)
  BY <1>7 DEF WriteReceipt, Writes
<1>8. CASE RecordFailure(r)
  BY <1>8 DEF RecordFailure, Writes, Quiet
<1>9. QED
  BY <1>1, <1>2, <1>3, <1>4, <1>5, <1>6, <1>7, <1>8 DEF Step

LEMMA NextWrites ==
    ASSUME "power" \notin Faults, [Next]_vars
    PROVE  Writes
<1>1. ~PowerLoss
  BY DEF PowerLoss, LosePower, Strike
<1>2. ClearLock => Writes
  BY DEF ClearLock, Quiet, Writes
<1>3. UNCHANGED vars => Writes
  BY DEF vars, storeVars, Writes
<1>4. QED
  BY <1>1, <1>2, <1>3, StepWrites DEF Next

-----------------------------------------------------------------------------
(* The marker is replaced only by what the stages before have validated:   *)
(* the candidate from the precommit check on, and the prior marker from    *)
(* preflight on.                                                           *)

PriorResolves(r)     == job[r].prev # None => Resolves(job[r].prev)
CandidateResolves(r) == pc[r] = "commit" => Resolves(job[r].cand)

MarkerInv ==
    /\ TypeInv
    /\ MarkerResolves
    /\ \A r \in Runners : PriorResolves(r) /\ CandidateResolves(r)

(* The local variables of a step: the prior marker is the one known before *)
(* or a marker just validated, and only Precommit leads to the commit.     *)
Carries(r) ==
    /\ \A s \in Runners \ {r} : pc'[s] = pc[s] /\ job'[s] = job[s]
    /\ \/ job'[r].prev \in {None, job[r].prev}
       \/ job'[r].prev = current /\ Resolves(current)
    /\ pc'[r] = "commit" => job'[r] = job[r] /\ Resolves(job[r].cand)

LEMMA GotoCarries ==
    ASSUME ControlOK, NEW r \in Runners, NEW s, NEW j, s # "commit",
           \/ j.prev \in {None, job[r].prev}
           \/ j.prev = current /\ Resolves(current),
           Goto(r, s, j)
    PROVE  Carries(r)
BY DEF ControlOK, Goto, Carries

LEMMA DiesCarries ==
    ASSUME ControlOK, NEW r \in Runners, Dies(r)
    PROVE  Carries(r)
<1>1. NoJob.prev = None
  BY DEF NoJob
<1>2. QED
  BY <1>1, GotoCarries DEF Dies

LEMMA LeaveCarries ==
    ASSUME ControlOK, NEW r \in Runners, NEW o, Leave(r, o)
    PROVE  Carries(r)
<1> DEFINE j == [job[r] EXCEPT !.result = o]
<1>1. j.prev = job[r].prev
  BY DEF ControlOK, Jobs
<1> HIDE DEF j
<1>2. QED
  BY <1>1, GotoCarries DEF Leave, j

LEMMA LeaveRaisingCarries ==
    ASSUME ControlOK, NEW r \in Runners, NEW e, NEW o, LeaveRaising(r, e, o)
    PROVE  Carries(r)
BY DiesCarries, LeaveCarries DEF LeaveRaising

LEMMA RaiseCarries ==
    ASSUME ControlOK, NEW r \in Runners, NEW e, Raise(r, e)
    PROVE  Carries(r)
<1> DEFINE j == [job[r] EXCEPT !.stage = pc[r], !.exc = e]
<1>1. j.prev = job[r].prev
  BY DEF ControlOK, Jobs
<1> HIDE DEF j
<1>2. ASSUME Goto(r, "handle", j) PROVE Carries(r)
  BY <1>1, <1>2, GotoCarries
<1>3. QED
  BY <1>2, DiesCarries DEF Raise, j

LEMMA EntryCarries ==
    ASSUME TypeInv, NEW r \in Runners,
           \/ Start(r) \/ Kill(r) \/ InterruptedUnguarded(r)
           \/ AcquireLock(r) \/ AcquireFails(r)
           \/ ReleaseLock(r) \/ LoadActive(r) \/ ArchiveActive(r)
           \/ CheckOwnReceipt(r) \/ RecordLimit(r) \/ PreflightInterrupted(r)
    PROVE  Carries(r)
<1>1. job[r] \in Jobs /\ ControlOK
  BY JobIs, TypeInvIs
<1>2. CASE \/ Kill(r) \/ InterruptedUnguarded(r)
           \/ AcquireLock(r) \/ AcquireFails(r) \/ ReleaseLock(r)
  BY <1>1, <1>2, GotoCarries, DiesCarries
     DEF Kill, InterruptedUnguarded, AcquireLock, AcquireFails, ReleaseLock
<1>3. CASE Start(r)
  <2>1. PICK i : Goto(r, "lock", [NoJob EXCEPT !.id = i, !.run = runs'])
    BY <1>3 DEF Start
  <2>2. [NoJob EXCEPT !.id = i, !.run = runs'].prev = None
    <3>1. NoJob.prev = None
      BY DEF NoJob
    <3>2. QED
      BY <3>1, NoJobTyped DEF Jobs
  <2>3. QED
    BY <1>1, <2>1, <2>2, GotoCarries
<1>4. CASE LoadActive(r)
  <2> DEFINE j == [job[r] EXCEPT !.prev = current]
  <2>1. j.prev = current
    BY <1>1 DEF Jobs
  <2> HIDE DEF j
  <2>2. \/ Goto(r, "own", job[r]) \/ Goto(r, "limit", job[r])
        \/ Resolves(current) /\ Goto(r, "archive", j)
        \/ Leave(r, "raised")
    BY <1>4 DEF LoadActive, j
  <2>3. QED
    BY <1>1, <2>1, <2>2, GotoCarries, LeaveCarries
<1>5. CASE ArchiveActive(r)
  <2>1. [job[r] EXCEPT !.prev = None].prev = None
    BY <1>1 DEF Jobs
  <2>2. QED
    BY <1>1, <1>5, <2>1, GotoCarries, LeaveRaisingCarries DEF ArchiveActive
<1>6. CASE CheckOwnReceipt(r) \/ RecordLimit(r) \/ PreflightInterrupted(r)
  BY <1>1, <1>6, GotoCarries, LeaveCarries, LeaveRaisingCarries
     DEF CheckOwnReceipt, RecordLimit, PreflightInterrupted
<1>7. QED
  BY <1>2, <1>3, <1>4, <1>5, <1>6

LEMMA StageCarries ==
    ASSUME TypeInv, NEW r \in Runners,
           \/ Fetch(r) \/ PreserveRaw(r) \/ PreserveNormalized(r)
           \/ BuildMarker(r) \/ Precommit(r) \/ Commit(r)
           \/ ValidateActivated(r) \/ FinalizationAllowed(r) \/ WriteReceipt(r)
           \/ CallbackRaises(r) \/ StageInterrupted(r)
    PROVE  Carries(r)
<1>1. job[r] \in Jobs /\ ControlOK
  BY JobIs, TypeInvIs
<1>2. ASSUME NEW v
      PROVE  /\ [job[r] EXCEPT !.raw = v].prev = job[r].prev
             /\ [job[r] EXCEPT !.rawRef = v].prev = job[r].prev
             /\ [job[r] EXCEPT !.normRef = v].prev = job[r].prev
             /\ [job[r] EXCEPT !.cand = v].prev = job[r].prev
             /\ [job[r] EXCEPT !.stage = "precommit", !.exc = "changed"].prev
                = job[r].prev
  BY <1>1 DEF Jobs
<1>3. CASE Fetch(r) \/ PreserveRaw(r)
  BY <1>1, <1>2, <1>3, GotoCarries, RaiseCarries DEF Fetch, PreserveRaw
<1>4. CASE PreserveNormalized(r) \/ BuildMarker(r)
  BY <1>1, <1>2, <1>4, GotoCarries, RaiseCarries
     DEF PreserveNormalized, BuildMarker
<1>5. CASE Precommit(r)
  <2>1. ASSUME PrecommitHolds(r), Goto(r, "commit", job[r]) PROVE Carries(r)
    BY <1>1, <2>1 DEF PrecommitHolds, Goto, ControlOK, Carries
  <2>2. QED
    BY <1>1, <1>2, <1>5, <2>1, GotoCarries, RaiseCarries DEF Precommit
<1>6. CASE Commit(r) \/ ValidateActivated(r) \/ FinalizationAllowed(r)
  BY <1>1, <1>6, GotoCarries, RaiseCarries
     DEF Commit, ValidateActivated, FinalizationAllowed
<1>7. CASE WriteReceipt(r) \/ CallbackRaises(r) \/ StageInterrupted(r)
  BY <1>1, <1>7, LeaveCarries, RaiseCarries
     DEF WriteReceipt, CallbackRaises, StageInterrupted
<1>8. QED
  BY <1>3, <1>4, <1>5, <1>6, <1>7

LEMMA HandlerCarries ==
    ASSUME TypeInv, NEW r \in Runners,
           \/ HandleChanged(r) \/ HandleAmbiguous(r) \/ HandleKnown(r)
           \/ Rollback(r) \/ RollbackRaises(r) \/ RecordFailure(r)
           \/ HandlerEscapes(r)
    PROVE  Carries(r)
<1>1. job[r] \in Jobs /\ ControlOK
  BY JobIs, TypeInvIs
<1>2. ASSUME NEW j \in Jobs, j.prev = job[r].prev, NEW o
      PROVE  /\ [j EXCEPT !.result = o].prev = job[r].prev
             /\ [j EXCEPT !.retain = TRUE, !.result = o].prev = job[r].prev
  BY <1>2 DEF Jobs
<1> DEFINE unreferenced == [job[r] EXCEPT !.rawRef = None, !.normRef = None]
<1>3. unreferenced \in Jobs /\ unreferenced.prev = job[r].prev
  BY <1>1 DEF Jobs
<1>4. CASE HandleChanged(r)
  BY <1>1, <1>3, <1>4, GotoCarries DEF HandleChanged
<1>5. CASE HandleAmbiguous(r)
  BY <1>1, <1>2, <1>5, GotoCarries DEF HandleAmbiguous
<1>6. CASE HandleKnown(r)
  <2> DEFINE state == MarkerState(job[r], current)
             after(j) ==
                IF j.exc = "interrupt"
                THEN Goto(r, "release", [j EXCEPT !.result = "interrupted"])
                ELSE Goto(r, IF state = "candidate" THEN "rollback"
                             ELSE "failure", j)
  <2>1. ASSUME NEW j \in Jobs, j.prev = job[r].prev, after(j) PROVE Carries(r)
    BY <1>1, <1>2, <2>1, GotoCarries
  <2>2. after(job[r]) \/ after(unreferenced)
    BY <1>6 DEF HandleKnown
  <2> HIDE DEF after, unreferenced
  <2>3. QED
    BY <1>1, <1>3, <2>1, <2>2
<1>7. CASE Rollback(r)
  BY <1>1, <1>7, GotoCarries DEF Rollback
<1>8. CASE RollbackRaises(r)
  <2>1. ASSUME NEW b, NEW n,
               LET j == [job[r] EXCEPT !.rbFailed = b, !.retain = n]
               IN \/ Goto(r, "release", [j EXCEPT !.result = "undetermined"])
                  \/ Goto(r, "release", [j EXCEPT !.result = "interrupted"])
                  \/ Goto(r, "failure", j)
        PROVE  Carries(r)
    <3> DEFINE j == [job[r] EXCEPT !.rbFailed = b, !.retain = n]
               u == [j EXCEPT !.result = "undetermined"]
               i == [j EXCEPT !.result = "interrupted"]
    <3>1. j.prev = job[r].prev /\ u.prev = job[r].prev /\ i.prev = job[r].prev
      BY <1>1 DEF Jobs
    <3>2. Goto(r, "release", u) \/ Goto(r, "release", i) \/ Goto(r, "failure", j)
      BY <2>1
    <3> HIDE DEF j, u, i
    <3>3. QED
      BY <1>1, <3>1, <3>2, GotoCarries
  <2>2. QED
    BY <1>1, <1>8, <2>1, DiesCarries DEF RollbackRaises
<1>9. CASE RecordFailure(r) \/ HandlerEscapes(r)
  BY <1>1, <1>9, LeaveCarries, LeaveRaisingCarries
     DEF RecordFailure, HandlerEscapes
<1>10. QED
  BY <1>4, <1>5, <1>6, <1>7, <1>8, <1>9

LEMMA StepCarries ==
    ASSUME TypeInv, NEW r \in Runners, Start(r) \/ Step(r) \/ Kill(r)
    PROVE  Carries(r)
BY EntryCarries, StageCarries, HandlerCarries DEF Step

LEMMA StepMoves ==
    ASSUME NEW r \in Runners, Start(r) \/ Step(r) \/ Kill(r)
    PROVE  \/ current' = current
           \/ current' = job[r].prev
           \/ current' = job[r].cand /\ pc[r] = "commit"
<1>1. CASE Commit(r)
  BY <1>1 DEF Commit, ReplaceMarker, ReplaceMarkerRaises
<1>2. CASE Rollback(r) \/ RollbackRaises(r)
  BY <1>2 DEF Rollback, RollbackRaises, ReplaceMarker, ReplaceMarkerRaises
<1>3. CASE ArchiveActive(r) \/ RecordLimit(r) \/ PreserveRaw(r)
           \/ PreserveNormalized(r) \/ WriteReceipt(r) \/ RecordFailure(r)
  BY <1>3 DEF ArchiveActive, RecordLimit, PreserveRaw, PreserveNormalized,
     WriteReceipt, RecordFailure, Install, InstallRaises, Collides,
     FailsUnlinked, FailsLinked, Quiet
<1>4. CASE Quiet
  BY <1>4 DEF Quiet
<1>5. QED
  BY <1>1, <1>2, <1>3, <1>4
     DEF Step, Start, Kill, AcquireLock, AcquireFails, LoadActive,
     CheckOwnReceipt, PreflightInterrupted, Fetch, BuildMarker, Precommit,
     ValidateActivated, FinalizationAllowed, CallbackRaises,
     StageInterrupted, HandleChanged, HandleAmbiguous, HandleKnown,
     HandlerEscapes, InterruptedUnguarded, ReleaseLock

LEMMA MarkerStep ==
    ASSUME "power" \notin Faults, MarkerInv, [Next]_vars
    PROVE  MarkerInv'
<1>1. TypeInv /\ TypeInv'
  BY TypeStep DEF MarkerInv
<1>2. \A m \in SuccessReceipts : Resolves(m) => Resolves(m)'
  BY <1>1, NextWrites, WritesKeep, TypeInvIs
<1>3. current \in SuccessReceipts \cup {None}
      /\ \A r \in Runners : job[r] \in Jobs /\ job[r].prev \in SuccessReceipts \cup {None}
  BY <1>1, TypeInvIs, JobIs DEF StoreTypeOK, Jobs
<1>4. \A r \in Runners : pc[r] = "commit" => job[r].cand \in SuccessReceipts
  BY <1>1, TypeInvIs, JobIs DEF Local
<1>5. ASSUME NEW r \in Runners, Start(r) \/ Step(r) \/ Kill(r)
      PROVE  MarkerInv'
  <2>1. Carries(r)
    BY <1>1, <1>5, StepCarries
  <2>2. MarkerResolves'
    BY <1>2, <1>3, <1>4, <1>5, StepMoves
       DEF MarkerInv, MarkerResolves, PriorResolves, CandidateResolves,
           Resolves, Holds
  <2>3. ASSUME NEW s \in Runners PROVE PriorResolves(s)'
    BY <1>2, <1>3, <2>1 DEF MarkerInv, MarkerResolves, PriorResolves, Carries,
       Resolves, Holds
  <2>4. ASSUME NEW s \in Runners PROVE CandidateResolves(s)'
    <3>1. SUFFICES ASSUME pc'[s] = "commit"
                   PROVE  Resolves(job[s].cand)' /\ job'[s] = job[s]
      BY DEF CandidateResolves, Resolves, Holds
    <3>2. job'[s] = job[s] /\ Resolves(job[s].cand)
      BY <2>1, <3>1 DEF MarkerInv, CandidateResolves, Carries
    <3>3. job[s].cand \in SuccessReceipts
      BY <1>1, <3>1, <3>2 DEF TypeInv, Located, Local
    <3>4. QED
      BY <1>2, <3>2, <3>3 DEF Resolves, Holds
  <2>5. QED
    BY <1>1, <2>2, <2>3, <2>4 DEF MarkerInv
<1>6. CASE ClearLock \/ UNCHANGED vars
  <2>1. UNCHANGED <<disk, doubled, current, pc, job>>
    BY <1>6 DEF ClearLock, Quiet, vars, storeVars
  <2>2. QED
    BY <1>1, <2>1 DEF MarkerInv, MarkerResolves, PriorResolves,
       CandidateResolves, Resolves, Holds
<1>7. ~PowerLoss
  BY DEF PowerLoss, LosePower, Strike
<1>8. QED
  BY <1>5, <1>6, <1>7 DEF Next

(* Without a power loss, whoever follows current.json finds the raw and    *)
(* the normalized artifact it names, after any number of exceptions,       *)
(* interrupts and kills, and whatever the callers' runs overlap with.      *)
THEOREM MarkerAlwaysResolves ==
    ASSUME "power" \notin Faults
    PROVE  Spec => []MarkerResolves
<1>1. Init => MarkerInv
  <2> SUFFICES ASSUME Init PROVE MarkerInv
    OBVIOUS
  <2>1. current = None /\ \A r \in Runners : job[r].prev = None /\ pc[r] = "idle"
    <3>1. NoJob.prev = None
      BY DEF NoJob
    <3>2. QED
      BY <3>1 DEF Init, StoreInit
  <2>2. QED
    BY <2>1, TypeInit DEF MarkerInv, MarkerResolves, PriorResolves,
       CandidateResolves
<1>2. MarkerInv /\ [Next]_vars => MarkerInv'
  BY MarkerStep
<1>3. MarkerInv => MarkerResolves
  BY DEF MarkerInv
<1>4. QED
  BY <1>1, <1>2, <1>3, PTL DEF Spec
-----------------------------------------------------------------------------
(* What the owner of the lock knows of the marker: between preflight and   *)
(* commit the active marker is the prior one, after the commit it is the   *)
(* candidate, and the prior one is archived.                               *)

Before  == {"own", "fetch", "raw", "normalize", "history", "precommit", "commit"}
After   == {"validate", "finalize", "receipt"}
Unbuilt == {"lock", "load", "archive", "own", "limit", "fetch", "raw",
            "normalize", "history"}

(* A result says what is true of the marker `cur'.                         *)
Truthful(j, cur) ==
    /\ j.result = "success" => cur = j.cand
    /\ /\ j.result \in {"failed", "unrecorded"}
       /\ j.stage # "none" /\ ~j.rbFailed
       => ~j.retain /\ cur = j.prev
    /\ j.result = "interrupted" /\ ~j.retain /\ j.stage # "none"
       => cur \in {j.prev, j.cand}
    /\ j.rbFailed => j.retain /\ cur = j.cand
    /\ j.result = "raised" /\ j.stage # "none"
       => j.stage = "validate" /\ ~j.retain /\ cur = j.cand

(* What a call at stage s with the local variables j knows of the marker.  *)
Life(s, j, cur) ==
    /\ s \in Unbuilt => j.cand = None
    /\ s \in {"lock", "load"} => j.prev = None
    /\ s # "idle" /\ j.cand # None => j.cand.id = j.id /\ j.cand.run = j.run
    /\ s \in Unbuilt \cup Before \cup After
       => j.stage = "none" /\ ~j.rbFailed /\ ~j.retain
    /\ s \in {"archive"} \cup Before => cur = j.prev
    /\ s \in After => cur = j.cand
    /\ s \in {"handle", "rollback"} => ~j.rbFailed /\ ~j.retain
    /\ s = "handle" => /\ cur = j.prev \/ (j.cand # None /\ cur = j.cand)
                       /\ j.exc = "changed" => cur = j.prev
                       /\ j.stage = "validate" => cur = j.cand
    /\ s = "rollback" => j.cand # None /\ cur = j.cand
    /\ s = "failure" => IF j.rbFailed
                        THEN j.retain /\ j.cand # None /\ cur = j.cand
                        ELSE ~j.retain /\ cur = j.prev
    /\ s = "release" => Truthful(j, cur)

InHistory(m, dsk, dbl) ==
    dsk[ReceiptFile(m.id)] = m /\ ReceiptFile(m.id) \notin dbl

(* The prior marker is archived once preflight is over, and the candidate  *)
(* when a success is returned.                                             *)
Kept(s, j, dsk, dbl) ==
    /\ s \in Before \cup After \cup Recovery /\ j.prev # None
       => InHistory(j.prev, dsk, dbl)
    /\ s = "release" /\ j.result = "success" => InHistory(j.cand, dsk, dbl)

(* The clock does not run backwards: the candidate is not older than the   *)
(* prior marker and what a power loss would leave as the marker.           *)
Timed(s, j, dur, clk) ==
    /\ s \in Owning /\ j.prev # None => j.prev.done <= clk
    /\ s \in Owning /\ j.cand # None =>
          /\ j.cand.done <= clk
          /\ j.prev # None => j.prev.done <= j.cand.done
    /\ s \in {"precommit", "commit"} /\ dur # None => dur.done <= j.cand.done

Knows(s, j, cur, dsk, dbl, dur, clk) ==
    Life(s, j, cur) /\ Kept(s, j, dsk, dbl) /\ Timed(s, j, dur, clk)

Informed(r) == Knows(pc[r], job[r], current, disk, doubled, durable, clock)

InformedNext(r) ==
    Knows(pc'[r], job'[r], current', disk', doubled', durable', clock')

(* The files and the marker by themselves.                                 *)
MarkerTimed ==
    /\ \A f \in doubled \cup unlinked : disk[f] # None
    /\ current # None => current.done <= clock
    /\ durable # None => durable.done <= clock
    /\ current # None /\ durable # None /\ durable.done > current.done
       => Archived(current)

TrackInv == LockInv /\ MarkerTimed /\ \A r \in Runners : Informed(r)

Persists ==
    \A m \in SuccessReceipts :
        InHistory(m, disk, doubled) => InHistory(m, disk', doubled')

LEMMA HistoryIs ==
    ASSUME NEW m
    PROVE  /\ Archived(m) <=> InHistory(m, disk, doubled)
           /\ Archived(m)' <=> InHistory(m, disk', doubled')
BY DEF Archived, Holds, InHistory

LEMMA GotoIs ==
    ASSUME ControlOK, NEW r \in Runners, NEW s, NEW j, Goto(r, s, j)
    PROVE  pc'[r] = s /\ job'[r] = j
           /\ \A t \in Runners \ {r} : pc'[t] = pc[t] /\ job'[t] = job[t]
BY DEF ControlOK, Goto

LEMMA DiesInformed ==
    ASSUME ControlOK, NEW r \in Runners, Dies(r)
    PROVE  InformedNext(r)
<1>1. pc'[r] = "idle"
  BY GotoIs DEF Dies
<1>2. QED
  BY <1>1 DEF InformedNext, Knows, Life, Kept, Timed, Unbuilt, Before, After,
     Recovery, Owning, Preflight, Protected

(* The stages are disjoint sets of names.                                  *)
LEMMA GotoInformed ==
    ASSUME ControlOK, NEW r \in Runners, NEW s, NEW j, Goto(r, s, j),
           Knows(s, j, current', disk', doubled', durable', clock')
    PROVE  InformedNext(r)
BY GotoIs DEF InformedNext

LEMMA QuietInformed ==
    ASSUME ControlOK, NEW r \in Runners, NEW s, NEW j, Goto(r, s, j),
           Quiet, clock' = clock,
           Knows(s, j, current, disk, doubled, durable, clock)
    PROVE  InformedNext(r)
BY GotoIs DEF InformedNext, Quiet

LEMMA TrackIs ==
    ASSUME TrackInv, NEW r \in Runners
    PROVE  /\ ControlOK /\ StoreTypeOK /\ job[r] \in Jobs /\ pc[r] \in Stages
           /\ Local(pc[r], job[r]) /\ MarkerTimed /\ clock \in Nat
           /\ Knows(pc[r], job[r], current, disk, doubled, durable, clock)
BY JobIs, TypeInvIs DEF TrackInv, LockInv, Informed

(* An exit of the preflight with an outcome.                               *)
LEMMA LeaveEarlyInformed ==
    ASSUME TrackInv, NEW r \in Runners, NEW o, o # "success",
           pc[r] \in Preflight, Leave(r, o),
           current' = current, durable' = durable, clock' = clock
    PROVE  InformedNext(r)
<1> DEFINE j == [job[r] EXCEPT !.result = o]
<1>1. Knows(pc[r], job[r], current, disk, doubled, durable, clock)
      /\ ControlOK /\ job[r] \in Jobs
  BY TrackIs
<1>2. job[r].stage = "none" /\ ~job[r].rbFailed /\ ~job[r].retain
      /\ job[r].cand = None
  BY <1>1 DEF Knows, Life, Unbuilt, Preflight
<1>3. /\ j.stage = job[r].stage /\ j.rbFailed = job[r].rbFailed
      /\ j.retain = job[r].retain /\ j.cand = job[r].cand
      /\ j.prev = job[r].prev /\ j.result = o
  BY <1>1 DEF Jobs
<1> HIDE DEF j
<1>4. Life("release", j, current')
  BY <1>2, <1>3 DEF Life, Truthful, Unbuilt, Before, After
<1>5. Kept("release", j, disk', doubled')
  BY <1>3 DEF Kept, Before, After, Recovery
<1>6. Timed("release", j, durable', clock')
  BY <1>1, <1>2, <1>3 DEF Knows, Timed, Owning, Preflight
<1>7. QED
  BY <1>1, <1>4, <1>5, <1>6, GotoInformed DEF Leave, Knows, j

LEMMA LoadInformed ==
    ASSUME TrackInv, NEW r \in Runners, LoadActive(r)
    PROVE  InformedNext(r)
<1> DEFINE j == [job[r] EXCEPT !.prev = current]
<1>1. job[r] \in Jobs /\ ControlOK /\ pc[r] = "load" /\ MarkerTimed
      /\ Knows("load", job[r], current, disk, doubled, durable, clock)
      /\ Quiet /\ clock' = clock
  BY TrackIs DEF LoadActive
<1>2. job[r].stage = "none" /\ ~job[r].rbFailed /\ ~job[r].retain
      /\ job[r].cand = None /\ job[r].prev = None
  BY <1>1 DEF Knows, Life, Unbuilt
<1>3. CASE Leave(r, "raised")
  BY <1>1, <1>3, LeaveEarlyInformed DEF Preflight, Quiet
<1>4. CASE current = None /\ Goto(r, "own", job[r])
  <2>1. Knows("own", job[r], current, disk, doubled, durable, clock)
    BY <1>2, <1>4 DEF Knows, Life, Kept, Timed, Unbuilt, Before, After, Recovery, Owning
  <2>2. QED
    BY <1>1, <1>4, <2>1, QuietInformed
<1>5. CASE Goto(r, "limit", job[r])
  <2>1. Knows("limit", job[r], current, disk, doubled, durable, clock)
    BY <1>2, <1>5 DEF Knows, Life, Kept, Timed, Unbuilt, Before, After, Recovery, Owning
  <2>2. QED
    BY <1>1, <1>5, <2>1, QuietInformed
<1>6. CASE current # None /\ Goto(r, "archive", j)
  <2>1. /\ j.stage = "none" /\ ~j.rbFailed /\ ~j.retain
        /\ j.cand = None /\ j.prev = current
    BY <1>1, <1>2 DEF Jobs
  <2> HIDE DEF j
  <2>2. Knows("archive", j, current, disk, doubled, durable, clock)
    BY <1>1, <2>1 DEF Knows, Life, Kept, Timed, MarkerTimed, Unbuilt, Before, After,
       Recovery
  <2>3. QED
    BY <1>1, <1>6, <2>2, QuietInformed
<1>7. QED
  BY <1>3, <1>4, <1>5, <1>6 DEF LoadActive

LEMMA RaisesMarker ==
    ASSUME NEW f, NEW c, NEW e, InstallRaises(f, c, e)
    PROVE  current' = current /\ durable' = durable
BY DEF InstallRaises, Collides, FailsUnlinked, FailsLinked

LEMMA InstallHistory ==
    ASSUME StoreTypeOK, MarkerTimed, NEW m \in SuccessReceipts,
           Install(ReceiptFile(m.id), m)
    PROVE  InHistory(m, disk', doubled') /\ current' = current /\ durable' = durable
<1>1. ReceiptFile(m.id) \in Files
  BY FilesAre DEF SuccessReceipts
<1>2. QED
  BY <1>1 DEF StoreTypeOK, MarkerTimed, Install, Installable, Holds, InHistory

LEMMA LeaveRaisingEarlyInformed ==
    ASSUME TrackInv, NEW r \in Runners, NEW e, NEW o, o # "success",
           pc[r] \in Preflight, LeaveRaising(r, e, o),
           current' = current, durable' = durable, clock' = clock
    PROVE  InformedNext(r)
<1>1. Dies(r) \/ \E v : v # "success" /\ Leave(r, v)
  BY DEF LeaveRaising
<1>2. QED
  BY <1>1, LeaveEarlyInformed, DiesInformed, TrackIs

LEMMA ArchiveInformed ==
    ASSUME TrackInv, NEW r \in Runners, ArchiveActive(r)
    PROVE  InformedNext(r)
<1> DEFINE m == job[r].prev
           f == ReceiptFile(m.id)
           j == [job[r] EXCEPT !.prev = None]
<1>1. /\ job[r] \in Jobs /\ ControlOK /\ StoreTypeOK /\ MarkerTimed
      /\ pc[r] = "archive" /\ clock' = clock /\ m # None
      /\ Knows("archive", job[r], current, disk, doubled, durable, clock)
  BY TrackIs DEF ArchiveActive, Local
<1>2. /\ job[r].stage = "none" /\ ~job[r].rbFailed /\ ~job[r].retain
      /\ job[r].cand = None /\ current = m /\ m \in SuccessReceipts
  BY <1>1 DEF Knows, Life, Unbuilt, Jobs
<1>3. CASE Install(f, m) /\ Goto(r, "own", job[r])
  <2>1. InHistory(m, disk', doubled') /\ current' = current /\ durable' = durable
    BY <1>1, <1>2, <1>3, InstallHistory
  <2>2. m.done <= clock
    BY <1>1 DEF Knows, Timed, Owning, Preflight
  <2>3. Knows("own", job[r], current', disk', doubled', durable', clock')
    BY <1>1, <1>2, <2>1, <2>2 DEF Knows, Life, Kept, Timed, Unbuilt, Before,
       After, Recovery
  <2>4. QED
    BY <1>1, <1>3, <2>3, GotoInformed
<1>4. ASSUME NEW e \in Stops, InstallRaises(f, m, e), LeaveRaising(r, e, "raised")
      PROVE  InformedNext(r)
  BY <1>1, <1>4, RaisesMarker, LeaveRaisingEarlyInformed DEF Preflight
<1>5. CASE Goto(r, "limit", j) /\ Quiet
  <2>1. /\ j.stage = "none" /\ ~j.rbFailed /\ ~j.retain
        /\ j.cand = None /\ j.prev = None
    BY <1>1, <1>2 DEF Jobs
  <2> HIDE DEF j
  <2>2. Knows("limit", j, current, disk, doubled, durable, clock)
    BY <2>1 DEF Knows, Life, Kept, Timed, Unbuilt, Before, After, Recovery
  <2>3. QED
    BY <1>1, <1>5, <2>2, QuietInformed
<1>6. QED
  BY <1>3, <1>4, <1>5 DEF ArchiveActive

LEMMA LimitInformed ==
    ASSUME TrackInv, NEW r \in Runners,
           RecordLimit(r) \/ PreflightInterrupted(r) \/ InterruptedUnguarded(r)
    PROVE  InformedNext(r)
<1> DEFINE f == ReceiptFile(job[r].id)
           c == Failure(job[r])
<1>1. ControlOK /\ clock' = clock
  BY TrackIs DEF RecordLimit, PreflightInterrupted, InterruptedUnguarded
<1>2. CASE RecordLimit(r)
  <2>1. pc[r] \in Preflight
    BY <1>2 DEF RecordLimit, Preflight
  <2>2. CASE Leave(r, "failed") /\ Install(f, c)
    BY <1>1, <2>1, <2>2, LeaveEarlyInformed DEF Install
  <2>3. CASE Leave(r, "raised") /\ Quiet
    BY <1>1, <2>1, <2>3, LeaveEarlyInformed DEF Quiet
  <2>4. ASSUME NEW e \in Stops, InstallRaises(f, c, e),
               LeaveRaising(r, e, "unrecorded")
        PROVE  InformedNext(r)
    BY <1>1, <2>1, <2>4, RaisesMarker, LeaveRaisingEarlyInformed
  <2>5. QED
    BY <1>2, <2>2, <2>3, <2>4 DEF RecordLimit
<1>3. CASE PreflightInterrupted(r)
  BY <1>1, <1>3, LeaveRaisingEarlyInformed DEF PreflightInterrupted, Quiet
<1>4. CASE InterruptedUnguarded(r)
  BY <1>1, <1>4, DiesInformed DEF InterruptedUnguarded
<1>5. QED
  BY <1>2, <1>3, <1>4

-----------------------------------------------------------------------------
(* From one stage to the next with the same prior marker and candidate.    *)

Preparing == {"own", "fetch", "raw", "normalize", "history"}

LEMMA ForwardInformed ==
    ASSUME TrackInv, Persists, NEW r \in Runners, NEW t, NEW j, Goto(r, t, j),
           current' = current, durable' = durable, clock' = clock,
           j.prev = job[r].prev, j.cand = job[r].cand, j.stage = job[r].stage,
           j.rbFailed = job[r].rbFailed, j.retain = job[r].retain,
           j.id = job[r].id, j.run = job[r].run,
           \/ pc[r] \in Preparing /\ t \in Preparing
           \/ pc[r] = "precommit" /\ t = "commit"
           \/ pc[r] \in After /\ t \in After
    PROVE  InformedNext(r)
<1>1. /\ ControlOK /\ job[r].prev \in SuccessReceipts \cup {None}
      /\ Knows(pc[r], job[r], current, disk, doubled, durable, clock)
  BY TrackIs DEF Jobs
<1>2. Life(t, j, current')
  <2>1. pc[r] # "idle"
    BY DEF Preparing, After
  <2>2. QED
    BY <1>1, <2>1 DEF Knows, Life, Preparing, Unbuilt, Before, After
<1>3. Kept(t, j, disk', doubled')
  BY <1>1 DEF Knows, Kept, Persists, Preparing, Before, After
<1>4. Timed(t, j, durable', clock')
  BY <1>1 DEF Knows, Timed, Preparing, After, Owning, Protected, Preflight
<1>5. QED
  BY <1>1, <1>2, <1>3, <1>4, GotoInformed DEF Knows

(* An exception inside the try block, with the marker at most replaced by  *)
(* the candidate.                                                          *)
LEMMA RaiseInformed ==
    ASSUME TrackInv, Persists, NEW r \in Runners, NEW e, Raise(r, e),
           pc[r] \in Protected, durable' = durable, clock' = clock,
           \/ current' = current
           \/ pc[r] = "commit" /\ current' = job[r].cand
    PROVE  InformedNext(r)
<1> DEFINE j == [job[r] EXCEPT !.stage = pc[r], !.exc = e]
<1>1. /\ ControlOK /\ job[r] \in Jobs /\ Local(pc[r], job[r])
      /\ Knows(pc[r], job[r], current, disk, doubled, durable, clock)
  BY TrackIs
<1>2. CASE e = "kill"
  BY <1>1, <1>2, DiesInformed DEF Raise
<1>3. CASE e # "kill"
  <2>1. Goto(r, "handle", j) /\ e # "changed"
    BY <1>3 DEF Raise, Stops
  <2>2. /\ j.prev = job[r].prev /\ j.cand = job[r].cand /\ j.exc = e
        /\ j.rbFailed = job[r].rbFailed /\ j.retain = job[r].retain
        /\ j.id = job[r].id /\ j.run = job[r].run /\ j.stage = pc[r]
    BY <1>1 DEF Jobs
  <2> HIDE DEF j
  <2>3. pc[r] \in After \cup {"commit"} => job[r].cand # None
    BY <1>1, RunAssumption DEF Local, After, Receipts
  <2>4. ~job[r].rbFailed /\ ~job[r].retain
    BY <1>1 DEF Knows, Life, Unbuilt, Before, After, Protected
  <2>5. current' = job[r].prev \/ (job[r].cand # None /\ current' = job[r].cand)
    BY <1>1, <2>3 DEF Knows, Life, Before, After, Protected
  <2>6. Life("handle", j, current')
    <3>1. pc[r] # "idle"
      BY DEF Protected
    <3>2. job[r].cand # None => job[r].cand.id = job[r].id /\ job[r].cand.run = job[r].run
      BY <1>1, <3>1 DEF Knows, Life
    <3>3. pc[r] = "validate" => current' = job[r].cand
      BY <1>1 DEF Knows, Life, After
    <3>4. QED
      BY <2>1, <2>2, <2>4, <2>5, <3>2, <3>3 DEF Life, Unbuilt, Before, After
  <2>7. Kept("handle", j, disk', doubled')
    <3>1. job[r].prev \in SuccessReceipts \cup {None}
      BY <1>1 DEF Jobs
    <3>2. pc[r] \in Before \cup After
      BY DEF Protected, Before, After
    <3>3. QED
      BY <1>1, <2>2, <3>1, <3>2 DEF Knows, Kept, Persists
  <2>8. Timed("handle", j, durable', clock')
    BY <1>1, <2>2 DEF Knows, Timed, Owning
  <2>9. QED
    BY <1>1, <2>1, <2>6, <2>7, <2>8, GotoInformed DEF Knows
<1>4. QED
  BY <1>2, <1>3

LEMMA EarlyStageInformed ==
    ASSUME TrackInv, Persists, NEW r \in Runners,
           \/ CheckOwnReceipt(r) \/ Fetch(r) \/ PreserveRaw(r)
           \/ PreserveNormalized(r) \/ ValidateActivated(r)
           \/ FinalizationAllowed(r)
    PROVE  InformedNext(r)
<1>1. job[r] \in Jobs /\ clock' = clock
  BY TrackIs DEF CheckOwnReceipt, Fetch, PreserveRaw, PreserveNormalized,
     ValidateActivated, FinalizationAllowed
<1>2. current' = current /\ durable' = durable
  BY RaisesMarker DEF CheckOwnReceipt, Fetch, PreserveRaw, PreserveNormalized,
     ValidateActivated, FinalizationAllowed, Quiet, Install
<1>3. ASSUME NEW x,
             LET j == [job[r] EXCEPT !.raw = x]
                 k == [job[r] EXCEPT !.rawRef = x]
                 l == [job[r] EXCEPT !.normRef = x]
             IN \/ pc[r] = "fetch" /\ Goto(r, "raw", j)
                \/ pc[r] = "raw" /\ Goto(r, "normalize", k)
                \/ pc[r] = "normalize" /\ Goto(r, "history", l)
      PROVE  InformedNext(r)
  <2> DEFINE j == [job[r] EXCEPT !.raw = x]
             k == [job[r] EXCEPT !.rawRef = x]
             l == [job[r] EXCEPT !.normRef = x]
  <2>1. ASSUME NEW i \in {j, k, l}
        PROVE  /\ i.prev = job[r].prev /\ i.cand = job[r].cand
               /\ i.stage = job[r].stage /\ i.rbFailed = job[r].rbFailed
               /\ i.retain = job[r].retain
               /\ i.id = job[r].id /\ i.run = job[r].run
    BY <1>1 DEF Jobs
  <2>2. PICK i \in {j, k, l}, t \in Preparing :
             pc[r] \in Preparing /\ Goto(r, t, i)
    BY <1>3 DEF Preparing
  <2> HIDE DEF j, k, l
  <2>3. QED
    BY <1>1, <1>2, <2>1, <2>2, ForwardInformed
<1>4. CASE CheckOwnReceipt(r)
  <2>1. pc[r] = "own"
    BY <1>4 DEF CheckOwnReceipt
  <2>2. ASSUME Goto(r, "fetch", job[r]) PROVE InformedNext(r)
    BY <1>1, <1>2, <2>1, <2>2, ForwardInformed DEF Preparing
  <2>3. ASSUME Leave(r, "raised") PROVE InformedNext(r)
    BY <1>1, <1>2, <2>1, <2>3, LeaveEarlyInformed DEF Preflight
  <2>4. QED
    BY <1>4, <2>2, <2>3 DEF CheckOwnReceipt
<1>5. ASSUME NEW e, Raise(r, e), pc[r] \in Protected PROVE InformedNext(r)
  BY <1>1, <1>2, <1>5, RaiseInformed
<1>6. CASE Fetch(r) \/ PreserveRaw(r) \/ PreserveNormalized(r)
  BY <1>3, <1>5, <1>6 DEF Fetch, PreserveRaw, PreserveNormalized, Protected
<1>7. CASE ValidateActivated(r) \/ FinalizationAllowed(r)
  <2>1. pc[r] \in After /\ pc[r] \in Protected
    BY <1>7 DEF ValidateActivated, FinalizationAllowed, After, Protected
  <2>2. ASSUME NEW t \in After, Goto(r, t, job[r]) PROVE InformedNext(r)
    BY <1>1, <1>2, <2>1, <2>2, ForwardInformed
  <2>3. QED
    BY <1>5, <1>7, <2>1, <2>2 DEF ValidateActivated, FinalizationAllowed, After
<1>8. QED
  BY <1>4, <1>6, <1>7

LEMMA CallbackInformed ==
    ASSUME TrackInv, Persists, NEW r \in Runners,
           CallbackRaises(r) \/ StageInterrupted(r)
    PROVE  InformedNext(r)
<1>1. pc[r] \in Protected /\ Quiet /\ clock' = clock /\ \E e : Raise(r, e)
  BY DEF CallbackRaises, StageInterrupted, Protected
<1>2. QED
  BY <1>1, RaiseInformed DEF Quiet

LEMMA BuildInformed ==
    ASSUME TrackInv, NEW r \in Runners, BuildMarker(r)
    PROVE  InformedNext(r)
<1> DEFINE c == Success(job[r], clock')
           j == [job[r] EXCEPT !.cand = c]
<1>1. /\ job[r] \in Jobs /\ ControlOK /\ Local("history", job[r])
      /\ pc[r] = "history" /\ Goto(r, "precommit", j)
      /\ Quiet /\ MarkerTimed /\ StoreTypeOK /\ clock \in Nat
      /\ Knows("history", job[r], current, disk, doubled, durable, clock)
  BY TrackIs DEF BuildMarker
<1>2. clock' \in Nat /\ clock <= clock'
  BY <1>1, RunAssumption DEF BuildMarker
<1>3. /\ c \in SuccessReceipts /\ c.done = clock'
      /\ c.id = job[r].id /\ c.run = job[r].run
  BY <1>1, <1>2, SuccessTyped DEF Local, Success
<1>4. c # None
  BY <1>3, RunAssumption DEF Receipts
<1>5. /\ j.prev = job[r].prev /\ j.cand = c /\ j.stage = job[r].stage
      /\ j.id = job[r].id /\ j.run = job[r].run
      /\ j.rbFailed = job[r].rbFailed /\ j.retain = job[r].retain
  BY <1>1 DEF Jobs
<1> HIDE DEF j, c
<1>6. Life("precommit", j, current)
  BY <1>1, <1>3, <1>5 DEF Knows, Life, Unbuilt, Before, After
<1>7. Kept("precommit", j, disk, doubled)
  BY <1>1, <1>5 DEF Knows, Kept, Before
<1>8. Timed("precommit", j, durable, clock')
  <2>1. job[r].prev # None => job[r].prev.done <= clock
                              /\ job[r].prev.done \in Nat
    BY <1>1 DEF Knows, Timed, Owning, Protected, Jobs, SuccessReceipts
  <2>2. durable # None => durable.done <= clock /\ durable.done \in Nat
    BY <1>1 DEF MarkerTimed, StoreTypeOK, SuccessReceipts
  <2>3. QED
    BY <1>1, <1>2, <1>3, <1>5, <2>1, <2>2 DEF Timed
<1>9. QED
  BY <1>1, <1>6, <1>7, <1>8, GotoInformed DEF Knows, Quiet

LEMMA PrecommitInformed ==
    ASSUME TrackInv, Persists, NEW r \in Runners, Precommit(r)
    PROVE  InformedNext(r)
<1> DEFINE j == [job[r] EXCEPT !.stage = "precommit", !.exc = "changed"]
<1>1. /\ job[r] \in Jobs /\ ControlOK /\ pc[r] = "precommit"
      /\ Quiet /\ clock' = clock
      /\ Knows("precommit", job[r], current, disk, doubled, durable, clock)
  BY TrackIs DEF Precommit
<1>2. CASE Goto(r, "commit", job[r])
  BY <1>1, <1>2, ForwardInformed DEF Quiet
<1>3. CASE Raise(r, "exception")
  BY <1>1, <1>3, RaiseInformed DEF Quiet, Protected
<1>4. CASE Goto(r, "handle", j)
  <2>1. /\ j.prev = job[r].prev /\ j.cand = job[r].cand
        /\ j.id = job[r].id /\ j.run = job[r].run
        /\ j.rbFailed = job[r].rbFailed /\ j.retain = job[r].retain
        /\ j.stage = "precommit"
    BY <1>1 DEF Jobs
  <2> HIDE DEF j
  <2>2. Life("handle", j, current)
    BY <1>1, <2>1 DEF Knows, Life, Unbuilt, Before, After
  <2>3. Kept("handle", j, disk, doubled)
    BY <1>1, <2>1 DEF Knows, Kept, Before
  <2>4. Timed("handle", j, durable, clock)
    BY <1>1, <2>1 DEF Knows, Timed, Owning, Protected
  <2>5. QED
    BY <1>1, <1>4, <2>2, <2>3, <2>4, QuietInformed DEF Knows
<1>5. QED
  BY <1>2, <1>3, <1>4 DEF Precommit

LEMMA CommitInformed ==
    ASSUME TrackInv, Persists, NEW r \in Runners, Commit(r)
    PROVE  InformedNext(r)
<1>1. /\ job[r] \in Jobs /\ ControlOK /\ pc[r] = "commit"
      /\ clock' = clock /\ UNCHANGED <<disk, doubled>>
      /\ Knows("commit", job[r], current, disk, doubled, durable, clock)
  BY TrackIs DEF Commit, ReplaceMarker, ReplaceMarkerRaises
<1>2. CASE ReplaceMarker(job[r].cand) /\ Goto(r, "validate", job[r])
  <2>1. current' = job[r].cand
    BY <1>2 DEF ReplaceMarker
  <2>2. Life("validate", job[r], current')
    BY <1>1, <2>1 DEF Knows, Life, Unbuilt, Before, After
  <2>3. Kept("validate", job[r], disk', doubled')
    BY <1>1 DEF Knows, Kept, Before
  <2>4. Timed("validate", job[r], durable', clock')
    BY <1>1 DEF Knows, Timed, Owning, Protected
  <2>5. QED
    BY <1>1, <1>2, <2>2, <2>3, <2>4, GotoInformed DEF Knows
<1>3. ASSUME NEW e, ReplaceMarkerRaises(job[r].cand, e), Raise(r, e)
      PROVE  InformedNext(r)
  BY <1>1, <1>3, RaiseInformed DEF ReplaceMarkerRaises, Protected
<1>4. QED
  BY <1>2, <1>3 DEF Commit

-----------------------------------------------------------------------------
(* From the success receipt and from the handler to the end of the call.   *)

LEMMA WriteReceiptInformed ==
    ASSUME TrackInv, Persists, NEW r \in Runners, WriteReceipt(r)
    PROVE  InformedNext(r)
<1> DEFINE c == job[r].cand
           f == ReceiptFile(job[r].id)
           j == [job[r] EXCEPT !.result = "success"]
<1>1. /\ job[r] \in Jobs /\ ControlOK /\ pc[r] = "receipt"
      /\ clock' = clock /\ StoreTypeOK /\ MarkerTimed
      /\ Local("receipt", job[r])
      /\ Knows("receipt", job[r], current, disk, doubled, durable, clock)
  BY TrackIs DEF WriteReceipt
<1>2. c \in SuccessReceipts /\ c # None /\ c.id = job[r].id /\ current = c
  BY <1>1, RunAssumption DEF Local, Knows, Life, After, Receipts
<1>3. CASE Install(f, c) /\ Leave(r, "success")
  <2>1. InHistory(c, disk', doubled') /\ current' = current /\ durable' = durable
    BY <1>1, <1>2, <1>3, InstallHistory
  <2>2. /\ j.prev = job[r].prev /\ j.cand = c /\ j.result = "success"
        /\ j.id = job[r].id /\ j.run = job[r].run
        /\ j.rbFailed = job[r].rbFailed /\ j.retain = job[r].retain
    BY <1>1 DEF Jobs
  <2>3. Goto(r, "release", j)
    BY <1>3 DEF Leave
  <2> HIDE DEF j, c, f
  <2>4. Life("release", j, current')
    BY <1>1, <1>2, <2>1, <2>2 DEF Knows, Life, Truthful, Unbuilt, Before, After
  <2>5. Kept("release", j, disk', doubled')
    BY <2>1, <2>2 DEF Kept, Before, After, Recovery
  <2>6. Timed("release", j, durable', clock')
    BY <1>1, <2>2 DEF Knows, Timed, Owning, Protected, c
  <2>7. QED
    BY <1>1, <2>3, <2>4, <2>5, <2>6, GotoInformed DEF Knows
<1>4. ASSUME NEW e, InstallRaises(f, c, e), Raise(r, e) PROVE InformedNext(r)
  BY <1>1, <1>4, RaisesMarker, RaiseInformed DEF Protected
<1>5. QED
  BY <1>3, <1>4 DEF WriteReceipt

(* An exit of the handler with an outcome.                                 *)
LEMMA LeaveLateInformed ==
    ASSUME TrackInv, NEW r \in Runners, NEW o \in {"failed", "unrecorded", "interrupted", "raised"},
           \/ pc[r] = "failure" /\ o # "raised"
           \/ pc[r] = "handle" /\ o = "interrupted"
           \/ pc[r] = "handle" /\ o = "raised" /\ job[r].stage = "validate",
           Leave(r, o),
           current' = current, durable' = durable, clock' = clock
    PROVE  InformedNext(r)
<1> DEFINE j == [job[r] EXCEPT !.result = o]
<1>1. /\ job[r] \in Jobs /\ ControlOK /\ Goto(r, "release", j)
      /\ Knows(pc[r], job[r], current, disk, doubled, durable, clock)
  BY TrackIs DEF Leave
<1>2. /\ j.prev = job[r].prev /\ j.cand = job[r].cand /\ j.result = o
      /\ j.stage = job[r].stage /\ j.id = job[r].id /\ j.run = job[r].run
      /\ j.rbFailed = job[r].rbFailed /\ j.retain = job[r].retain
  BY <1>1 DEF Jobs
<1> HIDE DEF j
<1>3. Life("release", j, current')
  <2>1. CASE pc[r] = "failure" /\ o # "raised"
    BY <1>1, <1>2, <2>1 DEF Knows, Life, Truthful, Unbuilt, Before, After
  <2>2. CASE pc[r] = "handle" /\ o = "interrupted"
    BY <1>1, <1>2, <2>2 DEF Knows, Life, Truthful, Unbuilt, Before, After
  <2>3. CASE pc[r] = "handle" /\ o = "raised" /\ job[r].stage = "validate"
    BY <1>1, <1>2, <2>3 DEF Knows, Life, Truthful, Unbuilt, Before, After
  <2>4. QED
    BY <2>1, <2>2, <2>3
<1>4. Kept("release", j, disk', doubled')
  BY <1>2 DEF Kept, Before, After, Recovery
<1>5. Timed("release", j, durable', clock')
  BY <1>1, <1>2 DEF Knows, Timed, Owning, Recovery
<1>6. QED
  BY <1>1, <1>3, <1>4, <1>5, GotoInformed DEF Knows

LEMMA RecordFailureInformed ==
    ASSUME TrackInv, NEW r \in Runners,
           RecordFailure(r) \/ HandlerEscapes(r)
    PROVE  InformedNext(r)
<1>1. ControlOK /\ clock' = clock
  BY TrackIs DEF RecordFailure, HandlerEscapes
<1>2. CASE HandlerEscapes(r)
  <2>1. current' = current /\ durable' = durable
    BY <1>2 DEF HandlerEscapes, Quiet
  <2>2. \/ /\ pc[r] \in {"handle", "failure"} /\ Leave(r, "interrupted")
        \/ /\ pc[r] = "handle" /\ job[r].stage = "validate" /\ Leave(r, "raised")
    BY <1>2 DEF HandlerEscapes
  <2>3. QED
    BY <1>1, <2>1, <2>2, LeaveLateInformed
<1>3. CASE RecordFailure(r)
  <2>1. pc[r] = "failure"
    BY <1>3 DEF RecordFailure
  <2>2. current' = current /\ durable' = durable
    BY <1>3, RaisesMarker DEF RecordFailure, Quiet, Install
  <2>3. Dies(r) \/ \E o \in {"failed", "unrecorded", "interrupted"} : Leave(r, o)
    BY <1>3 DEF RecordFailure, LeaveRaising
  <2>4. QED
    BY <1>1, <2>1, <2>2, <2>3, LeaveLateInformed, DiesInformed
<1>4. QED
  BY <1>2, <1>3

(* From one stage of the handler to another, nothing being written.        *)
LEMMA HandledInformed ==
    ASSUME TrackInv, NEW r \in Runners, pc[r] = "handle",
           NEW t \in {"failure", "rollback", "release"}, NEW j, Goto(r, t, j),
           Quiet, clock' = clock,
           j.prev = job[r].prev, j.cand = job[r].cand,
           j.id = job[r].id, j.run = job[r].run,
           j.rbFailed = job[r].rbFailed,
           t # "release" => j.retain = job[r].retain,
           t = "failure" => current = job[r].prev,
           t = "rollback" => job[r].cand # None /\ current = job[r].cand,
           t = "release" => /\ j.result \in {"interrupted", "undetermined"}
                            /\ j.result = "interrupted" /\ ~j.retain
                               => current \in {j.prev, j.cand}
    PROVE  InformedNext(r)
<1>1. /\ job[r] \in Jobs /\ ControlOK
      /\ Knows("handle", job[r], current, disk, doubled, durable, clock)
  BY TrackIs
<1>2. Life(t, j, current)
  BY <1>1 DEF Knows, Life, Truthful, Unbuilt, Before, After
<1>3. Kept(t, j, disk, doubled)
  BY <1>1 DEF Knows, Kept, Before, After, Recovery
<1>4. Timed(t, j, durable, clock)
  BY <1>1 DEF Knows, Timed, Owning, Recovery
<1>5. QED
  BY <1>1, <1>2, <1>3, <1>4, QuietInformed DEF Knows

LEMMA HandleInformed ==
    ASSUME TrackInv, NEW r \in Runners, HandleChanged(r) \/ HandleAmbiguous(r)
    PROVE  InformedNext(r)
<1>1. /\ job[r] \in Jobs /\ pc[r] = "handle" /\ Quiet /\ clock' = clock
      /\ Knows("handle", job[r], current, disk, doubled, durable, clock)
  BY TrackIs DEF HandleChanged, HandleAmbiguous
<1>2. CASE HandleChanged(r)
  <2> DEFINE j == [job[r] EXCEPT !.rawRef = None, !.normRef = None]
  <2>1. /\ j.prev = job[r].prev /\ j.cand = job[r].cand
        /\ j.id = job[r].id /\ j.run = job[r].run
        /\ j.rbFailed = job[r].rbFailed /\ j.retain = job[r].retain
    BY <1>1 DEF Jobs
  <2>2. Goto(r, "failure", j) /\ current = job[r].prev
    BY <1>1, <1>2 DEF HandleChanged, Knows, Life
  <2> HIDE DEF j
  <2>3. QED
    BY <1>1, <2>1, <2>2, HandledInformed
<1>3. CASE HandleAmbiguous(r)
  <2> DEFINE o == IF job[r].exc = "interrupt" THEN "interrupted" ELSE "undetermined"
             j == [job[r] EXCEPT !.retain = TRUE, !.result = o]
  <2>1. /\ j.prev = job[r].prev /\ j.cand = job[r].cand
        /\ j.id = job[r].id /\ j.run = job[r].run
        /\ j.rbFailed = job[r].rbFailed /\ j.retain /\ j.result = o
    BY <1>1 DEF Jobs
  <2>2. Goto(r, "release", j)
    BY <1>3 DEF HandleAmbiguous
  <2>3. o \in {"interrupted", "undetermined"}
    OBVIOUS
  <2> HIDE DEF j, o
  <2>4. QED
    BY <1>1, <2>1, <2>2, <2>3, HandledInformed
<1>4. QED
  BY <1>2, <1>3

LEMMA HandleKnownInformed ==
    ASSUME TrackInv, NEW r \in Runners, HandleKnown(r)
    PROVE  InformedNext(r)
<1> DEFINE state == MarkerState(job[r], current)
           unreferenced == [job[r] EXCEPT !.rawRef = None, !.normRef = None]
           interrupted(j) == [j EXCEPT !.result = "interrupted"]
           after(j) ==
              IF j.exc = "interrupt"
              THEN Goto(r, "release", interrupted(j))
              ELSE Goto(r, IF state = "candidate" THEN "rollback"
                           ELSE "failure", j)
<1>1. /\ job[r] \in Jobs /\ pc[r] = "handle" /\ Quiet /\ clock' = clock
      /\ state # "ambiguous"
      /\ after(job[r]) \/ after(unreferenced)
      /\ Knows("handle", job[r], current, disk, doubled, durable, clock)
  BY TrackIs DEF HandleKnown
<1>2. \/ state = "candidate" /\ job[r].cand # None /\ current = job[r].cand
      \/ state = "previous" /\ current = job[r].prev
  BY <1>1 DEF MarkerState
<1>3. ASSUME NEW j \in {job[r], unreferenced}
      PROVE  /\ j \in Jobs /\ j.prev = job[r].prev /\ j.cand = job[r].cand
             /\ j.id = job[r].id /\ j.run = job[r].run
             /\ j.rbFailed = job[r].rbFailed /\ j.retain = job[r].retain
  BY <1>1 DEF Jobs
<1> HIDE DEF unreferenced
<1>4. ASSUME NEW j \in {job[r], unreferenced}, after(j) PROVE InformedNext(r)
  <2>1. CASE j.exc = "interrupt"
    <3> DEFINE i == interrupted(j)
    <3>1. /\ i.prev = job[r].prev /\ i.cand = job[r].cand
          /\ i.id = job[r].id /\ i.run = job[r].run
          /\ i.rbFailed = job[r].rbFailed /\ i.retain = job[r].retain
          /\ i.result = "interrupted"
      BY <1>3 DEF Jobs
    <3>2. Goto(r, "release", i)
      BY <1>4, <2>1
    <3> HIDE DEF i
    <3>3. QED
      BY <1>1, <1>2, <3>1, <3>2, HandledInformed
  <2>2. CASE j.exc # "interrupt" /\ state = "candidate"
    <3>1. Goto(r, "rollback", j)
      BY <1>4, <2>2
    <3>2. QED
      BY <1>1, <1>2, <1>3, <2>2, <3>1, HandledInformed
  <2>3. CASE j.exc # "interrupt" /\ state = "previous"
    <3>1. Goto(r, "failure", j)
      BY <1>4, <2>3
    <3>2. QED
      BY <1>1, <1>2, <1>3, <2>3, <3>1, HandledInformed
  <2>4. QED
    BY <1>2, <2>1, <2>2, <2>3
<1>5. QED
  BY <1>1, <1>4

LEMMA RollbackInformed ==
    ASSUME TrackInv, NEW r \in Runners, Rollback(r)
    PROVE  InformedNext(r)
<1>1. /\ job[r] \in Jobs /\ ControlOK /\ pc[r] = "rollback" /\ clock' = clock
      /\ current' = job[r].prev /\ UNCHANGED <<disk, doubled>>
      /\ Goto(r, "failure", job[r])
      /\ Knows("rollback", job[r], current, disk, doubled, durable, clock)
  BY TrackIs DEF Rollback, ReplaceMarker
<1>2. Life("failure", job[r], current')
  BY <1>1 DEF Knows, Life, Unbuilt, Before, After
<1>3. Kept("failure", job[r], disk', doubled')
  BY <1>1 DEF Knows, Kept, Recovery
<1>4. Timed("failure", job[r], durable', clock')
  BY <1>1 DEF Knows, Timed, Owning, Recovery
<1>5. QED
  BY <1>1, <1>2, <1>3, <1>4, GotoInformed DEF Knows

LEMMA RollbackRaisesInformed ==
    ASSUME TrackInv, NEW r \in Runners, RollbackRaises(r)
    PROVE  InformedNext(r)
<1>1. /\ job[r] \in Jobs /\ ControlOK /\ pc[r] = "rollback" /\ clock' = clock
      /\ current' \in {current, job[r].prev} /\ UNCHANGED <<disk, doubled>>
      /\ durable' = durable
      /\ Knows("rollback", job[r], current, disk, doubled, durable, clock)
  BY TrackIs DEF RollbackRaises, ReplaceMarkerRaises
<1>2. CASE Dies(r)
  BY <1>1, <1>2, DiesInformed
<1>3. ASSUME NEW seen \in {MarkerState(job[r], current'), "ambiguous"},
             NEW o \in Results, NEW t \in {"release", "failure"},
             LET j == [job[r] EXCEPT !.rbFailed = seen = "candidate",
                                     !.retain = seen # "previous"]
             IN \/ seen = "ambiguous" /\ o = "undetermined" /\ t = "release"
                   /\ Goto(r, t, [j EXCEPT !.result = o])
                \/ seen # "ambiguous" /\ o = "interrupted" /\ t = "release"
                   /\ Goto(r, t, [j EXCEPT !.result = o])
                \/ seen # "ambiguous" /\ t = "failure" /\ Goto(r, t, j)
      PROVE  InformedNext(r)
  <2> DEFINE j == [job[r] EXCEPT !.rbFailed = (seen = "candidate"),
                                 !.retain = (seen # "previous")]
             k == [j EXCEPT !.result = o]
  <2>1. ASSUME NEW i \in {j, k}
        PROVE  /\ i.prev = job[r].prev /\ i.cand = job[r].cand
               /\ i.id = job[r].id /\ i.run = job[r].run
               /\ i.rbFailed = (seen = "candidate")
               /\ i.retain = (seen # "previous")
    BY <1>1 DEF Jobs
  <2>2. k.result = o
    BY <1>1 DEF Jobs
  <2>3. PICK i \in {j, k} :
           /\ Goto(r, t, i)
           /\ \/ t = "release" /\ i.result = o
                 /\ o = IF seen = "ambiguous" THEN "undetermined" ELSE "interrupted"
              \/ t = "failure" /\ seen # "ambiguous"
    BY <1>3, <2>2
  <2> HIDE DEF j, k
  <2>4. /\ seen = "candidate" => current' = job[r].cand
        /\ seen = "previous" => current' = job[r].prev
        /\ seen \in {"candidate", "previous", "ambiguous"}
    BY DEF MarkerState
  <2>5. Life(t, i, current')
    BY <1>1, <2>1, <2>3, <2>4 DEF Knows, Life, Truthful, Unbuilt, Before, After
  <2>6. Kept(t, i, disk', doubled')
    BY <1>1, <2>1, <2>3 DEF Knows, Kept, Before, After, Recovery
  <2>7. Timed(t, i, durable', clock')
    BY <1>1, <2>1 DEF Knows, Timed, Owning, Recovery
  <2>8. QED
    BY <1>1, <2>3, <2>5, <2>6, <2>7, GotoInformed DEF Knows
<1>4. QED
  BY <1>2, <1>3 DEF RollbackRaises, Results

LEMMA EntryInformed ==
    ASSUME TrackInv, NEW r \in Runners,
           \/ Start(r) \/ Kill(r) \/ AcquireLock(r) \/ AcquireFails(r)
           \/ ReleaseLock(r)
    PROVE  InformedNext(r)
<1>1. /\ job[r] \in Jobs /\ ControlOK /\ Quiet /\ clock' = clock
      /\ Knows(pc[r], job[r], current, disk, doubled, durable, clock)
  BY TrackIs DEF Start, Kill, AcquireLock, AcquireFails, ReleaseLock
<1>2. CASE Dies(r)
  BY <1>1, <1>2, DiesInformed
<1>3. CASE pc[r] = "lock" /\ Goto(r, "load", job[r])
  <2>1. Knows("load", job[r], current, disk, doubled, durable, clock)
    BY <1>1, <1>3 DEF Knows, Life, Kept, Timed, Unbuilt, Before, After,
       Recovery, Owning
  <2>2. QED
    BY <1>1, <1>3, <2>1, QuietInformed
<1>4. CASE Start(r)
  <2>1. PICK i : Goto(r, "lock", [NoJob EXCEPT !.id = i, !.run = runs'])
    BY <1>4 DEF Start
  <2> DEFINE j == [NoJob EXCEPT !.id = i, !.run = runs']
  <2>2. /\ j.prev = None /\ j.cand = None /\ j.stage = "none"
        /\ ~j.rbFailed /\ ~j.retain
    BY DEF NoJob
  <2> HIDE DEF j
  <2>3. Knows("lock", j, current, disk, doubled, durable, clock)
    BY <2>2 DEF Knows, Life, Kept, Timed, Unbuilt, Before, After, Recovery, Owning,
       Preflight, Protected
  <2>4. QED
    BY <1>1, <2>1, <2>3, QuietInformed DEF j
<1>5. QED
  BY <1>2, <1>3, <1>4 DEF Start, Kill, AcquireLock, AcquireFails, ReleaseLock

LEMMA StepInformed ==
    ASSUME TrackInv, Persists, NEW r \in Runners, Start(r) \/ Step(r) \/ Kill(r)
    PROVE  InformedNext(r)
BY EntryInformed, LoadInformed, ArchiveInformed, LimitInformed,
   EarlyStageInformed, CallbackInformed, BuildInformed, PrecommitInformed,
   CommitInformed, WriteReceiptInformed, HandleInformed, HandleKnownInformed,
   RollbackInformed, RollbackRaisesInformed, RecordFailureInformed
   DEF Step, PreflightInterrupted

-----------------------------------------------------------------------------
(* What a stage writes: the entry and its content.                         *)

Writing(r, f, c) ==
    \/ pc[r] = "archive" /\ f = ReceiptFile(job[r].prev.id) /\ c = job[r].prev
    \/ pc[r] = "limit" /\ f = ReceiptFile(job[r].id) /\ c = Failure(job[r])
    \/ pc[r] = "raw" /\ f = RawFile(job[r].raw) /\ c = job[r].raw
    \/ pc[r] = "normalize" /\ c = Normalize[job[r].raw] /\ f = NormFile(c)
    \/ pc[r] = "receipt" /\ f = ReceiptFile(job[r].id) /\ c = job[r].cand
    \/ /\ pc[r] = "failure" /\ c = Failure(job[r])
       /\ f = IF job[r].rbFailed THEN FailureFile(job[r].id)
              ELSE ReceiptFile(job[r].id)

Puts(f, c) == Install(f, c) \/ \E e : InstallRaises(f, c, e)

LEMMA WritingTyped ==
    ASSUME TypeInv, NEW r \in Runners, NEW f, NEW c, Writing(r, f, c)
    PROVE  f \in Files /\ c \in Contents
<1>1. job[r] \in Jobs /\ Local(pc[r], job[r])
  BY JobIs, TypeInvIs
<1>2. pc[r] # "idle" => job[r].id \in AttemptIds
  BY <1>1 DEF Local
<1>3. CASE pc[r] \in {"limit", "failure"}
  <2>1. c = Failure(job[r])
        /\ f \in {ReceiptFile(job[r].id), FailureFile(job[r].id)}
    BY <1>3 DEF Writing
  <2>2. QED
    BY <1>1, <1>2, <1>3, <2>1, FailureTyped, FilesAre
<1>4. CASE pc[r] \in {"archive", "receipt"}
  <2>1. PICK m \in SuccessReceipts :
             c = m /\ f \in {ReceiptFile(m.id), ReceiptFile(job[r].id)}
    BY <1>1, <1>4 DEF Writing, Local, Jobs
  <2>2. m.id \in AttemptIds
    BY DEF SuccessReceipts
  <2>3. QED
    BY <1>2, <1>4, <2>1, <2>2, FilesAre DEF Contents, Receipts
<1>5. CASE pc[r] = "raw"
  BY <1>1, <1>5, FilesAre DEF Writing, Local
<1>6. CASE pc[r] = "normalize"
  <2>1. Normalize[job[r].raw] \in Norms
    BY <1>1, <1>6, StoreAssumption DEF Local
  <2>2. QED
    BY <1>6, <2>1, FilesAre DEF Writing
<1>7. QED
  BY <1>3, <1>4, <1>5, <1>6 DEF Writing

LEMMA StepPuts ==
    ASSUME NEW r \in Runners, Start(r) \/ Step(r) \/ Kill(r)
    PROVE  \/ UNCHANGED <<disk, doubled>> /\ unlinked' \subseteq unlinked
           \/ \E f, c : Writing(r, f, c) /\ Puts(f, c)
<1>1. CASE \/ Start(r) \/ Kill(r) \/ AcquireLock(r) \/ AcquireFails(r)
           \/ LoadActive(r) \/ CheckOwnReceipt(r) \/ PreflightInterrupted(r)
           \/ Fetch(r) \/ BuildMarker(r) \/ Precommit(r)
           \/ ValidateActivated(r) \/ FinalizationAllowed(r)
           \/ CallbackRaises(r) \/ StageInterrupted(r)
           \/ HandleChanged(r) \/ HandleAmbiguous(r) \/ HandleKnown(r)
           \/ HandlerEscapes(r) \/ InterruptedUnguarded(r) \/ ReleaseLock(r)
  <2>1. Quiet
    BY <1>1 DEF Start, Kill, AcquireLock, AcquireFails, LoadActive,
       CheckOwnReceipt, PreflightInterrupted, Fetch, BuildMarker, Precommit,
       ValidateActivated, FinalizationAllowed, CallbackRaises,
       StageInterrupted, HandleChanged, HandleAmbiguous, HandleKnown,
       HandlerEscapes, InterruptedUnguarded, ReleaseLock
  <2>2. QED
    BY <2>1 DEF Quiet
<1>2. CASE Commit(r) \/ Rollback(r) \/ RollbackRaises(r)
  BY <1>2 DEF Commit, Rollback, RollbackRaises, ReplaceMarker, ReplaceMarkerRaises
<1>3. CASE ArchiveActive(r) \/ RecordLimit(r)
  BY <1>3 DEF ArchiveActive, RecordLimit, Writing, Puts, Quiet
<1>4. CASE PreserveRaw(r) \/ PreserveNormalized(r)
  BY <1>4 DEF PreserveRaw, PreserveNormalized, Writing, Puts
<1>5. CASE WriteReceipt(r)
  BY <1>5 DEF WriteReceipt, Writing, Puts
<1>6. CASE RecordFailure(r)
  BY <1>6 DEF RecordFailure, Writing, Puts, Quiet
<1>7. QED
  BY <1>1, <1>2, <1>3, <1>4, <1>5, <1>6 DEF Step

(* What a step does to the marker.                                         *)
Moves(r) ==
    \/ UNCHANGED <<current, durable>>
    \/ /\ \/ pc[r] = "commit" /\ current' = job[r].cand
          \/ pc[r] = "rollback" /\ current' = job[r].prev
       /\ durable' \in {durable, current'}
       /\ UNCHANGED <<disk, doubled>>

LEMMA StepMovesMarker ==
    ASSUME NEW r \in Runners, Start(r) \/ Step(r) \/ Kill(r)
    PROVE  Moves(r)
<1>1. CASE Commit(r)
  BY <1>1 DEF Commit, ReplaceMarker, ReplaceMarkerRaises, Moves
<1>2. CASE Rollback(r) \/ RollbackRaises(r)
  BY <1>2 DEF Rollback, RollbackRaises, ReplaceMarker, ReplaceMarkerRaises, Moves
<1>3. CASE ArchiveActive(r) \/ RecordLimit(r) \/ PreserveRaw(r)
           \/ PreserveNormalized(r) \/ WriteReceipt(r) \/ RecordFailure(r)
  BY <1>3 DEF ArchiveActive, RecordLimit, PreserveRaw, PreserveNormalized,
     WriteReceipt, RecordFailure, Install, InstallRaises, Collides,
     FailsUnlinked, FailsLinked, Quiet, Moves
<1>4. CASE Quiet
  BY <1>4 DEF Quiet, Moves
<1>5. QED
  BY <1>1, <1>2, <1>3, <1>4
     DEF Step, Start, Kill, AcquireLock, AcquireFails, LoadActive,
     CheckOwnReceipt, PreflightInterrupted, Fetch, BuildMarker, Precommit,
     ValidateActivated, FinalizationAllowed, CallbackRaises,
     StageInterrupted, HandleChanged, HandleAmbiguous, HandleKnown,
     HandlerEscapes, InterruptedUnguarded, ReleaseLock

LEMMA StepClock ==
    ASSUME TypeInv, NEW r \in Runners, Start(r) \/ Step(r) \/ Kill(r)
    PROVE  clock' \in Nat /\ clock <= clock'
<1>1. clock \in Nat
  BY TypeInvIs
<1>2. CASE BuildMarker(r)
  BY <1>1, <1>2, RunAssumption DEF BuildMarker
<1>3. CASE clock' = clock
  BY <1>1, <1>3
<1>4. QED
  BY <1>2, <1>3
     DEF Step, Start, Kill, AcquireLock, AcquireFails, LoadActive,
     ArchiveActive, RecordLimit, PreserveRaw, PreserveNormalized,
     WriteReceipt, RecordFailure, Commit, Rollback, RollbackRaises,
     CheckOwnReceipt, PreflightInterrupted, Fetch, Precommit,
     ValidateActivated, FinalizationAllowed, CallbackRaises,
     StageInterrupted, HandleChanged, HandleAmbiguous, HandleKnown,
     HandlerEscapes, InterruptedUnguarded, ReleaseLock

LEMMA StepPersists ==
    ASSUME StoreTypeOK, NEW r \in Runners, Start(r) \/ Step(r) \/ Kill(r)
    PROVE  Persists
<1>1. ASSUME NEW m \in SuccessReceipts, InHistory(m, disk, doubled)
      PROVE  InHistory(m, disk', doubled')
  <2>1. ReceiptFile(m.id) \in Files /\ m # None
    BY FilesAre, RunAssumption DEF SuccessReceipts, Receipts
  <2>2. Holds(ReceiptFile(m.id), m)
    BY <1>1 DEF InHistory, Holds
  <2>3. Holds(ReceiptFile(m.id), m)'
    BY <2>1, <2>2, StepWrites, InstallKeeps, RaisesKeep DEF Writes, Holds
  <2>4. QED
    BY <2>3 DEF InHistory, Holds
<1>2. QED
  BY <1>1 DEF Persists

LEMMA PutsLinked ==
    ASSUME StoreTypeOK, MarkerTimed, NEW f \in Files, NEW c, c # None, Puts(f, c)
    PROVE  \A g \in doubled' \cup unlinked' : disk'[g] # None
<1>1. \A g \in doubled \cup unlinked : g \in Files /\ disk[g] # None
  BY DEF StoreTypeOK, MarkerTimed
<1>2. CASE Install(f, c)
  BY <1>1, <1>2 DEF Install, StoreTypeOK
<1>3. ASSUME NEW e, InstallRaises(f, c, e)
      PROVE  \A g \in doubled' \cup unlinked' : disk'[g] # None
  BY <1>1, <1>3 DEF InstallRaises, Collides, FailsUnlinked, FailsLinked, StoreTypeOK
<1>4. QED
  BY <1>2, <1>3 DEF Puts

LEMMA MarkerTimedStep ==
    ASSUME TrackInv, NEW r \in Runners, Start(r) \/ Step(r) \/ Kill(r)
    PROVE  MarkerTimed'
<1>1. /\ TypeInv /\ StoreTypeOK /\ MarkerTimed /\ clock \in Nat
      /\ job[r] \in Jobs /\ Local(pc[r], job[r])
      /\ Knows(pc[r], job[r], current, disk, doubled, durable, clock)
  BY TrackIs DEF TrackInv, LockInv
<1>2. clock' \in Nat /\ clock <= clock' /\ Persists /\ Moves(r)
  BY <1>1, StepClock, StepPersists, StepMovesMarker
<1>3. \A f \in doubled' \cup unlinked' : disk'[f] # None
  <2>1. CASE UNCHANGED <<disk, doubled>> /\ unlinked' \subseteq unlinked
    BY <1>1, <2>1 DEF MarkerTimed
  <2>2. ASSUME NEW f, NEW c, Writing(r, f, c), Puts(f, c)
        PROVE  \A g \in doubled' \cup unlinked' : disk'[g] # None
    <3>1. f \in Files /\ c \in Contents /\ c # None
      BY <1>1, <2>2, WritingTyped, StoreAssumption, RunAssumption DEF Contents
    <3>2. QED
      BY <1>1, <2>2, <3>1, PutsLinked
  <2>3. QED
    BY <2>1, <2>2, StepPuts
<1>4. CASE UNCHANGED <<current, durable>>
  <2>1. /\ current # None => current \in SuccessReceipts /\ current.done \in Nat
        /\ durable # None => durable.done \in Nat
    BY <1>1 DEF StoreTypeOK, SuccessReceipts
  <2>2. current # None /\ Archived(current) => Archived(current)'
    BY <1>2, <1>4, <2>1, HistoryIs DEF Persists, Archived, Holds, InHistory
  <2>3. QED
    BY <1>1, <1>2, <1>3, <1>4, <2>1, <2>2 DEF MarkerTimed, Archived, Holds
<1>5. CASE /\ pc[r] = "commit" /\ current' = job[r].cand
           /\ durable' \in {durable, current'}
  <2>1. /\ current' \in SuccessReceipts /\ current' # None
        /\ current'.done \in Nat /\ current'.done <= clock
    BY <1>1, <1>5, RunAssumption DEF Local, Knows, Timed, Owning, Protected,
       SuccessReceipts, Receipts
  <2>2. durable # None => /\ durable.done \in Nat /\ durable.done <= clock
                          /\ durable.done <= current'.done
    BY <1>1, <1>5 DEF Knows, Timed, MarkerTimed, StoreTypeOK, SuccessReceipts
  <2>3. QED
    BY <1>1, <1>2, <1>3, <1>5, <2>1, <2>2 DEF MarkerTimed
<1>6. CASE /\ pc[r] = "rollback" /\ current' = job[r].prev
           /\ durable' \in {durable, current'} /\ UNCHANGED <<disk, doubled>>
  <2>1. current' # None => /\ current' \in SuccessReceipts
                           /\ current'.done \in Nat /\ current'.done <= clock
                           /\ InHistory(current', disk', doubled')
    BY <1>1, <1>6 DEF Knows, Kept, Timed, Owning, Recovery, SuccessReceipts, Jobs
  <2>2. durable # None => durable.done \in Nat /\ durable.done <= clock
    BY <1>1 DEF MarkerTimed, StoreTypeOK, SuccessReceipts
  <2>3. current' # None => Archived(current)'
    BY <2>1 DEF InHistory, Archived, Holds
  <2>4. QED
    BY <1>1, <1>2, <1>3, <1>6, <2>1, <2>2, <2>3 DEF MarkerTimed
<1>7. QED
  BY <1>2, <1>4, <1>5, <1>6 DEF Moves

(* Only the owner of the lock touches the files, the marker and the clock. *)
LEMMA OutsiderQuiet ==
    ASSUME TypeInv, NEW r \in Runners, Start(r) \/ Step(r) \/ Kill(r), ~Owns(r)
    PROVE  Quiet /\ clock' = clock
<1>1. CASE Start(r) \/ Kill(r) \/ AcquireLock(r) \/ AcquireFails(r)
  BY <1>1 DEF Start, Kill, AcquireLock, AcquireFails
<1>2. ~ReleaseLock(r)
  BY DEF ReleaseLock, Owns, Owning
<1>3. ~Advances(r)
  BY DEF Advances
<1>4. QED
  BY <1>1, <1>2, <1>3, PreflightAdvances, StageAdvances, HandlerAdvances DEF Step

LEMMA OthersInformed ==
    ASSUME TrackInv, NEW r \in Runners, Start(r) \/ Step(r) \/ Kill(r),
           NEW s \in Runners, s # r
    PROVE  InformedNext(s)
<1>1. /\ TypeInv /\ pc[s] \in Stages
      /\ Knows(pc[s], job[s], current, disk, doubled, durable, clock)
  BY TrackIs DEF TrackInv, LockInv
<1>2. pc'[s] = pc[s] /\ job'[s] = job[s]
  BY <1>1, StepCarries DEF Carries
<1>3. CASE Owns(s)
  <2>1. ~Owns(r)
    BY <1>3 DEF TrackInv, LockInv, Serial, Owns, Owning, Preflight, Protected,
       Recovery
  <2>2. QED
    BY <1>1, <1>2, <2>1, OutsiderQuiet DEF InformedNext, Quiet
<1>4. CASE ~Owns(s)
  <2>1. pc[s] \in {"idle", "lock"}
    BY <1>1, <1>4 DEF Owns, Stages
  <2>2. QED
    BY <1>1, <1>2, <2>1 DEF InformedNext, Knows, Life, Kept, Timed, Unbuilt,
       Before, After, Recovery, Owning, Preflight, Protected
<1>5. QED
  BY <1>3, <1>4

LEMMA PowerLossTracks ==
    ASSUME TrackInv, PowerLoss
    PROVE  MarkerTimed' /\ \A r \in Runners : InformedNext(r)
<1>1. StoreTypeOK /\ MarkerTimed /\ clock' = clock
  BY TypeInvIs DEF TrackInv, LockInv, PowerLoss
<1>2. PICK lost \in SUBSET volatile :
          /\ disk' = [f \in Files |-> IF f \in lost THEN None ELSE disk[f]]
          /\ doubled' \in SUBSET ((doubled \cup unlinked) \ lost)
          /\ unlinked' = {}
  BY DEF PowerLoss, LosePower
<1>3. \A f \in doubled' \cup unlinked' : disk'[f] # None
  BY <1>1, <1>2 DEF StoreTypeOK, MarkerTimed
<1>4. current' \in {current, durable} /\ durable' = current'
  BY DEF PowerLoss, LosePower
<1>5. current' # None => current'.done \in Nat
  BY <1>1, <1>4 DEF StoreTypeOK, SuccessReceipts
<1>6. MarkerTimed'
  BY <1>1, <1>3, <1>4, <1>5 DEF MarkerTimed
<1>7. \A r \in Runners : pc'[r] = "idle"
  BY DEF PowerLoss
<1>8. QED
  BY <1>6, <1>7 DEF InformedNext, Knows, Life, Kept, Timed, Unbuilt, Before,
     After, Recovery, Owning, Preflight, Protected

LEMMA TrackStep == TrackInv /\ [Next]_vars => TrackInv'
<1> SUFFICES ASSUME TrackInv, [Next]_vars PROVE TrackInv'
  OBVIOUS
<1>1. LockInv' /\ StoreTypeOK
  BY TypeStep, SerialStep, TypeInvIs DEF TrackInv, LockInv
<1>2. SUFFICES MarkerTimed' /\ \A r \in Runners : InformedNext(r)
  BY <1>1 DEF TrackInv, Informed, InformedNext
<1>3. ASSUME NEW r \in Runners, Start(r) \/ Step(r) \/ Kill(r)
      PROVE  MarkerTimed' /\ \A s \in Runners : InformedNext(s)
  BY <1>1, <1>3, StepPersists, MarkerTimedStep, StepInformed, OthersInformed
<1>4. CASE ClearLock \/ UNCHANGED vars
  <2>1. UNCHANGED <<disk, doubled, unlinked, current, durable, clock, pc, job>>
    BY <1>4 DEF ClearLock, Quiet, vars, storeVars
  <2>2. QED
    BY <2>1 DEF TrackInv, MarkerTimed, Archived, Holds, Informed, InformedNext
<1>5. QED
  BY <1>3, <1>4, PowerLossTracks DEF Next

LEMMA TrackInit == Init => TrackInv
<1> SUFFICES ASSUME Init PROVE TrackInv
  OBVIOUS
<1>1. LockInv
  BY TypeInit DEF Init, LockInv, Serial, Owns, Owning, Preflight, Protected,
     Recovery
<1>2. MarkerTimed
  BY DEF Init, StoreInit, MarkerTimed
<1>3. \A r \in Runners : Informed(r)
  BY DEF Init, Informed, Knows, Life, Kept, Timed, Unbuilt, Before, After,
     Recovery, Owning, Preflight, Protected
<1>4. QED
  BY <1>1, <1>2, <1>3 DEF TrackInv

LEMMA TrackInvariant == Spec => []TrackInv
BY TrackInit, TrackStep, PTL DEF Spec

(* What a caller of run_ingestion is told is what happened to the marker,  *)
(* wherever the call was interrupted or failed, and although other calls   *)
(* and a power loss come in between.                                       *)
THEOREM ResultsAreTruthful == Spec => []ResultTruthful
<1>1. TrackInv => ResultTruthful
  <2> SUFFICES ASSUME TrackInv, NEW r \in Runners, pc[r] = "release"
               PROVE  /\ Truthful(job[r], current)
                      /\ job[r].result = "success" => Archived(job[r].cand)
    BY DEF ResultTruthful, Truthful
  <2>1. QED
    BY HistoryIs DEF TrackInv, Informed, Knows, Life, Kept
<1>2. QED
  BY <1>1, TrackInvariant, PTL

(* A marker is replaced by a later one only when the receipt history       *)
(* already holds it: by a commit, by a rollback or by a power loss that    *)
(* brings back what was synced.                                            *)
THEOREM SupersededAreArchived == Spec => SupersededIsArchived
<1> DEFINE Superseding ==
       /\ current # None /\ current' # None /\ current'.done > current.done
<1>1. TrackInv /\ [Next]_vars => [Superseding => Archived(current)]_vars
  <2> SUFFICES ASSUME TrackInv, [Next]_vars, Superseding PROVE Archived(current)
    OBVIOUS
  <2>1. ASSUME NEW r \in Runners, Start(r) \/ Step(r) \/ Kill(r)
        PROVE  Archived(current)
    <3>1. /\ job[r] \in Jobs /\ StoreTypeOK
          /\ Knows(pc[r], job[r], current, disk, doubled, durable, clock)
          /\ current \in SuccessReceipts
      BY TrackIs DEF StoreTypeOK
    <3>2. current' # current
      BY <3>1 DEF SuccessReceipts
    <3>3. CASE pc[r] = "commit"
      BY <3>1, <3>3, HistoryIs DEF Knows, Life, Kept, Before
    <3>4. CASE pc[r] = "rollback" /\ current' = job[r].prev
      <4>1. current = job[r].cand /\ job[r].prev.done <= job[r].cand.done
        BY <3>1, <3>4 DEF Knows, Life, Timed, Owning, Recovery
      <4>2. current.done \in Nat /\ current'.done \in Nat
        BY <3>1, <3>4 DEF SuccessReceipts, Jobs
      <4>3. QED
        BY <3>4, <4>1, <4>2
    <3>5. QED
      BY <2>1, <3>2, <3>3, <3>4, StepMovesMarker DEF Moves
  <2>2. CASE PowerLoss
    <3>1. current' = durable \/ current' = current
      BY <2>2 DEF PowerLoss, LosePower
    <3>2. current.done \in Nat
      BY TypeInvIs DEF TrackInv, LockInv, StoreTypeOK, SuccessReceipts
    <3>3. QED
      BY <3>1, <3>2 DEF TrackInv, MarkerTimed
  <2>3. CASE ClearLock \/ UNCHANGED vars
    <3>1. current' = current
      BY <2>3 DEF ClearLock, Quiet, vars, storeVars
    <3>2. current.done \in Nat
      BY TypeInvIs DEF TrackInv, LockInv, StoreTypeOK, SuccessReceipts
    <3>3. QED
      BY <3>1, <3>2
  <2>4. QED
    BY <2>1, <2>2, <2>3 DEF Next
<1>2. QED
  BY <1>1, TrackInvariant, PTL DEF Spec, SupersededIsArchived

-----------------------------------------------------------------------------
(* How a call ends.  It goes on under the lock, and if it then retains it, *)
(* something failed in the step; or it is cut off by a kill.               *)

Struck    == faults' > faults
GoesOn(r) == pc'[r] \in Owning /\ (job'[r].retain => job[r].retain \/ Struck)
Cut(r)    == Dies(r) /\ Struck /\ "kill" \in Faults

LEMMA GotoGoesOn ==
    ASSUME ControlOK, NEW r \in Runners, NEW s \in Owning, NEW j,
           j.retain => job[r].retain \/ Struck,
           Goto(r, s, j)
    PROVE  GoesOn(r)
BY GotoIs DEF GoesOn

LEMMA StrikeIs ==
    ASSUME StoreTypeOK, NEW e
    PROVE  /\ Strike(e) => Struck /\ e \in Faults
           /\ FailsUnlinked(e) => Strike(e)
           /\ \A f, c : FailsLinked(f, c, e) => Strike(e)
           /\ \A f, c : InstallRaises(f, c, e) => e = "exception" \/ Strike(e)
           /\ \A m : ReplaceMarkerRaises(m, e) => Strike(e)
<1>1. faults \in Nat
  BY StoreAssumption DEF StoreTypeOK
<1>2. Strike(e) => Struck /\ e \in Faults
  BY <1>1 DEF Strike, Struck
<1>3. QED
  BY <1>2 DEF FailsUnlinked, FailsLinked, InstallRaises, Collides,
     ReplaceMarkerRaises

(* An exception or an interrupt leads to the release or to the handler.    *)
LEMMA ExitGoesOn ==
    ASSUME ControlOK, StoreTypeOK, NEW r \in Runners,
           NEW e, e = "exception" \/ Strike(e),
           \/ \E o : Leave(r, o) \/ LeaveRaising(r, e, o)
           \/ Raise(r, e)
    PROVE  GoesOn(r) \/ Cut(r)
<1>1. job[r] \in Jobs
  BY JobIs
<1>2. ASSUME NEW o, Leave(r, o) PROVE GoesOn(r)
  <2> DEFINE j == [job[r] EXCEPT !.result = o]
  <2>1. j.retain = job[r].retain
    BY <1>1 DEF Jobs
  <2> HIDE DEF j
  <2>2. QED
    BY <1>2, <2>1, GotoGoesOn DEF Leave, Owning, j
<1>3. ASSUME Raise(r, e), e # "kill" PROVE GoesOn(r)
  <2> DEFINE j == [job[r] EXCEPT !.stage = pc[r], !.exc = e]
  <2>1. j.retain = job[r].retain
    BY <1>1 DEF Jobs
  <2>2. Goto(r, "handle", j)
    BY <1>3 DEF Raise
  <2> HIDE DEF j
  <2>3. QED
    BY <2>1, <2>2, GotoGoesOn DEF Owning, Recovery
<1>4. CASE e = "kill" /\ Dies(r)
  BY <1>4, StrikeIs DEF Cut
<1>5. QED
  BY <1>2, <1>3, <1>4 DEF LeaveRaising, Raise

LEMMA PreflightGoesOn ==
    ASSUME TypeInv, NEW r \in Runners,
           \/ LoadActive(r) \/ ArchiveActive(r) \/ CheckOwnReceipt(r)
           \/ RecordLimit(r) \/ PreflightInterrupted(r)
    PROVE  GoesOn(r) \/ Cut(r)
<1>1. job[r] \in Jobs /\ ControlOK /\ StoreTypeOK
  BY JobIs, TypeInvIs
<1>2. /\ [job[r] EXCEPT !.prev = current].retain = job[r].retain
      /\ [job[r] EXCEPT !.prev = None].retain = job[r].retain
  BY <1>1 DEF Jobs
<1>3. CASE LoadActive(r) \/ CheckOwnReceipt(r)
  BY <1>1, <1>2, <1>3, GotoGoesOn, ExitGoesOn
     DEF LoadActive, CheckOwnReceipt, Owning, Preflight, Protected
<1>4. CASE ArchiveActive(r)
  <2>1. ASSUME NEW f, NEW c, NEW e, InstallRaises(f, c, e), LeaveRaising(r, e, "raised")
        PROVE  GoesOn(r) \/ Cut(r)
    BY <1>1, <2>1, StrikeIs, ExitGoesOn
  <2>2. QED
    BY <1>1, <1>2, <1>4, <2>1, GotoGoesOn DEF ArchiveActive, Owning, Preflight
<1>5. CASE RecordLimit(r)
  <2>1. ASSUME NEW f, NEW c, NEW e, InstallRaises(f, c, e),
               LeaveRaising(r, e, "unrecorded")
        PROVE  GoesOn(r) \/ Cut(r)
    BY <1>1, <2>1, StrikeIs, ExitGoesOn
  <2>2. QED
    BY <1>1, <1>5, <2>1, ExitGoesOn DEF RecordLimit
<1>6. CASE PreflightInterrupted(r)
  BY <1>1, <1>6, ExitGoesOn DEF PreflightInterrupted
<1>7. QED
  BY <1>3, <1>4, <1>5, <1>6

LEMMA StageGoesOn ==
    ASSUME TypeInv, NEW r \in Runners,
           \/ Fetch(r) \/ PreserveRaw(r) \/ PreserveNormalized(r)
           \/ BuildMarker(r) \/ Precommit(r) \/ Commit(r)
           \/ ValidateActivated(r) \/ FinalizationAllowed(r) \/ WriteReceipt(r)
           \/ CallbackRaises(r) \/ StageInterrupted(r)
    PROVE  GoesOn(r) \/ Cut(r)
<1>1. job[r] \in Jobs /\ ControlOK /\ StoreTypeOK
  BY JobIs, TypeInvIs
<1>2. ASSUME NEW v
      PROVE  /\ [job[r] EXCEPT !.raw = v].retain = job[r].retain
             /\ [job[r] EXCEPT !.rawRef = v].retain = job[r].retain
             /\ [job[r] EXCEPT !.normRef = v].retain = job[r].retain
             /\ [job[r] EXCEPT !.cand = v].retain = job[r].retain
             /\ [job[r] EXCEPT !.stage = "precommit", !.exc = "changed"].retain
                = job[r].retain
  BY <1>1 DEF Jobs
<1>3. ASSUME NEW e, Raise(r, e),
             \/ \E f, c : InstallRaises(f, c, e)
             \/ \E m : ReplaceMarkerRaises(m, e)
      PROVE  GoesOn(r) \/ Cut(r)
  BY <1>1, <1>3, StrikeIs, ExitGoesOn
<1>4. CASE Fetch(r)
  BY <1>1, <1>2, <1>4, GotoGoesOn DEF Fetch, Owning, Protected
<1>5. CASE PreserveRaw(r) \/ PreserveNormalized(r)
  BY <1>1, <1>2, <1>3, <1>5, GotoGoesOn
     DEF PreserveRaw, PreserveNormalized, Owning, Protected
<1>6. CASE BuildMarker(r) \/ Precommit(r)
  BY <1>1, <1>2, <1>6, GotoGoesOn, ExitGoesOn
     DEF BuildMarker, Precommit, Owning, Protected, Recovery
<1>7. CASE Commit(r) \/ WriteReceipt(r)
  BY <1>1, <1>3, <1>7, GotoGoesOn, ExitGoesOn
     DEF Commit, WriteReceipt, Owning, Protected
<1>8. CASE ValidateActivated(r) \/ FinalizationAllowed(r)
  BY <1>1, <1>8, GotoGoesOn, ExitGoesOn
     DEF ValidateActivated, FinalizationAllowed, Owning, Protected
<1>9. CASE CallbackRaises(r) \/ StageInterrupted(r)
  BY <1>1, <1>9, ExitGoesOn DEF CallbackRaises, StageInterrupted
<1>10. QED
  BY <1>4, <1>5, <1>6, <1>7, <1>8, <1>9

LEMMA HandlerGoesOn ==
    ASSUME TrackInv, NEW r \in Runners,
           \/ HandleChanged(r) \/ HandleAmbiguous(r) \/ HandleKnown(r)
           \/ Rollback(r) \/ RollbackRaises(r) \/ RecordFailure(r)
           \/ HandlerEscapes(r)
    PROVE  GoesOn(r) \/ Cut(r)
<1>1. /\ job[r] \in Jobs /\ ControlOK /\ StoreTypeOK
      /\ Knows(pc[r], job[r], current, disk, doubled, durable, clock)
  BY TrackIs
<1> DEFINE unreferenced == [job[r] EXCEPT !.rawRef = None, !.normRef = None]
<1>2. unreferenced \in Jobs /\ unreferenced.retain = job[r].retain
  BY <1>1 DEF Jobs
<1>3. CASE HandleChanged(r)
  BY <1>1, <1>2, <1>3, GotoGoesOn DEF HandleChanged, Owning, Recovery
<1>4. CASE HandleAmbiguous(r)
  <2>1. MarkerState(job[r], current) # "ambiguous"
    BY <1>1, <1>4 DEF HandleAmbiguous, Knows, Life, MarkerState
  <2>2. Struck
    BY <1>1, <1>4, <2>1, StrikeIs DEF HandleAmbiguous
  <2>3. PICK j : Goto(r, "release", j)
    BY <1>4 DEF HandleAmbiguous
  <2>4. QED
    BY <1>1, <2>2, <2>3, GotoGoesOn DEF Owning
<1>5. CASE HandleKnown(r)
  <2> DEFINE state == MarkerState(job[r], current)
             after(j) ==
                IF j.exc = "interrupt"
                THEN Goto(r, "release", [j EXCEPT !.result = "interrupted"])
                ELSE Goto(r, IF state = "candidate" THEN "rollback"
                             ELSE "failure", j)
  <2>1. ASSUME NEW j \in Jobs, j.retain = job[r].retain, after(j) PROVE GoesOn(r)
    <3>1. [j EXCEPT !.result = "interrupted"].retain = j.retain
      BY <2>1 DEF Jobs
    <3>2. QED
      BY <1>1, <2>1, <3>1, GotoGoesOn DEF Owning, Recovery
  <2>2. after(job[r]) \/ after(unreferenced)
    BY <1>5 DEF HandleKnown
  <2> HIDE DEF after, unreferenced
  <2>3. QED
    BY <1>1, <1>2, <2>1, <2>2
<1>6. CASE Rollback(r)
  BY <1>1, <1>6, GotoGoesOn DEF Rollback, Owning, Recovery
<1>7. CASE RollbackRaises(r)
  <2>1. PICK e \in Stops :
           /\ Strike(e)
           /\ (e = "kill" /\ Dies(r)) \/ \E t \in {"release", "failure"} : \E j : Goto(r, t, j)
    BY <1>1, <1>7, StrikeIs DEF RollbackRaises
  <2>2. Struck /\ e \in Faults
    BY <1>1, <2>1, StrikeIs
  <2>3. QED
    BY <1>1, <2>1, <2>2, GotoGoesOn DEF Cut, Owning, Recovery
<1>8. CASE RecordFailure(r)
  <2>1. ASSUME NEW f, NEW c, NEW e, InstallRaises(f, c, e),
               LeaveRaising(r, e, "unrecorded")
        PROVE  GoesOn(r) \/ Cut(r)
    BY <1>1, <2>1, StrikeIs, ExitGoesOn
  <2>2. QED
    BY <1>1, <1>8, <2>1, ExitGoesOn DEF RecordFailure
<1>9. CASE HandlerEscapes(r)
  BY <1>1, <1>9, ExitGoesOn DEF HandlerEscapes
<1>10. QED
  BY <1>3, <1>4, <1>5, <1>6, <1>7, <1>8, <1>9

(* A runner that has the lock goes on, gives it back, or leaves it in one  *)
(* of the ways StaleLockHasCause names; any other leaves the lock alone.   *)
Retains(r) == ~job[r].retain /\ job'[r].retain

LEMMA StepLeaves ==
    ASSUME TrackInv, NEW r \in Runners, Start(r) \/ Step(r) \/ Kill(r)
    PROVE  /\ \/ pc'[r] \in Owning \/ lock' = 0 \/ LeavesLock(r)
              \/ ~Owns(r) /\ lock' = lock
           /\ Retains(r) => faults' > faults
<1>1. TypeInv /\ ControlOK /\ StoreTypeOK /\ job[r] \in Jobs
  BY TrackIs DEF TrackInv, LockInv
<1>2. ~NoJob.retain
  BY DEF NoJob
<1>3. CASE GoesOn(r)
  BY <1>1, <1>3 DEF GoesOn, Retains, Struck
<1>4. ASSUME Dies(r)
      PROVE  pc'[r] = "idle" /\ ~Retains(r)
  BY <1>1, <1>2, <1>4, GotoIs DEF Dies, Retains
<1>5. CASE Cut(r)
  <2>1. Struck /\ Dies(r) /\ Faults \cap {"kill", "power"} # {}
    BY <1>5 DEF Cut
  <2>2. CASE pc[r] # "idle"
    BY <1>4, <2>1, <2>2 DEF LeavesLock, Struck
  <2>3. CASE pc[r] = "idle"
    <3>1. Start(r)
      BY <2>3 DEF Step, Kill, AcquireLock, AcquireFails, LoadActive,
         ArchiveActive, CheckOwnReceipt, RecordLimit, PreflightInterrupted,
         InterruptedUnguarded, Fetch, PreserveRaw, PreserveNormalized,
         BuildMarker, Precommit, Commit, ValidateActivated,
         FinalizationAllowed, WriteReceipt, CallbackRaises, StageInterrupted,
         HandleChanged, HandleAmbiguous, HandleKnown, Rollback,
         RollbackRaises, RecordFailure, HandlerEscapes, ReleaseLock,
         Preflight, Protected
    <3>2. faults' = faults
      BY <3>1 DEF Start, Calm
    <3>3. faults \in Nat
      BY <1>1, StoreAssumption DEF StoreTypeOK
    <3>4. QED
      BY <2>1, <3>2, <3>3 DEF Struck
  <2>4. QED
    BY <2>2, <2>3
<1>6. CASE Start(r)
  <2>1. PICK i : Goto(r, "lock", [NoJob EXCEPT !.id = i, !.run = runs'])
    BY <1>6 DEF Start
  <2> DEFINE started == [NoJob EXCEPT !.id = i, !.run = runs']
  <2>2. ~started.retain /\ Goto(r, "lock", started)
    BY <1>2, <2>1 DEF NoJob
  <2> HIDE DEF started
  <2>3. ~job'[r].retain
    BY <1>1, <2>2, GotoIs
  <2>4. lock' = lock /\ ~Owns(r)
    BY <1>6 DEF Start, Owns, Owning, Preflight, Protected, Recovery
  <2>5. QED
    BY <2>3, <2>4 DEF Retains
<1>7. CASE AcquireLock(r)
  <2>1. CASE lock = 0
    <3>1. GoesOn(r)
      BY <1>1, <1>7, <2>1, GotoGoesOn DEF AcquireLock, Owning, Preflight
    <3>2. QED
      BY <1>3, <3>1
  <2>2. CASE lock # 0
    <3>1. lock' = lock /\ Dies(r) /\ ~Owns(r)
      BY <1>7, <2>2 DEF AcquireLock, Owns, Owning, Preflight, Protected, Recovery
    <3>2. QED
      BY <1>4, <3>1
  <2>3. QED
    BY <2>1, <2>2
<1>8. CASE AcquireFails(r) \/ InterruptedUnguarded(r)
  <2>1. pc[r] \in {"lock", "load", "fetch"} /\ Struck /\ Dies(r)
    BY <1>1, <1>8, StrikeIs DEF AcquireFails, InterruptedUnguarded
  <2>2. QED
    BY <1>4, <2>1 DEF LeavesLock, Struck
<1>9. CASE ReleaseLock(r)
  <2>1. lock = job[r].run
    BY <1>9 DEF ReleaseLock, TrackInv, LockInv, Serial, Owns, Owning
  <2>2. /\ Dies(r) /\ pc[r] = "release"
        /\ lock' = 0 \/ job[r].retain \/ Struck
    BY <1>1, <1>9, <2>1, StrikeIs DEF ReleaseLock
  <2>3. QED
    BY <1>4, <2>2 DEF LeavesLock, Struck
<1>10. CASE Kill(r)
  <2>1. Cut(r)
    BY <1>1, <1>10, StrikeIs DEF Kill, Cut
  <2>2. QED
    BY <1>5, <2>1
<1>11. QED
  BY <1>1, <1>3, <1>5, <1>6, <1>7, <1>8, <1>9, <1>10, PreflightGoesOn,
     StageGoesOn, HandlerGoesOn DEF Step

(* A step leaves a lock behind only if it is the release of a call that    *)
(* retains it, or a failure in the acquisition, before the first or        *)
(* between the two try blocks or in the release, or, where they happen, a  *)
(* kill or a power loss; and a call comes to retain it only at a step in   *)
(* which something failed.                                                 *)
THEOREM StaleLocksHaveCauses == Spec => StaleLockHasCause
<1> DEFINE Caused ==
       /\ ~Stale /\ Stale' => \E r \in Runners : LeavesLock(r)
       /\ \A r \in Runners : Retains(r) => faults' > faults
<1>1. TrackInv /\ [Next]_vars => [Caused]_vars
  <2> SUFFICES ASSUME TrackInv, [Next]_vars, vars' # vars PROVE Caused
    OBVIOUS
  <2>1. TypeInv /\ ControlOK
    BY TypeInvIs DEF TrackInv, LockInv
  <2>2. ASSUME NEW r \in Runners, Start(r) \/ Step(r) \/ Kill(r)
        PROVE  Caused
    <3>1. \A s \in Runners \ {r} : pc'[s] = pc[s] /\ job'[s] = job[s]
      BY <2>1, <2>2, StepCarries DEF Carries
    <3>2. \A s \in Runners : Retains(s) => faults' > faults
      BY <2>2, <3>1, StepLeaves DEF Retains
    <3>3. ASSUME ~Stale, Stale' PROVE LeavesLock(r)
      <4>1. lock' # 0 /\ pc'[r] \notin Owning
        BY <3>3 DEF Stale, Owns
      <4>2. ~(~Owns(r) /\ lock' = lock)
        BY <3>1, <3>3 DEF Stale, Owns
      <4>3. QED
        BY <2>2, <4>1, <4>2, StepLeaves
    <3>4. QED
      BY <3>2, <3>3
  <2>3. CASE ClearLock
    BY <2>3 DEF ClearLock, Stale, Retains
  <2>4. CASE PowerLoss
    <3>1. faults' > faults /\ "power" \in Faults /\ lock' = lock
      BY <2>1, <2>4, StrikeIs, TypeInvIs DEF PowerLoss, LosePower, Struck
    <3>2. \A r \in Runners : pc'[r] = "idle"
      BY <2>4 DEF PowerLoss
    <3>3. ASSUME ~Stale, Stale' PROVE \E r \in Runners : LeavesLock(r)
      <4>1. PICK r \in Runners : Owns(r)
        BY <3>1, <3>3 DEF Stale
      <4>2. pc[r] # "idle"
        BY <4>1 DEF Owns, Owning, Preflight, Protected, Recovery
      <4>3. QED
        BY <3>1, <3>2, <4>2 DEF LeavesLock
    <3>4. QED
      BY <3>1, <3>3
  <2>5. QED
    BY <2>2, <2>3, <2>4 DEF Next
<1>2. QED
  BY <1>1, TrackInvariant, PTL DEF Spec, StaleLockHasCause, Retains
=============================================================================
