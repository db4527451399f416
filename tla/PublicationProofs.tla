--------------------------- MODULE PublicationProofs ---------------------------
(* Proofs about Desk and Publication.  The stores are read and written     *)
(* whole and without a lock, so the invariant says of every command, at    *)
(* every file access, what its local copies may hold by then.              *)
EXTENDS Publication, FiniteSetTheorems, TLAPS

\* What people did, and what never changes.
World ==
    [er |-> erased, re |-> reviewed, fo |-> forgotten, ke |-> kept, fe |-> fed,
     up |-> file["upstream"], n |-> submitted]

-----------------------------------------------------------------------------
(* Contents that a store may have: on disk, or about to be written.        *)

KeptEntry(k, v, w) ==
    \/ v[k[1]] # Missing /\ v[k[1]].report = k[2]
    \/ TokenOf[k[2]] \in w.fo

SoundQueue(v, w) ==
    /\ v \in Queues /\ DOMAIN v = Submissions
    /\ \A s \in Submissions :
          v[s] # Missing => v[s] \in Entries /\ v[s].report \in Valid \ w.er
    /\ \A k \in w.ke : KeptEntry(k, v, w)

SoundApproved(v, w) ==
    /\ v \subseteq (Valid \cap w.re) \ w.er
    /\ \A r \in w.fe : r \in v \/ TokenOf[r] \in w.fo

Sound(f, v, w) ==
    /\ f = "raw"        => v \subseteq (Valid \cap (w.up \cup w.re)) \ w.er
    /\ f = "export"     => v \subseteq Valid \cap w.re
    /\ f = "queue"      => SoundQueue(v, w)
    /\ f = "approved"   => SoundApproved(v, w)
    /\ f = "tombstones" => w.er \subseteq Tombstoned(v)

Stores == {"raw", "export", "queue", "approved", "tombstones"}

StoreOK(fl, w) ==
    \A f \in Stores :
        \/ fl[f] = Torn
        \/ fl[f] = Missing /\ f \in {"raw", "export"}
        \/ Sound(f, fl[f], w)

-----------------------------------------------------------------------------
(* The local variables j of a command at stage s.                          *)

Fields == {"cmd", "arg", "sub", "rows", "ids", "input", "out", "value", "owed", "alone"}

\* What a command writes to.
Targets(cmd) ==
    CASE cmd \in {"submit", "reject"} -> {"queue"}
      [] cmd = "approve"              -> {"queue", "approved"}
      [] cmd = "export"               -> {"export"}
      [] cmd = "delete"               -> {"raw", "queue", "approved", "tombstones"}
      [] cmd = "purge"                -> {"raw", "tombstones"}
      [] cmd = "intake"               -> {"raw"}
      [] cmd = "run"                  -> {"raw"} \cup DatasetFiles
      [] cmd = "publish"              -> DatasetFiles
      [] OTHER                        -> {}

Writes(j, s, w) ==
    IF s = "write"
    THEN j.out \in Targets(j.cmd) /\ Sound(j.out, j.value, w)
    ELSE j.out = "none"

Moderates(j, s, w) ==
    /\ j.cmd = "submit" /\ s = "queue" => j.arg \in Valid \ w.er
    /\ j.cmd = "submit" /\ s = "write" =>
          /\ j.sub \in 1 .. w.n
          /\ j.value[j.sub] # Missing
          /\ j.rows = {j.value[j.sub].report}
    /\ j.cmd \in {"approve", "reject"} => j.arg \in Submissions
    /\ j.cmd = "approve" /\ s \in {"approved", "write"} =>
          j.rows \subseteq (Valid \cap w.re) \ w.er
    /\ j.cmd = "approve" /\ s = "write" /\ j.out = "approved" =>
          j.rows \subseteq j.value

Deletes(j, s, w) ==
    j.cmd = "delete" =>
        /\ s # "raw" => j.arg \in w.fo
        /\ \A r \in j.ids : r \in Reports /\ TokenOf[r] = j.arg
        /\ s = "write" /\ j.out = "tombstones" => j.ids \subseteq Tombstoned(j.value)

\* The rows that a publisher has read.
Vetted(j, w) ==
    /\ ReportsPath # "upstream" => j.rows \subseteq Valid \cap (w.up \cup w.re)
    /\ ReportsPath \in {"raw", "approved"} => j.rows \cap j.owed = {}

Publishes(j, s, w) ==
    /\ j.cmd \in {"intake", "run"} => j.arg \in ReportFiles
    /\ s = "filter" => j.rows \subseteq w.up \cup w.re
    /\ j.owed \subseteq w.er
    /\ s \in {"analyse", "check", "hash", "retell"} => j.cmd \in {"run", "publish"}
    /\ s \in {"check", "hash"} \/ (s = "write" /\ j.out = "geojson") => Vetted(j, w)

Local(j, s, w) ==
    Writes(j, s, w) /\ Moderates(j, s, w) /\ Deletes(j, s, w) /\ Publishes(j, s, w)

\* What a delete that is alone has removed the reports of its contributor from.
Clean(f, v, t) ==
    IF f = "queue"
    THEN v = Torn \/ \A s \in Submissions : v[s] # Missing => TokenOf[v[s].report] # t
    ELSE \/ v = Torn \/ (v = Missing /\ f = "raw")
         \/ \A r \in v : TokenOf[r] # t

Cleaned(at) ==
    CASE at = "queue"      -> {"raw"}
      [] at = "approved"   -> {"raw", "queue"}
      [] at = "tombstones" -> {"raw", "queue", "approved"}
      [] OTHER             -> {}

Solo(j, s, fl) ==
    j.cmd = "delete" =>
        /\ \A f \in Cleaned(IF s = "write" THEN j.out ELSE s) : Clean(f, fl[f], j.arg)
        /\ s = "write" /\ j.out # "tombstones" => Clean(j.out, j.value, j.arg)

-----------------------------------------------------------------------------
(* The invariant.                                                          *)

Shapes ==
    /\ DOMAIN file = Files
    /\ DOMAIN pc = Processes /\ DOMAIN job = Processes
    /\ \A p \in Processes : DOMAIN job[p] = Fields
    /\ \A p \in Processes : ~Running(p) => job[p] = NoJob

\* A command that is alone is the only one, and has been since it started.
AloneOK ==
    \A p, q \in Processes : Running(p) /\ job[p].alone /\ q # p => ~Running(q)

CountsOK ==
    /\ submitted \in 0 .. MaxSubmissions
    /\ \A k \in kept : k[1] \in 1 .. submitted

CoreInv ==
    /\ Shapes /\ AloneOK /\ CountsOK
    /\ StoreOK(file, World)
    /\ \A p \in Processes : Running(p) => Local(job[p], pc[p], World)
    /\ \A p \in Processes : Running(p) /\ job[p].alone => Solo(job[p], pc[p], file)

BasisInv ==
    /\ ReportsPath # "upstream" => OnlyVettedPublished
    /\ ReportsPath \in {"raw", "approved"} => RunHonoursDeletions

\* A publisher that is alone, between its two readings of the reports and the manifest.
Publisher(j, s, fl, counts) ==
    LET writing == s = "write" /\ j.out \in DatasetFiles \ {"brief"}
    IN
    /\ s \in {"check", "hash"} => j.rows = fl[ReportsPath]
    /\ s = "hash" \/ writing => ~Leaks(Dataset(j.rows), j.rows)
    /\ writing => j.input = j.rows
    /\ writing /\ j.out # "manifest" => j.value = Dataset(j.rows)
    /\ writing /\ j.out = "manifest" => j.value = j.rows
    /\ writing /\ j.out # "geojson" => counts = j.rows /\ fl["geojson"] = Dataset(j.rows)
    /\ writing /\ j.out \in {"corridors", "manifest"} =>
          fl["metadata"] = Dataset(j.rows)
    /\ writing /\ j.out = "manifest" => fl["corridors"] = Dataset(j.rows)

WholeInv ==
    /\ PublicationWhole
    /\ whole => \A p \in Processes :
                   pc[p] = "write" => job[p].out \notin DatasetFiles \ {"brief"}
    /\ \A p \in Processes :
          Running(p) /\ job[p].alone => Publisher(job[p], pc[p], file, basis)

-----------------------------------------------------------------------------
(* The world grows: what is reviewed and forgotten, with every command; what *)
(* is erased, kept and fed, only by a command that is alone.               *)

Grows(w, x) ==
    /\ w.re \subseteq x.re /\ w.fo \subseteq x.fo
    /\ w.n \in Nat /\ x.n \in Nat /\ w.n <= x.n
    /\ x.up = w.up

Frozen(w, x) == x.er = w.er /\ x.ke = w.ke /\ x.fe = w.fe

LEMMA SoundGrows ==
    ASSUME NEW f, NEW v, NEW w, NEW x, Grows(w, x), Frozen(w, x), Sound(f, v, w)
    PROVE  Sound(f, v, x)
BY DEF Grows, Frozen, Sound, SoundQueue, SoundApproved, KeptEntry

LEMMA StoreGrows ==
    ASSUME NEW fl, NEW w, NEW x, Grows(w, x), Frozen(w, x), StoreOK(fl, w)
    PROVE  StoreOK(fl, x)
BY SoundGrows DEF StoreOK

LEMMA LocalGrows ==
    ASSUME NEW j, NEW s, NEW w, NEW x, Grows(w, x), Frozen(w, x), Local(j, s, w)
    PROVE  Local(j, s, x)
<1>1. Writes(j, s, x)
  BY SoundGrows DEF Local, Writes
<1>2. Moderates(j, s, x)
  BY DEF Local, Moderates, Grows, Frozen
<1>3. Deletes(j, s, x)
  BY DEF Local, Deletes, Grows, Frozen
<1>4. Publishes(j, s, x)
  BY DEF Local, Publishes, Vetted, Grows, Frozen
<1>5. QED
  BY <1>1, <1>2, <1>3, <1>4 DEF Local

LEMMA NoJobIs ==
    /\ DOMAIN NoJob = Fields
    /\ NoJob.out = "none"
BY DEF NoJob, Fields

-----------------------------------------------------------------------------
(* A step of the command of p, whatever it does.                           *)

LEMMA GotoIs ==
    ASSUME Shapes, NEW p \in Processes, NEW s, NEW j, Goto(p, s, j)
    PROVE  /\ pc'[p] = s /\ job'[p] = j
           /\ \A q \in Processes \ {p} : pc'[q] = pc[q] /\ job'[q] = job[q]
           /\ DOMAIN pc' = Processes /\ DOMAIN job' = Processes
BY DEF Shapes, Goto

LEMMA CoreGoes ==
    ASSUME CoreInv, NEW p \in Processes, Running(p), NEW s, NEW j, Goto(p, s, j),
           DOMAIN j = Fields, s = "idle" => j = NoJob,
           s # "idle" => j.alone = job[p].alone,
           Grows(World, World'), job[p].alone \/ Frozen(World, World'),
           DOMAIN file' = Files, StoreOK(file', World'), CountsOK',
           s # "idle" => Local(j, s, World'),
           s # "idle" /\ j.alone => Solo(j, s, file')
    PROVE  CoreInv'
<1>1. /\ pc'[p] = s /\ job'[p] = j
      /\ \A q \in Processes \ {p} : pc'[q] = pc[q] /\ job'[q] = job[q]
      /\ DOMAIN pc' = Processes /\ DOMAIN job' = Processes
  BY GotoIs DEF CoreInv
<1>2. Shapes'
  BY <1>1 DEF CoreInv, Shapes, Running
<1>3. AloneOK'
  BY <1>1 DEF CoreInv, AloneOK, Running
<1>4. ASSUME NEW q \in Processes, Running(q)' PROVE Local(job[q], pc[q], World)'
  <2>1. CASE q = p
    BY <1>1, <1>4, <2>1 DEF Running
  <2>2. CASE q # p
    <3>1. Running(q) /\ pc'[q] = pc[q] /\ job'[q] = job[q]
      BY <1>1, <1>4, <2>2 DEF Running
    <3>2. Frozen(World, World')
      BY <2>2, <3>1 DEF CoreInv, AloneOK
    <3>3. Local(job[q], pc[q], World)
      BY <3>1 DEF CoreInv
    <3>4. Local(job[q], pc[q], World')
      BY <3>2, <3>3, LocalGrows
    <3>5. QED
      BY <3>1, <3>4
  <2>3. QED
    BY <2>1, <2>2
<1>5. ASSUME NEW q \in Processes, Running(q)', job'[q].alone
      PROVE  Solo(job[q], pc[q], file)'
  <2>1. q = p
    BY <1>1, <1>5 DEF CoreInv, AloneOK, Running
  <2>2. QED
    BY <1>1, <1>5, <2>1 DEF Running
<1>6. QED
  BY <1>2, <1>3, <1>4, <1>5 DEF CoreInv

\* Nothing is left of a command that returns.
LEMMA CoreReturns ==
    ASSUME CoreInv, NEW p \in Processes, Running(p), Return(p),
           Grows(World, World'), job[p].alone \/ Frozen(World, World'),
           DOMAIN file' = Files, StoreOK(file', World'), CountsOK'
    PROVE  CoreInv'
<1>1. Goto(p, "idle", NoJob)
  BY DEF Return
<1>2. QED
  BY <1>1, NoJobIs, CoreGoes

\* A command that reads, computes, and goes on.
Reads ==
    /\ Stay
    /\ reviewed \subseteq reviewed' /\ forgotten \subseteq forgotten'
    /\ UNCHANGED <<kept, fed, erased>>

LEMMA ReadsIs ==
    ASSUME CoreInv, Reads
    PROVE  /\ Grows(World, World') /\ Frozen(World, World')
           /\ DOMAIN file' = Files /\ StoreOK(file', World') /\ CountsOK'
           /\ World'.er = erased /\ World'.re = reviewed' /\ World'.fo = forgotten'
           /\ World'.n = submitted /\ World'.up = file["upstream"]
<1>1. /\ Grows(World, World') /\ Frozen(World, World')
      /\ DOMAIN file' = Files /\ CountsOK' /\ file' = file
  BY StoreAssumption DEF Reads, Stay, World, Grows, Frozen, CoreInv, Shapes, CountsOK
<1>2. StoreOK(file', World')
  BY <1>1, StoreGrows DEF CoreInv
<1>3. QED
  BY <1>1, <1>2 DEF Reads, Stay, World

LEMMA CoreReads ==
    ASSUME CoreInv, Reads, NEW p \in Processes, Running(p), NEW s, NEW j, Goto(p, s, j),
           s # "idle", DOMAIN j = Fields, j.alone = job[p].alone,
           Local(j, s, World'), j.alone => Solo(j, s, file)
    PROVE  CoreInv'
<1>1. file' = file
  BY DEF Reads, Stay
<1>2. QED
  BY <1>1, ReadsIs, CoreGoes

LEMMA CoreReadsLast ==
    ASSUME CoreInv, Reads, NEW p \in Processes, Running(p), Return(p)
    PROVE  CoreInv'
BY ReadsIs, CoreReturns

LEMMA Here ==
    ASSUME CoreInv, Reads, NEW p \in Processes, Running(p)
    PROVE  /\ Local(job[p], pc[p], World')
           /\ DOMAIN job[p] = Fields
           /\ job[p].alone => Solo(job[p], pc[p], file)
BY ReadsIs, LocalGrows DEF CoreInv, Shapes

\* What a command reads from a store is sound.
LEMMA ReadStore ==
    ASSUME CoreInv, Reads, NEW p \in Processes, Readable(p), pc[p] \in Stores
    PROVE  \/ pc[p] = "raw" /\ file["raw"] = Missing
           \/ pc[p] = "export" /\ file["export"] = Missing
           \/ file[pc[p]] # Torn /\ Sound(pc[p], file[pc[p]], World')
<1>1. Wanted(p) = pc[p]
  BY DEF Wanted, Stores
<1>2. StoreOK(file, World')
  BY ReadsIs DEF Reads, Stay
<1>3. QED
  BY <1>1, <1>2 DEF Readable, StoreOK, Stores

\* The file is opened with contents that are sound.
Opened(j, f, v) == [j EXCEPT !.out = f, !.value = v]

LEMMA OpenedIs ==
    ASSUME NEW j, NEW f, NEW v, DOMAIN j = Fields
    PROVE  /\ DOMAIN Opened(j, f, v) = Fields
           /\ Opened(j, f, v).out = f /\ Opened(j, f, v).value = v
           /\ \A x \in Fields \ {"out", "value"} : Opened(j, f, v)[x] = j[x]
BY DEF Opened, Fields

LEMMA WritingIs ==
    ASSUME NEW p \in Processes, NEW f, NEW v, NEW j, Writing(p, f, v, j)
    PROVE  Goto(p, "write", Opened(j, f, v))
BY DEF Writing, Opened

-----------------------------------------------------------------------------
(* Moderation.                                                             *)

LEMMA SubmitCheckedStep ==
    ASSUME CoreInv, NEW p \in Processes, SubmitChecked(p)
    PROVE  CoreInv'
<1>1. Reads /\ Running(p) /\ pc[p] = "tombstones" /\ job[p].cmd = "submit"
  BY DEF SubmitChecked, Reads, At, Running, deskHistory
<1>2. CASE Return(p)
  BY <1>1, <1>2, CoreReadsLast
<1>3. CASE ~Return(p)
  <2>1. /\ Goto(p, "queue", job[p])
        /\ job[p].arg \in Valid /\ job[p].arg \notin Tombstoned(file["tombstones"])
    BY <1>3 DEF SubmitChecked
  <2>2. Sound("tombstones", file["tombstones"], World')
    BY <1>1, ReadStore DEF SubmitChecked, Stores
  <2>3. job[p].arg \notin World'.er
    BY <2>1, <2>2 DEF Sound
  <2>4. /\ Local(job[p], "tombstones", World') /\ DOMAIN job[p] = Fields
        /\ job[p].alone => Solo(job[p], "tombstones", file)
    BY <1>1, Here
  <2>5. Local(job[p], "queue", World')
    <3>1. Writes(job[p], "queue", World')
      BY <2>4 DEF Local, Writes
    <3>2. Moderates(job[p], "queue", World')
      BY <1>1, <2>1, <2>3 DEF Moderates
    <3>3. Deletes(job[p], "queue", World') /\ Publishes(job[p], "queue", World')
      BY <1>1, <2>4 DEF Local, Deletes, Publishes
    <3>4. QED
      BY <3>1, <3>2, <3>3 DEF Local
  <2>6. Solo(job[p], "queue", file)
    BY <1>1 DEF Solo
  <2>7. QED
    BY <1>1, <2>1, <2>4, <2>5, <2>6, CoreReads
<1>4. QED
  BY <1>2, <1>3

\* The step that opens a file: what is to be shown of it.
LEMMA CoreOpens ==
    ASSUME CoreInv, Reads, NEW p \in Processes, Running(p),
           NEW f, NEW v, NEW j, Writing(p, f, v, j),
           DOMAIN j = Fields, j.alone = job[p].alone,
           f \in Targets(j.cmd), Sound(f, v, World'),
           Moderates(Opened(j, f, v), "write", World'),
           Deletes(Opened(j, f, v), "write", World'),
           Publishes(Opened(j, f, v), "write", World'),
           j.alone => Solo(Opened(j, f, v), "write", file)
    PROVE  CoreInv'
<1> DEFINE k == Opened(j, f, v)
<1>1. /\ DOMAIN k = Fields /\ k.out = f /\ k.value = v
      /\ k.cmd = j.cmd /\ k.alone = j.alone
  BY OpenedIs DEF Fields
<1>2. Goto(p, "write", k)
  BY WritingIs
<1>3. Writes(k, "write", World')
  BY <1>1 DEF Writes
<1>4. Local(k, "write", World')
  BY <1>3 DEF Local
<1>5. QED
  BY <1>1, <1>2, <1>4, CoreReads

LEMMA KeptHere ==
    ASSUME CoreInv, Reads
    PROVE  \A x \in World'.ke : x[1] \in Submissions
<1>1. World'.ke = kept /\ submitted \in 0 .. MaxSubmissions
  BY DEF CoreInv, CountsOK, Reads, World
<1>2. QED
  BY <1>1, StoreAssumption DEF CoreInv, CountsOK, Submissions

\* Setting the status of an entry.
LEMMA StatusSet ==
    ASSUME NEW q, NEW w, SoundQueue(q, w), \A x \in w.ke : x[1] \in Submissions,
           NEW s \in Submissions, q[s] # Missing, NEW st \in {"approved", "rejected"}
    PROVE  SoundQueue([q EXCEPT ![s].status = st], w)
<1> DEFINE v == [q EXCEPT ![s].status = st]
<1>1. DOMAIN v = Submissions /\ \A t \in Submissions \ {s} : v[t] = q[t]
  BY DEF SoundQueue
<1>2. v[s] = [q[s] EXCEPT !.status = st]
  BY DEF SoundQueue
<1>3. q[s] \in Entries
  BY DEF SoundQueue
<1>4. v[s] \in Entries /\ v[s].report = q[s].report
  BY <1>2, <1>3 DEF Entries
<1>8. v \in Queues
  BY <1>2, <1>4 DEF SoundQueue, Queues
<1>5. v[s] # Missing
  BY <1>4, EntryAssumption
<1> HIDE DEF v
<1>6. \A x \in w.ke : KeptEntry(x, v, w)
  BY <1>1, <1>4, <1>5 DEF SoundQueue, KeptEntry
<1>7. QED
  BY <1>1, <1>3, <1>4, <1>6, <1>8 DEF SoundQueue, v

LEMMA ApproveStep ==
    ASSUME CoreInv, NEW p \in Processes, Approve(p)
    PROVE  CoreInv'
<1> DEFINE s == job[p].arg
           q == file["queue"]
<1>1. Reads /\ Running(p) /\ pc[p] = "queue" /\ job[p].cmd = "approve"
  BY DEF Approve, Reads, At, Running
<1>2. CASE Return(p)
  BY <1>1, <1>2, CoreReadsLast
<1>3. CASE ~Return(p)
  <2> DEFINE v == [q EXCEPT ![s].status = "approved"]
             j == [job[p] EXCEPT !.sub = s, !.rows = {q[s].report}]
             k == Opened(j, "queue", v)
  <2>1. q[s] # Missing /\ Writing(p, "queue", v, j) /\ q[s].report \in reviewed'
    BY <1>3 DEF Approve
  <2>2. SoundQueue(q, World')
    BY <1>1, ReadStore DEF Approve, Stores, Sound
  <2>3. Local(job[p], "queue", World') /\ DOMAIN job[p] = Fields
    BY <1>1, Here
  <2>4. s \in Submissions
    BY <1>1, <2>3 DEF Local, Moderates
  <2>5. q[s].report \in (Valid \cap World'.re) \ World'.er
    BY <1>1, <2>1, <2>2, <2>4, ReadsIs DEF SoundQueue
  <2>6. Sound("queue", v, World')
    BY <1>1, <2>1, <2>2, <2>4, StatusSet, KeptHere DEF Sound
  <2>7. /\ DOMAIN j = Fields /\ j.cmd = "approve" /\ j.rows = {q[s].report}
        /\ j.alone = job[p].alone /\ j.owed = job[p].owed /\ j.arg = s
    BY <1>1, <2>3 DEF Fields
  <2> HIDE DEF j, v, s
  <2>8. /\ k.cmd = "approve" /\ k.rows = {q[s].report} /\ k.out = "queue"
        /\ k.owed = job[p].owed /\ k.arg = s
    BY <2>7, OpenedIs DEF Fields
  <2>9. Moderates(k, "write", World')
    BY <2>4, <2>5, <2>8 DEF Moderates
  <2>10. Deletes(k, "write", World') /\ Publishes(k, "write", World')
    BY <2>3, <2>8 DEF Deletes, Publishes, Local
  <2>11. Solo(k, "write", file)
    BY <2>8 DEF Solo
  <2>12. "queue" \in Targets(j.cmd)
    BY <2>7 DEF Targets
  <2>13. QED
    BY <1>1, <2>1, <2>6, <2>7, <2>9, <2>10, <2>11, <2>12, CoreOpens
<1>4. QED
  BY <1>2, <1>3

LEMMA RejectStep ==
    ASSUME CoreInv, NEW p \in Processes, Reject(p)
    PROVE  CoreInv'
<1> DEFINE s == job[p].arg
           q == file["queue"]
<1>1. Reads /\ Running(p) /\ pc[p] = "queue" /\ job[p].cmd = "reject"
  BY DEF Reject, Reads, At, Running, deskHistory
<1>2. CASE Return(p)
  BY <1>1, <1>2, CoreReadsLast
<1>3. CASE ~Return(p)
  <2> DEFINE v == [q EXCEPT ![s].status = "rejected"]
             k == Opened(job[p], "queue", v)
  <2>1. q[s] # Missing /\ Writing(p, "queue", v, job[p])
    BY <1>3 DEF Reject
  <2>2. SoundQueue(q, World')
    BY <1>1, ReadStore DEF Reject, Stores, Sound
  <2>3. Local(job[p], "queue", World') /\ DOMAIN job[p] = Fields
    BY <1>1, Here
  <2>4. s \in Submissions
    BY <1>1, <2>3 DEF Local, Moderates
  <2>5. Sound("queue", v, World')
    BY <1>1, <2>1, <2>2, <2>4, StatusSet, KeptHere DEF Sound
  <2> HIDE DEF v, s
  <2>6. k.cmd = "reject" /\ k.owed = job[p].owed /\ k.arg = s /\ k.out = "queue"
    BY <1>1, <2>3, OpenedIs DEF Fields, s
  <2>7. Moderates(k, "write", World')
    BY <2>4, <2>6 DEF Moderates
  <2>8. Deletes(k, "write", World') /\ Publishes(k, "write", World')
    BY <2>3, <2>6 DEF Deletes, Publishes, Local
  <2>9. Solo(k, "write", file)
    BY <2>6 DEF Solo
  <2>10. "queue" \in Targets(job[p].cmd)
    BY <1>1 DEF Targets
  <2>11. QED
    BY <1>1, <2>1, <2>3, <2>5, <2>7, <2>8, <2>9, <2>10, CoreOpens
<1>4. QED
  BY <1>2, <1>3

LEMMA AppendApprovedStep ==
    ASSUME CoreInv, NEW p \in Processes, AppendApproved(p)
    PROVE  CoreInv'
<1> DEFINE v == file["approved"] \cup job[p].rows
           k == Opened(job[p], "approved", v)
<1>1. Reads /\ Running(p) /\ pc[p] = "approved" /\ job[p].cmd = "approve"
  BY DEF AppendApproved, Reads, At, Running, deskHistory
<1>2. Writing(p, "approved", v, job[p])
  BY DEF AppendApproved
<1>3. SoundApproved(file["approved"], World')
  BY <1>1, ReadStore DEF AppendApproved, Stores, Sound
<1>4. Local(job[p], "approved", World') /\ DOMAIN job[p] = Fields
  BY <1>1, Here
<1>5. job[p].rows \subseteq (Valid \cap World'.re) \ World'.er
  BY <1>1, <1>4 DEF Local, Moderates
<1>6. Sound("approved", v, World')
  BY <1>3, <1>5 DEF Sound, SoundApproved
<1>7. /\ k.cmd = "approve" /\ k.owed = job[p].owed /\ k.arg = job[p].arg
      /\ k.rows = job[p].rows /\ k.out = "approved" /\ k.value = v
  BY <1>1, <1>4, OpenedIs DEF Fields
<1>8. job[p].rows \subseteq v
  OBVIOUS
<1> HIDE DEF v, k
<1>9. Moderates(k, "write", World')
  BY <1>1, <1>4, <1>5, <1>7, <1>8 DEF Moderates, Local
<1>10. Deletes(k, "write", World') /\ Publishes(k, "write", World')
  BY <1>4, <1>7 DEF Deletes, Publishes, Local
<1>11. Solo(k, "write", file)
  BY <1>7 DEF Solo
<1>12. "approved" \in Targets(job[p].cmd)
  BY <1>1 DEF Targets
<1>13. QED
  BY <1>1, <1>2, <1>4, <1>6, <1>9, <1>10, <1>11, <1>12, CoreOpens DEF k

LEMMA ExportStep ==
    ASSUME CoreInv, NEW p \in Processes, Export(p)
    PROVE  CoreInv'
<1> DEFINE v == file["approved"]
           k == Opened(job[p], "export", v)
<1>1. Reads /\ Running(p) /\ pc[p] = "approved" /\ job[p].cmd = "export"
  BY DEF Export, Reads, At, Running, deskHistory
<1>2. Writing(p, "export", v, job[p])
  BY DEF Export
<1>3. SoundApproved(v, World')
  BY <1>1, ReadStore DEF Export, Stores, Sound
<1>4. Local(job[p], "approved", World') /\ DOMAIN job[p] = Fields
  BY <1>1, Here
<1>5. Sound("export", v, World')
  BY <1>3 DEF Sound, SoundApproved
<1>6. k.cmd = "export" /\ k.owed = job[p].owed /\ k.out = "export"
  BY <1>1, <1>4, OpenedIs DEF Fields
<1> HIDE DEF v, k
<1>7. Moderates(k, "write", World') /\ Deletes(k, "write", World')
  BY <1>6 DEF Moderates, Deletes
<1>8. Publishes(k, "write", World')
  BY <1>4, <1>6 DEF Publishes, Local
<1>9. Solo(k, "write", file)
  BY <1>6 DEF Solo
<1>10. "export" \in Targets(job[p].cmd)
  BY <1>1 DEF Targets
<1>11. QED
  BY <1>1, <1>2, <1>4, <1>5, <1>7, <1>8, <1>9, <1>10, CoreOpens DEF k

\* A submission takes a number that no kept entry has.
LEMMA SubmitStep ==
    ASSUME CoreInv, NEW p \in Processes, Submit(p)
    PROVE  CoreInv'
<1> DEFINE q == file["queue"]
           r == job[p].arg
           e == [report |-> r, status |-> "pending"]
           v == [q EXCEPT ![submitted'] = e]
           j == [job[p] EXCEPT !.sub = submitted', !.rows = {r}]
           k == Opened(j, "queue", v)
<1>1. /\ Running(p) /\ pc[p] = "queue" /\ job[p].cmd = "submit" /\ file' = file
      /\ UNCHANGED deskHistory /\ Writing(p, "queue", v, j) /\ file["queue"] # Torn
      /\ submitted < MaxSubmissions /\ submitted' = submitted + 1
  BY DEF Submit, At, Running, Readable, Wanted
<1>2. /\ submitted \in Nat /\ submitted' \in Submissions /\ submitted' \in 1 .. submitted'
      /\ \A x \in kept : x[1] \in Submissions /\ x[1] # submitted'
      /\ CountsOK'
  BY <1>1, StoreAssumption DEF CoreInv, CountsOK, Submissions, deskHistory
<1>3. /\ Grows(World, World') /\ Frozen(World, World')
      /\ World'.n = submitted' /\ World'.ke = kept /\ World'.er = World.er
  BY <1>1, <1>2 DEF Grows, Frozen, World, deskHistory
<1>4. StoreOK(file', World')
  BY <1>1, <1>3, StoreGrows DEF CoreInv
<1>5. SoundQueue(q, World')
  BY <1>1, <1>4 DEF StoreOK, Stores, Sound
<1>6. /\ Local(job[p], "queue", World') /\ DOMAIN job[p] = Fields
      /\ job[p].alone => Solo(job[p], "queue", file)
  BY <1>1, <1>3, LocalGrows DEF CoreInv, Shapes
<1>7. r \in Valid \ World'.er
  BY <1>1, <1>6 DEF Local, Moderates
<1>8. e \in Entries /\ e.report = r /\ e # Missing
  BY <1>7, EntryAssumption, StoreAssumption DEF Entries
<1>9. DOMAIN v = Submissions /\ v[submitted'] = e
      /\ \A s \in Submissions : s # submitted' => v[s] = q[s]
  BY <1>2, <1>5 DEF SoundQueue
<1>18. v \in Queues
  BY <1>2, <1>5, <1>8 DEF SoundQueue, Queues
<1>10. /\ DOMAIN j = Fields /\ j.cmd = "submit" /\ j.rows = {r} /\ j.sub = submitted'
       /\ j.alone = job[p].alone /\ j.owed = job[p].owed
  BY <1>1, <1>6 DEF Fields
<1> HIDE DEF v, j, e, r
<1>11. Sound("queue", v, World')
  BY <1>2, <1>3, <1>5, <1>7, <1>8, <1>9, <1>18 DEF Sound, SoundQueue, KeptEntry
<1>12. /\ DOMAIN k = Fields /\ k.cmd = "submit" /\ k.rows = {r} /\ k.sub = submitted'
       /\ k.alone = job[p].alone /\ k.owed = job[p].owed /\ k.out = "queue" /\ k.value = v
  BY <1>10, OpenedIs DEF Fields
<1>13. Goto(p, "write", k)
  BY <1>1, WritingIs
<1> HIDE DEF k
<1>14. Local(k, "write", World')
  <2>1. Moderates(k, "write", World')
    BY <1>2, <1>3, <1>8, <1>9, <1>12 DEF Moderates
  <2>2. Writes(k, "write", World')
    BY <1>11, <1>12 DEF Writes, Targets
  <2>3. Deletes(k, "write", World') /\ Publishes(k, "write", World')
    BY <1>6, <1>12 DEF Deletes, Publishes, Local
  <2>4. QED
    BY <2>1, <2>2, <2>3 DEF Local
<1>15. Solo(k, "write", file')
  BY <1>12 DEF Solo
<1>16. DOMAIN file' = Files
  BY <1>1 DEF CoreInv, Shapes
<1>17. QED
  BY <1>1, <1>2, <1>3, <1>4, <1>12, <1>13, <1>14, <1>15, <1>16, CoreGoes

-----------------------------------------------------------------------------
(* Contributor rights.                                                     *)

After(at) == CASE at = "raw" -> "queue" [] at = "queue" -> "approved"
               [] at = "approved" -> "tombstones"

LEMMA CleanedAfter ==
    ASSUME NEW at \in {"raw", "queue", "approved"}
    PROVE  /\ After(at) \in {"queue", "approved", "tombstones"}
           /\ Cleaned(After(at)) = Cleaned(at) \cup {at}
BY DEF After, Cleaned

\* delete_reports at one of its stores.
LEMMA DeleteGoes ==
    ASSUME CoreInv, Reads, NEW p \in Processes, NEW at \in {"raw", "queue", "approved"},
           pc[p] = at, job[p].cmd = "delete", job[p].arg \in forgotten',
           NEW hits, NEW rest, Compact(p, at, hits, rest, After(at)),
           \A r \in hits : r \in Reports /\ TokenOf[r] = job[p].arg,
           hits = {} => Clean(at, file[at], job[p].arg),
           hits # {} => Sound(at, rest, World') /\ Clean(at, rest, job[p].arg)
    PROVE  CoreInv'
<1> DEFINE t == job[p].arg
           j == [job[p] EXCEPT !.ids = @ \cup hits]
           k == Opened(j, at, rest)
           next == After(at)
<1>1. /\ Local(job[p], at, World') /\ DOMAIN job[p] = Fields
      /\ job[p].alone => Solo(job[p], at, file)
  BY Here DEF Running
<1>2. World'.fo = forgotten'
  BY ReadsIs
<1>3. /\ DOMAIN j = Fields /\ j.cmd = "delete" /\ j.arg = t /\ j.ids = job[p].ids \cup hits
      /\ j.alone = job[p].alone /\ j.owed = job[p].owed /\ j.out = job[p].out
  BY <1>1 DEF Fields
<1>4. \A r \in j.ids : r \in Reports /\ TokenOf[r] = t
  BY <1>1, <1>3 DEF Local, Deletes
<1>5. job[p].alone => \A f \in Cleaned(at) : Clean(f, file[f], t)
  BY <1>1 DEF Solo
<1>6. Running(p)
  BY DEF Running
<1> HIDE DEF j, t
<1>7. CASE hits = {}
  <2>1. Goto(p, next, j)
    BY <1>7 DEF Compact, j
  <2>2. /\ next \in {"queue", "approved", "tombstones"}
        /\ Cleaned(next) = Cleaned(at) \cup {at}
    BY CleanedAfter
  <2> HIDE DEF next
  <2>3. Local(j, next, World')
    <3>1. Writes(j, next, World') /\ Moderates(j, next, World')
      BY <1>1, <1>3, <2>2 DEF Local, Writes, Moderates
    <3>2. Deletes(j, next, World')
      BY <1>2, <1>3, <1>4, <2>2 DEF Deletes, t
    <3>3. Publishes(j, next, World')
      BY <1>1, <1>3, <2>2 DEF Local, Publishes
    <3>4. QED
      BY <3>1, <3>2, <3>3 DEF Local
  <2>4. Clean(at, file[at], t)
    BY <1>7 DEF t
  <2>5. j.alone => Solo(j, next, file)
    <3>1. j.alone => \A f \in Cleaned(next) : Clean(f, file[f], t)
      BY <1>3, <1>5, <2>2, <2>4
    <3>2. QED
      BY <1>3, <2>2, <3>1 DEF Solo
  <2>6. QED
    BY <1>3, <1>6, <2>1, <2>2, <2>3, <2>5, CoreReads
<1>8. CASE hits # {}
  <2>1. Writing(p, at, rest, j)
    BY <1>8 DEF Compact, j
  <2>2. /\ k.cmd = "delete" /\ k.arg = t /\ k.ids = j.ids
        /\ k.alone = j.alone /\ k.owed = j.owed /\ k.out = at /\ k.value = rest
    BY <1>3, OpenedIs DEF Fields
  <2> HIDE DEF k
  <2>3. Moderates(k, "write", World')
    BY <2>2 DEF Moderates
  <2>4. Deletes(k, "write", World')
    BY <1>2, <1>4, <2>2 DEF Deletes, t
  <2>5. Publishes(k, "write", World')
    BY <1>1, <1>3, <2>2 DEF Local, Publishes
  <2>6. Clean(at, rest, t) /\ Sound(at, rest, World')
    BY <1>8 DEF t
  <2>7. j.alone => Solo(k, "write", file)
    <3>1. j.alone => \A f \in Cleaned(at) : Clean(f, file[f], t)
      BY <1>3, <1>5
    <3>2. QED
      BY <2>2, <2>6, <3>1 DEF Solo
  <2>8. at \in Targets(j.cmd)
    BY <1>3 DEF Targets
  <2>9. QED
    BY <1>3, <1>6, <2>1, <2>3, <2>4, <2>5, <2>6, <2>7, <2>8, CoreOpens DEF k
<1>9. QED
  BY <1>7, <1>8

LEMMA DeleteFromRawStep ==
    ASSUME CoreInv, NEW p \in Processes, DeleteFromRaw(p)
    PROVE  CoreInv'
<1> DEFINE rows == Rows(file["raw"])
           hits == OfToken(rows, job[p].arg)
<1>1. /\ Reads /\ pc[p] = "raw" /\ job[p].cmd = "delete" /\ job[p].arg \in forgotten'
      /\ Compact(p, "raw", hits, rows \ hits, After("raw"))
  BY DEF DeleteFromRaw, Reads, At, After
<1>2. file["raw"] = Missing \/ Sound("raw", file["raw"], World')
  BY <1>1, ReadStore DEF DeleteFromRaw, Stores
<1>3. rows \subseteq (Valid \cap (World'.up \cup World'.re)) \ World'.er
  BY <1>2 DEF Sound, Rows
<1>4. Sound("raw", rows \ hits, World')
  BY <1>3 DEF Sound
<1>5. \A r \in hits : r \in Reports /\ TokenOf[r] = job[p].arg
  BY <1>3, StoreAssumption DEF OfToken
<1>6. Clean("raw", rows \ hits, job[p].arg)
  BY DEF Clean, OfToken
<1>7. hits = {} => Clean("raw", file["raw"], job[p].arg)
  BY DEF Clean, OfToken, Rows
<1>8. QED
  BY <1>1, <1>4, <1>5, <1>6, <1>7, DeleteGoes

LEMMA DeleteFromQueueStep ==
    ASSUME CoreInv, NEW p \in Processes, DeleteFromQueue(p)
    PROVE  CoreInv'
<1> DEFINE q    == file["queue"]
           t    == job[p].arg
           gone == {s \in Submissions : q[s] # Missing /\ TokenOf[q[s].report] = t}
           hits == {q[s].report : s \in gone}
           rest == [s \in Submissions |-> IF s \in gone THEN Missing ELSE q[s]]
<1>1. /\ Reads /\ pc[p] = "queue" /\ job[p].cmd = "delete"
      /\ Compact(p, "queue", hits, rest, After("queue"))
  BY DEF DeleteFromQueue, Reads, At, After, deskHistory
<1>2. SoundQueue(q, World')
  BY <1>1, ReadStore DEF DeleteFromQueue, Stores, Sound
<1>3. t \in World'.fo /\ t \in forgotten'
  BY <1>1, Here, ReadsIs DEF Local, Deletes, Running
<1>4. Sound("queue", rest, World')
  <2>1. \A k \in World'.ke : KeptEntry(k, rest, World')
    BY <1>1, <1>2, <1>3, KeptHere DEF SoundQueue, KeptEntry
  <2>2. rest \in Queues
    BY <1>2 DEF SoundQueue, Queues
  <2>3. QED
    BY <1>2, <2>1, <2>2 DEF Sound, SoundQueue
<1>5. \A r \in hits : r \in Reports /\ TokenOf[r] = t
  BY <1>2, StoreAssumption DEF SoundQueue
<1>6. Clean("queue", rest, t)
  BY DEF Clean
<1>7. hits = {} => Clean("queue", q, t)
  BY DEF Clean
<1> HIDE DEF hits, rest, q
<1>8. QED
  BY <1>1, <1>3, <1>4, <1>5, <1>6, <1>7, DeleteGoes DEF q

LEMMA DeleteFromApprovedStep ==
    ASSUME CoreInv, NEW p \in Processes, DeleteFromApproved(p)
    PROVE  CoreInv'
<1> DEFINE rows == file["approved"]
           t    == job[p].arg
           hits == OfToken(rows, t)
<1>1. /\ Reads /\ pc[p] = "approved" /\ job[p].cmd = "delete"
      /\ Compact(p, "approved", hits, rows \ hits, After("approved"))
  BY DEF DeleteFromApproved, Reads, At, After, deskHistory
<1>2. SoundApproved(rows, World')
  BY <1>1, ReadStore DEF DeleteFromApproved, Stores, Sound
<1>3. t \in World'.fo /\ t \in forgotten'
  BY <1>1, Here, ReadsIs DEF Local, Deletes, Running
<1>4. Sound("approved", rows \ hits, World')
  BY <1>2, <1>3 DEF Sound, SoundApproved, OfToken
<1>5. \A r \in hits : r \in Reports /\ TokenOf[r] = t
  BY <1>2, StoreAssumption DEF SoundApproved, OfToken
<1>6. Clean("approved", rows \ hits, t)
  BY DEF Clean, OfToken
<1>7. hits = {} => Clean("approved", rows, t)
  BY DEF Clean, OfToken
<1>8. QED
  BY <1>1, <1>3, <1>4, <1>5, <1>6, <1>7, DeleteGoes

LEMMA PurgeRawStep ==
    ASSUME CoreInv, NEW p \in Processes, PurgeRaw(p)
    PROVE  CoreInv'
<1> DEFINE rows == Rows(file["raw"])
           hits == rows \cap Expired
           rest == rows \ Expired
           j == [job[p] EXCEPT !.ids = @ \cup hits]
           k == Opened(j, "raw", rest)
<1>1. /\ Reads /\ pc[p] = "raw" /\ job[p].cmd = "purge" /\ Running(p)
      /\ Compact(p, "raw", hits, rest, "tombstones")
  BY DEF PurgeRaw, Reads, At, Running, deskHistory
<1>2. file["raw"] = Missing \/ Sound("raw", file["raw"], World')
  BY <1>1, ReadStore DEF PurgeRaw, Stores
<1>3. Sound("raw", rest, World')
  BY <1>2 DEF Sound, Rows
<1>4. Local(job[p], "raw", World') /\ DOMAIN job[p] = Fields
  BY <1>1, Here
<1>5. /\ DOMAIN j = Fields /\ j.cmd = "purge" /\ j.alone = job[p].alone
      /\ j.owed = job[p].owed /\ j.out = "none"
  BY <1>1, <1>4 DEF Fields, Local, Writes
<1> HIDE DEF j
<1>6. CASE hits = {}
  <2>1. Goto(p, "tombstones", j)
    BY <1>1, <1>6 DEF Compact, j
  <2>2. Writes(j, "tombstones", World') /\ Moderates(j, "tombstones", World')
    BY <1>5 DEF Writes, Moderates
  <2>3. Deletes(j, "tombstones", World') /\ Publishes(j, "tombstones", World')
    BY <1>4, <1>5 DEF Deletes, Publishes, Local
  <2>4. Solo(j, "tombstones", file)
    BY <1>5 DEF Solo
  <2>5. QED
    BY <1>1, <1>5, <2>1, <2>2, <2>3, <2>4, CoreReads DEF Local
<1>7. CASE hits # {}
  <2>1. Writing(p, "raw", rest, j)
    BY <1>1, <1>7 DEF Compact, j
  <2>2. k.cmd = "purge" /\ k.owed = job[p].owed /\ k.out = "raw"
    BY <1>5, OpenedIs DEF Fields
  <2> HIDE DEF k
  <2>3. Moderates(k, "write", World') /\ Deletes(k, "write", World')
    BY <2>2 DEF Moderates, Deletes
  <2>4. Publishes(k, "write", World') /\ Solo(k, "write", file)
    BY <1>4, <2>2 DEF Publishes, Local, Solo
  <2>5. "raw" \in Targets(j.cmd)
    BY <1>5 DEF Targets
  <2>6. QED
    BY <1>1, <1>3, <1>5, <2>1, <2>3, <2>4, <2>5, CoreOpens DEF k
<1>8. QED
  BY <1>6, <1>7

\* What is erased when no store holds a report of the contributor.
LEMMA StoreErased ==
    ASSUME NEW fl, NEW w, NEW x, StoreOK(fl, w), NEW ids, NEW t,
           x.er = w.er \cup ids, x.re = w.re, x.fo = w.fo, x.ke = w.ke, x.fe = w.fe,
           x.up = w.up,
           \A r \in ids : r \in Reports /\ TokenOf[r] = t,
           \A f \in {"raw", "queue", "approved"} : Clean(f, fl[f], t),
           ids \subseteq Tombstoned(fl["tombstones"])
    PROVE  StoreOK(fl, x)
<1>1. fl["raw"] \in {Torn, Missing} \/ Sound("raw", fl["raw"], x)
  BY DEF StoreOK, Stores, Sound, Clean
<1>2. fl["approved"] = Torn \/ Sound("approved", fl["approved"], x)
  BY DEF StoreOK, Stores, Sound, SoundApproved, Clean
<1>3. fl["queue"] = Torn \/ Sound("queue", fl["queue"], x)
  BY DEF StoreOK, Stores, Sound, SoundQueue, KeptEntry, Clean
<1>4. fl["tombstones"] = Torn \/ Sound("tombstones", fl["tombstones"], x)
  BY DEF StoreOK, Stores, Sound
<1>5. fl["export"] \in {Torn, Missing} \/ Sound("export", fl["export"], x)
  BY DEF StoreOK, Stores, Sound
<1>6. QED
  BY <1>1, <1>2, <1>3, <1>4, <1>5 DEF StoreOK, Stores

\* The contributor's reports are erased: a delete that was alone ends.
LEMMA ErasedReturns ==
    ASSUME CoreInv, NEW p \in Processes, Running(p), Return(p),
           job[p].cmd = "delete", erased' = Erased(p),
           UNCHANGED <<submitted, reviewed, forgotten, kept, fed>>,
           DOMAIN file' = Files, file'["upstream"] = file["upstream"],
           StoreOK(file', World),
           job[p].alone =>
               /\ \A f \in {"raw", "queue", "approved"} : Clean(f, file'[f], job[p].arg)
               /\ job[p].ids \subseteq Tombstoned(file'["tombstones"])
    PROVE  CoreInv'
<1>1. Grows(World, World') /\ CountsOK' /\ submitted \in Nat
  BY StoreAssumption DEF Grows, World, CountsOK, CoreInv
<1>2. CASE job[p].alone
  <2>1. /\ World'.er = World.er \cup job[p].ids /\ World'.re = World.re
        /\ World'.fo = World.fo /\ World'.ke = World.ke /\ World'.fe = World.fe
        /\ World'.up = World.up
    BY <1>2 DEF World, Erased
  <2>2. Local(job[p], pc[p], World)
    BY DEF CoreInv
  <2>3. \A r \in job[p].ids : r \in Reports /\ TokenOf[r] = job[p].arg
    BY <2>2 DEF Local, Deletes
  <2>4. StoreOK(file', World')
    BY <1>2, <2>1, <2>3, StoreErased
  <2>5. QED
    BY <1>1, <1>2, <2>4, CoreReturns
<1>3. CASE ~job[p].alone
  <2>1. World' = World
    BY <1>3 DEF World, Erased
  <2>2. Frozen(World, World') /\ StoreOK(file', World')
    BY <2>1 DEF Frozen
  <2>3. QED
    BY <1>1, <2>2, CoreReturns
<1>4. QED
  BY <1>2, <1>3

LEMMA RecordTombstonesStep ==
    ASSUME CoreInv, NEW p \in Processes, RecordTombstones(p)
    PROVE  CoreInv'
<1> DEFINE t   == file["tombstones"]
           new == job[p].ids \ Tombstoned(t)
           why == IF job[p].cmd = "delete" THEN "contributor_delete"
                  ELSE "retention_expired"
           v   == [r \in Reports |-> IF r \in new THEN why ELSE t[r]]
           k   == Opened(job[p], "tombstones", v)
<1>1. /\ Running(p) /\ pc[p] = "tombstones" /\ job[p].cmd \in {"delete", "purge"}
      /\ Stay /\ Readable(p) /\ UNCHANGED <<reviewed, kept, fed, forgotten>>
  BY DEF RecordTombstones, At, Running
<1>2. /\ Local(job[p], "tombstones", World) /\ DOMAIN job[p] = Fields
      /\ job[p].alone => Solo(job[p], "tombstones", file)
  BY <1>1 DEF CoreInv, Shapes
<1>3. CASE new = {}
  <2>1. Return(p) /\ erased' = Erased(p)
    BY <1>3 DEF RecordTombstones
  <2>2. CASE job[p].cmd = "delete"
    <3>1. job[p].alone =>
              \A f \in {"raw", "queue", "approved"} : Clean(f, file[f], job[p].arg)
      BY <1>2, <2>2 DEF Solo, Cleaned
    <3>2. job[p].ids \subseteq Tombstoned(t)
      BY <1>3
    <3>3. StoreOK(file, World) /\ DOMAIN file = Files
      BY DEF CoreInv, Shapes
    <3>4. QED
      BY <1>1, <2>1, <2>2, <3>1, <3>2, <3>3, ErasedReturns DEF Stay
  <2>3. CASE job[p].cmd = "purge"
    <3>1. Reads
      BY <1>1, <2>1, <2>3 DEF Reads, Erased
    <3>2. QED
      BY <1>1, <2>1, <3>1, CoreReadsLast
  <2>4. QED
    BY <1>1, <2>2, <2>3
<1>4. CASE new # {}
  <2>1. Writing(p, "tombstones", v, job[p]) /\ erased' = erased
    BY <1>4 DEF RecordTombstones
  <2>2. Reads
    BY <1>1, <2>1 DEF Reads
  <2>3. Sound("tombstones", t, World')
    BY <1>1, <2>2, ReadStore DEF Stores
  <2>4. Tombstoned(v) = Tombstoned(t) \cup (job[p].ids \cap Reports)
    BY DEF Tombstoned
  <2>5. Sound("tombstones", v, World')
    BY <2>3, <2>4 DEF Sound
  <2>6. Local(job[p], "tombstones", World')
    BY <1>1, <2>2, Here
  <2>7. /\ k.cmd = job[p].cmd /\ k.arg = job[p].arg /\ k.ids = job[p].ids
        /\ k.owed = job[p].owed /\ k.out = "tombstones" /\ k.value = v
    BY <1>2, OpenedIs DEF Fields
  <2> HIDE DEF v, k
  <2>8. Deletes(k, "write", World')
    BY <2>4, <2>6, <2>7 DEF Local, Deletes
  <2>9. Moderates(k, "write", World') /\ Publishes(k, "write", World')
    BY <1>1, <2>6, <2>7 DEF Local, Moderates, Publishes
  <2>10. job[p].alone => Solo(k, "write", file)
    BY <1>2, <2>7 DEF Solo
  <2>11. "tombstones" \in Targets(job[p].cmd)
    BY <1>1 DEF Targets
  <2>12. QED
    BY <1>1, <1>2, <2>1, <2>2, <2>5, <2>8, <2>9, <2>10, <2>11, CoreOpens DEF k
<1>5. QED
  BY <1>3, <1>4

-----------------------------------------------------------------------------
(* Intake and the publisher, up to the first file that is written.         *)

LEMMA LoadStep ==
    ASSUME CoreInv, NEW p \in Processes, Load(p)
    PROVE  CoreInv'
<1> DEFINE j == [job[p] EXCEPT !.rows = file[job[p].arg]]
<1>1. /\ Reads /\ Running(p) /\ pc[p] = "load" /\ job[p].cmd \in {"intake", "run"}
      /\ Goto(p, "filter", j)
  BY DEF Load, Reads, At, Running, deskHistory
<1>2. Local(job[p], "load", World') /\ DOMAIN job[p] = Fields
  BY <1>1, Here
<1>3. job[p].arg \in ReportFiles
  BY <1>1, <1>2 DEF Local, Publishes
<1>4. file[job[p].arg] \notin {Torn, Missing}
  BY <1>1 DEF Load, Readable, Wanted, Required
<1>5. file[job[p].arg] \subseteq World'.up \cup World'.re
  BY <1>1, <1>3, <1>4, ReadsIs
  DEF StoreOK, Stores, Sound, SoundApproved, Reads, Stay, ReportFiles
<1>6. /\ DOMAIN j = Fields /\ j.cmd = job[p].cmd /\ j.alone = job[p].alone
      /\ j.owed = job[p].owed /\ j.out = "none" /\ j.rows = file[job[p].arg]
      /\ j.arg = job[p].arg
  BY <1>2 DEF Fields, Local, Writes
<1> HIDE DEF j
<1>7. Writes(j, "filter", World') /\ Moderates(j, "filter", World')
  BY <1>1, <1>6 DEF Writes, Moderates
<1>8. Deletes(j, "filter", World') /\ Solo(j, "filter", file)
  BY <1>1, <1>6 DEF Deletes, Solo
<1>9. Publishes(j, "filter", World')
  BY <1>2, <1>5, <1>6 DEF Publishes, Local
<1>10. QED
  BY <1>1, <1>6, <1>7, <1>8, <1>9, CoreReads DEF Local

LEMMA FilterStep ==
    ASSUME CoreInv, NEW p \in Processes, Filter(p)
    PROVE  CoreInv'
<1> DEFINE t == Tombstoned(file["tombstones"])
           v == job[p].rows \ t
           j == [job[p] EXCEPT !.rows = {}]
           k == Opened(j, "raw", v)
<1>1. Reads /\ Running(p) /\ pc[p] = "filter" /\ job[p].cmd \in {"intake", "run"}
  BY DEF Filter, Reads, At, Running, deskHistory
<1>2. CASE Return(p)
  BY <1>1, <1>2, CoreReadsLast
<1>3. CASE ~Return(p)
  <2>1. job[p].rows \subseteq Valid /\ Writing(p, "raw", v, j)
    BY <1>3 DEF Filter
  <2>2. Local(job[p], "filter", World') /\ DOMAIN job[p] = Fields
    BY <1>1, Here
  <2>3. World'.er \subseteq t
    <3>1. file["tombstones"] # Torn
      BY <1>1 DEF Filter, Readable, Wanted
    <3>2. QED
      BY <1>1, <3>1, ReadsIs DEF StoreOK, Stores, Sound, Reads, Stay
  <2>4. Sound("raw", v, World')
    BY <2>1, <2>2, <2>3 DEF Sound, Local, Publishes
  <2>5. /\ DOMAIN j = Fields /\ j.cmd = job[p].cmd /\ j.alone = job[p].alone
        /\ j.owed = job[p].owed /\ j.arg = job[p].arg
    BY <2>2 DEF Fields
  <2> HIDE DEF j, v
  <2>6. k.cmd = job[p].cmd /\ k.owed = job[p].owed /\ k.arg = job[p].arg /\ k.out = "raw"
    BY <2>5, OpenedIs DEF Fields
  <2> HIDE DEF k
  <2>7. Moderates(k, "write", World') /\ Deletes(k, "write", World')
    BY <1>1, <2>6 DEF Moderates, Deletes
  <2>8. Publishes(k, "write", World') /\ Solo(k, "write", file)
    BY <1>1, <2>2, <2>6 DEF Publishes, Local, Solo
  <2>9. "raw" \in Targets(j.cmd)
    BY <1>1, <2>5 DEF Targets
  <2>10. QED
    BY <1>1, <2>1, <2>4, <2>5, <2>7, <2>8, <2>9, CoreOpens DEF k
<1>4. QED
  BY <1>2, <1>3

LEMMA AnalyseStep ==
    ASSUME CoreInv, NEW p \in Processes, Analyse(p)
    PROVE  CoreInv'
<1> DEFINE rows == file[ReportsPath]
           j == [job[p] EXCEPT !.rows = rows]
<1>1. Reads /\ Running(p) /\ pc[p] = "analyse" /\ Goto(p, "check", j)
  BY DEF Analyse, Reads, Running, deskHistory
<1>2. Local(job[p], "analyse", World') /\ DOMAIN job[p] = Fields
  BY <1>1, Here
<1>3. file[ReportsPath] \notin {Torn, Missing}
  BY <1>1 DEF Analyse, Readable, Wanted, Required
<1>4. StoreOK(file, World')
  BY <1>1, ReadsIs DEF Reads, Stay
<1>5. /\ DOMAIN j = Fields /\ j.cmd = job[p].cmd /\ j.alone = job[p].alone
      /\ j.owed = job[p].owed /\ j.out = "none" /\ j.rows = rows /\ j.arg = job[p].arg
      /\ job[p].cmd \in {"run", "publish"}
  BY <1>2 DEF Fields, Local, Writes, Publishes
<1> HIDE DEF j
<1>6. Vetted(j, World')
  <2>1. ReportsPath # "upstream" => Sound(ReportsPath, rows, World')
    BY <1>3, <1>4, StoreAssumption DEF StoreOK, Stores, ReportFiles
  <2>2. ReportsPath # "upstream" => rows \subseteq Valid \cap (World'.up \cup World'.re)
    BY <2>1, StoreAssumption DEF Sound, SoundApproved, ReportFiles
  <2>3. ReportsPath \in {"raw", "approved"} => rows \cap World'.er = {}
    BY <2>1 DEF Sound, SoundApproved
  <2>4. QED
    BY <1>2, <1>5, <2>2, <2>3 DEF Vetted, Local, Publishes
<1>7. Publishes(j, "check", World')
  BY <1>2, <1>5, <1>6 DEF Publishes, Local
<1>8. Writes(j, "check", World') /\ Moderates(j, "check", World')
  BY <1>5 DEF Writes, Moderates
<1>9. Deletes(j, "check", World') /\ Solo(j, "check", file)
  BY <1>5 DEF Deletes, Solo
<1>10. QED
  BY <1>1, <1>5, <1>7, <1>8, <1>9, CoreReads DEF Local

LEMMA CheckPrivacyStep ==
    ASSUME CoreInv, NEW p \in Processes, CheckPrivacy(p)
    PROVE  CoreInv'
<1>1. Reads /\ Running(p) /\ pc[p] = "check"
  BY DEF CheckPrivacy, Reads, Running, deskHistory
<1>2. CASE Return(p)
  BY <1>1, <1>2, CoreReadsLast
<1>3. CASE ~Return(p)
  <2>1. Goto(p, "hash", job[p])
    BY <1>3 DEF CheckPrivacy
  <2>2. Local(job[p], "check", World') /\ DOMAIN job[p] = Fields
    BY <1>1, Here
  <2>3. job[p].cmd \in {"run", "publish"}
    BY <2>2 DEF Local, Publishes
  <2>4. Local(job[p], "hash", World') /\ Solo(job[p], "hash", file)
    BY <2>2, <2>3 DEF Local, Publishes, Writes, Moderates, Deletes, Solo
  <2>5. QED
    BY <1>1, <2>1, <2>2, <2>4, CoreReads
<1>4. QED
  BY <1>2, <1>3

LEMMA HashInputsStep ==
    ASSUME CoreInv, NEW p \in Processes, HashInputs(p)
    PROVE  CoreInv'
<1>1. Reads /\ Running(p) /\ pc[p] = "hash"
  BY DEF HashInputs, Reads, Running, deskHistory
<1>2. PICK bytes :
          Writing(p, "geojson", Dataset(job[p].rows), [job[p] EXCEPT !.input = bytes])
  BY DEF HashInputs
<1> DEFINE v == Dataset(job[p].rows)
           j == [job[p] EXCEPT !.input = bytes]
           k == Opened(j, "geojson", v)
<1>3. Local(job[p], "hash", World') /\ DOMAIN job[p] = Fields
  BY <1>1, Here
<1>4. /\ DOMAIN j = Fields /\ j.cmd = job[p].cmd /\ j.alone = job[p].alone
      /\ j.owed = job[p].owed /\ j.rows = job[p].rows /\ j.arg = job[p].arg
      /\ job[p].cmd \in {"run", "publish"}
  BY <1>3 DEF Fields, Local, Publishes
<1> HIDE DEF j, v
<1>5. /\ k.cmd = job[p].cmd /\ k.owed = job[p].owed /\ k.arg = job[p].arg
      /\ k.out = "geojson" /\ k.rows = job[p].rows
  BY <1>4, OpenedIs DEF Fields
<1> HIDE DEF k
<1>6. Vetted(k, World')
  BY <1>3, <1>5 DEF Local, Publishes, Vetted
<1>7. Publishes(k, "write", World')
  BY <1>3, <1>5, <1>6 DEF Local, Publishes
<1>8. Moderates(k, "write", World') /\ Deletes(k, "write", World') /\ Solo(k, "write", file)
  BY <1>4, <1>5 DEF Moderates, Deletes, Solo
<1>9. "geojson" \in Targets(j.cmd) /\ Sound("geojson", v, World')
  BY <1>4 DEF Targets, Sound, DatasetFiles
<1>10. QED
  BY <1>1, <1>2, <1>4, <1>7, <1>8, <1>9, CoreOpens DEF j, k, v

LEMMA RetellStep ==
    ASSUME CoreInv, NEW p \in Processes, Retell(p)
    PROVE  CoreInv'
<1> DEFINE v == Dataset(file[ReportsPath])
           k == Opened(job[p], "brief", v)
<1>1. Reads /\ Running(p) /\ pc[p] = "retell" /\ Writing(p, "brief", v, job[p])
  BY DEF Retell, Reads, Running, deskHistory
<1>2. Local(job[p], "retell", World') /\ DOMAIN job[p] = Fields
  BY <1>1, Here
<1>3. job[p].cmd \in {"run", "publish"}
  BY <1>2 DEF Local, Publishes
<1> HIDE DEF v
<1>4. k.cmd = job[p].cmd /\ k.owed = job[p].owed /\ k.arg = job[p].arg /\ k.out = "brief"
  BY <1>2, OpenedIs DEF Fields
<1> HIDE DEF k
<1>5. Moderates(k, "write", World') /\ Deletes(k, "write", World') /\ Solo(k, "write", file)
  BY <1>3, <1>4 DEF Moderates, Deletes, Solo
<1>6. Publishes(k, "write", World')
  BY <1>2, <1>4 DEF Local, Publishes
<1>7. "brief" \in Targets(job[p].cmd) /\ Sound("brief", v, World')
  BY <1>3 DEF Targets, Sound, DatasetFiles
<1>8. QED
  BY <1>1, <1>2, <1>5, <1>6, <1>7, CoreOpens DEF k, v

-----------------------------------------------------------------------------
(* Files are saved.                                                        *)

LEMMA SavedIs ==
    ASSUME CoreInv, NEW p \in Processes, Write(p)
    PROVE  /\ Running(p) /\ pc[p] = "write" /\ DOMAIN job[p] = Fields
           /\ Local(job[p], "write", World)
           /\ job[p].alone => Solo(job[p], "write", file)
           /\ job[p].out \in Targets(job[p].cmd)
           /\ job[p].out \in Files \ {"upstream"}
           /\ DOMAIN file' = Files /\ file'[job[p].out] = job[p].value
           /\ \A f \in Files \ {job[p].out} : file'[f] = file[f]
           /\ StoreOK(file', World)
           /\ submitted' = submitted
<1>1. Running(p) /\ pc[p] = "write" /\ submitted' = submitted
  BY DEF Write, Running
<1>2. /\ Local(job[p], "write", World) /\ DOMAIN job[p] = Fields
      /\ job[p].alone => Solo(job[p], "write", file)
  BY <1>1 DEF CoreInv, Shapes
<1>3. job[p].out \in Targets(job[p].cmd) /\ Sound(job[p].out, job[p].value, World)
  BY <1>2 DEF Local, Writes
<1>4. job[p].out \in Files \ {"upstream"}
  BY <1>3 DEF Targets, Files, ReportFiles, DatasetFiles
<1>5. /\ DOMAIN file' = Files /\ file'[job[p].out] = job[p].value
      /\ \A f \in Files \ {job[p].out} : file'[f] = file[f]
  BY <1>4 DEF Write, CoreInv, Shapes
<1>6. StoreOK(file', World)
  BY <1>3, <1>5 DEF CoreInv, StoreOK, Stores, Files, ReportFiles
<1>7. QED
  BY <1>1, <1>2, <1>3, <1>4, <1>5, <1>6

\* A save after which people remember nothing new.
LEMMA PlainSave ==
    ASSUME CoreInv, NEW p \in Processes, Write(p), UNCHANGED deskHistory
    PROVE  /\ World' = World
           /\ Grows(World, World') /\ Frozen(World, World')
           /\ StoreOK(file', World') /\ CountsOK'
<1>1. file'["upstream"] = file["upstream"] /\ submitted' = submitted
  BY SavedIs DEF Files, ReportFiles
<1>2. World' = World
  BY <1>1 DEF World, deskHistory
<1>3. Grows(World, World') /\ Frozen(World, World') /\ CountsOK'
  BY <1>1, <1>2, StoreAssumption DEF Grows, Frozen, CoreInv, CountsOK, deskHistory, World
<1>4. QED
  BY <1>2, <1>3, SavedIs

LEMMA PlainSaveReturns ==
    ASSUME CoreInv, NEW p \in Processes, Write(p), UNCHANGED deskHistory, Return(p)
    PROVE  CoreInv'
BY SavedIs, PlainSave, CoreReturns

\* The command goes on with nothing to write.
Closed(j) == [j EXCEPT !.out = "none", !.value = Missing]

LEMMA ClosedIs ==
    ASSUME NEW j, DOMAIN j = Fields
    PROVE  /\ DOMAIN Closed(j) = Fields /\ Closed(j).out = "none"
           /\ \A x \in Fields \ {"out", "value"} : Closed(j)[x] = j[x]
BY DEF Closed, Fields

\* A delete that is alone has removed its reports from one more store.
LEMMA SoloSaved ==
    ASSUME CoreInv, NEW p \in Processes, Write(p), NEW at \in {"raw", "queue", "approved"},
           job[p].out = at, job[p].cmd = "delete", job[p].alone
    PROVE  Solo(Closed(job[p]), After(at), file')
<1> DEFINE j == Closed(job[p])
<1>1. /\ Solo(job[p], "write", file) /\ DOMAIN job[p] = Fields /\ file'[at] = job[p].value
      /\ \A f \in Files \ {at} : file'[f] = file[f]
  BY SavedIs
<1>2. /\ \A f \in Cleaned(at) : Clean(f, file[f], job[p].arg)
      /\ Clean(at, file'[at], job[p].arg)
  BY <1>1 DEF Solo
<1>3. Cleaned(at) \subseteq Files \ {at}
  BY DEF Cleaned, Files, ReportFiles
<1>4. /\ After(at) \in {"queue", "approved", "tombstones"}
      /\ Cleaned(After(at)) = Cleaned(at) \cup {at}
  BY CleanedAfter
<1>5. j.arg = job[p].arg
  BY <1>1, ClosedIs DEF Fields
<1> DEFINE next == After(at)
<1> HIDE DEF j, next
<1>6. \A f \in Cleaned(next) : Clean(f, file'[f], j.arg)
  BY <1>1, <1>2, <1>3, <1>4, <1>5 DEF next
<1>7. QED
  BY <1>4, <1>6 DEF Solo, j, next

LEMMA SaveQueueStep ==
    ASSUME CoreInv, NEW p \in Processes, SaveQueue(p)
    PROVE  CoreInv'
<1> DEFINE j == Closed(job[p])
<1>1. /\ Write(p) /\ job[p].out = "queue"
      /\ IF job[p].cmd \in {"approve", "delete"} THEN Goto(p, "approved", j) ELSE Return(p)
      /\ kept' = IF job[p].cmd = "submit" /\ job[p].alone
                 THEN kept \cup ({job[p].sub} \X job[p].rows) ELSE kept
      /\ UNCHANGED <<reviewed, fed, forgotten, erased>>
  <2>1. Write(p)
    BY DEF SaveQueue
  <2>2. DOMAIN job[p] = Fields
    BY <2>1, SavedIs
  <2>3. job[p].cmd = Closed(job[p]).cmd
    BY <2>2, ClosedIs DEF Fields
  <2>4. QED
    BY <2>3 DEF SaveQueue, Closed
<1>2. /\ Running(p) /\ Local(job[p], "write", World) /\ DOMAIN job[p] = Fields
      /\ job[p].cmd \in {"submit", "approve", "reject", "delete"}
      /\ file'["upstream"] = file["upstream"] /\ DOMAIN file' = Files
      /\ file'["queue"] = job[p].value /\ submitted' = submitted
      /\ StoreOK(file', World)
  BY <1>1, SavedIs DEF Targets, DatasetFiles, Files, ReportFiles
<1>3. CASE job[p].cmd = "submit" /\ job[p].alone
  <2>1. /\ job[p].sub \in 1 .. submitted /\ job[p].value[job[p].sub] # Missing
        /\ job[p].rows = {job[p].value[job[p].sub].report}
    BY <1>2, <1>3 DEF Local, Moderates, World
  <2>2. CountsOK'
    BY <1>1, <1>2, <1>3, <2>1 DEF CoreInv, CountsOK
  <2>3. Grows(World, World')
    BY <1>1, <1>2, StoreAssumption DEF Grows, World, CoreInv, CountsOK
  <2>4. StoreOK(file', World')
    <3>1. \A f \in Stores \ {"queue"} : \A v : Sound(f, v, World) => Sound(f, v, World')
      BY <1>1, <1>2 DEF Sound, SoundApproved, World, Stores
    <3>2. SoundQueue(job[p].value, World)
      BY <1>1, <1>2 DEF Local, Writes, Sound
    <3>3. \A k \in World'.ke : KeptEntry(k, job[p].value, World')
      BY <1>1, <1>3, <2>1, <3>2 DEF SoundQueue, KeptEntry, World
    <3>4. Sound("queue", job[p].value, World')
      BY <1>1, <1>2, <3>2, <3>3 DEF Sound, SoundQueue, World
    <3>5. QED
      BY <1>2, <3>1, <3>4 DEF StoreOK, Stores
  <2>5. Return(p)
    BY <1>1, <1>3
  <2>6. QED
    BY <1>2, <1>3, <2>2, <2>3, <2>4, <2>5, CoreReturns
<1>4. CASE ~(job[p].cmd = "submit" /\ job[p].alone)
  <2>1. UNCHANGED deskHistory
    BY <1>1, <1>4 DEF deskHistory
  <2>2. CASE Return(p)
    BY <1>1, <2>1, <2>2, PlainSaveReturns
  <2>3. CASE ~Return(p)
    <3>1. Goto(p, "approved", j) /\ job[p].cmd \in {"approve", "delete"}
      BY <1>1, <2>3
    <3>2. /\ World' = World /\ Grows(World, World') /\ Frozen(World, World')
          /\ StoreOK(file', World') /\ CountsOK'
      BY <1>1, <2>1, PlainSave
    <3>3. /\ DOMAIN j = Fields /\ j.cmd = job[p].cmd /\ j.alone = job[p].alone
          /\ j.owed = job[p].owed /\ j.out = "none" /\ j.rows = job[p].rows
          /\ j.arg = job[p].arg /\ j.ids = job[p].ids
      BY <1>2, ClosedIs DEF Fields
    <3>4. j.alone => Solo(j, "approved", file')
      <4>1. CASE job[p].cmd = "delete"
        BY <1>1, <3>3, <4>1, SoloSaved DEF After
      <4>2. CASE job[p].cmd # "delete"
        BY <3>3, <4>2 DEF Solo
      <4>3. QED
        BY <4>1, <4>2
    <3> HIDE DEF j
    <3>5. Local(j, "approved", World')
      <4>1. Writes(j, "approved", World') /\ Moderates(j, "approved", World')
        BY <1>2, <3>1, <3>2, <3>3 DEF Local, Writes, Moderates
      <4>2. Deletes(j, "approved", World') /\ Publishes(j, "approved", World')
        BY <1>1, <1>2, <3>2, <3>3 DEF Local, Deletes, Publishes
      <4>3. QED
        BY <4>1, <4>2 DEF Local
    <3>6. QED
      BY <1>2, <3>1, <3>2, <3>3, <3>4, <3>5, CoreGoes
  <2>4. QED
    BY <2>2, <2>3
<1>5. QED
  BY <1>3, <1>4

LEMMA SaveApprovedStep ==
    ASSUME CoreInv, NEW p \in Processes, SaveApproved(p)
    PROVE  CoreInv'
<1> DEFINE j == Closed(job[p])
<1>1. /\ Write(p) /\ job[p].out = "approved"
      /\ IF job[p].cmd = "delete" THEN Goto(p, "tombstones", j) ELSE Return(p)
      /\ fed' = IF job[p].cmd = "approve" /\ job[p].alone
                THEN fed \cup job[p].rows ELSE fed
      /\ UNCHANGED <<reviewed, kept, forgotten, erased>>
  <2>1. Write(p)
    BY DEF SaveApproved
  <2>2. DOMAIN job[p] = Fields
    BY <2>1, SavedIs
  <2>3. job[p].cmd = Closed(job[p]).cmd
    BY <2>2, ClosedIs DEF Fields
  <2>4. QED
    BY <2>3 DEF SaveApproved, Closed
<1>2. /\ Running(p) /\ Local(job[p], "write", World) /\ DOMAIN job[p] = Fields
      /\ file'["upstream"] = file["upstream"] /\ DOMAIN file' = Files
      /\ file'["approved"] = job[p].value /\ submitted' = submitted
      /\ StoreOK(file', World)
  BY <1>1, SavedIs DEF Files, ReportFiles
<1>3. CASE job[p].cmd = "approve" /\ job[p].alone
  <2>1. job[p].rows \subseteq job[p].value
    BY <1>1, <1>2, <1>3 DEF Local, Moderates
  <2>2. CountsOK' /\ Grows(World, World')
    BY <1>1, <1>2, StoreAssumption DEF Grows, World, CoreInv, CountsOK
  <2>3. StoreOK(file', World')
    <3>1. \A f \in Stores \ {"approved"} : \A v : Sound(f, v, World) => Sound(f, v, World')
      BY <1>1, <1>2 DEF Sound, SoundQueue, KeptEntry, World, Stores
    <3>2. SoundApproved(job[p].value, World)
      BY <1>1, <1>2 DEF Local, Writes, Sound
    <3>3. Sound("approved", job[p].value, World')
      BY <1>1, <1>3, <2>1, <3>2 DEF Sound, SoundApproved, World
    <3>4. QED
      BY <1>2, <3>1, <3>3 DEF StoreOK, Stores
  <2>4. Return(p)
    BY <1>1, <1>3
  <2>5. QED
    BY <1>2, <1>3, <2>2, <2>3, <2>4, CoreReturns
<1>4. CASE ~(job[p].cmd = "approve" /\ job[p].alone)
  <2>1. UNCHANGED deskHistory
    BY <1>1, <1>4 DEF deskHistory
  <2>2. CASE Return(p)
    BY <1>1, <2>1, <2>2, PlainSaveReturns
  <2>3. CASE ~Return(p)
    <3>1. Goto(p, "tombstones", j) /\ job[p].cmd = "delete"
      BY <1>1, <2>3
    <3>2. /\ World' = World /\ Grows(World, World') /\ Frozen(World, World')
          /\ StoreOK(file', World') /\ CountsOK'
      BY <1>1, <2>1, PlainSave
    <3>3. /\ DOMAIN j = Fields /\ j.cmd = job[p].cmd /\ j.alone = job[p].alone
          /\ j.owed = job[p].owed /\ j.out = "none" /\ j.arg = job[p].arg
          /\ j.ids = job[p].ids
      BY <1>2, ClosedIs DEF Fields
    <3>4. j.alone => Solo(j, "tombstones", file')
      BY <1>1, <3>1, <3>3, SoloSaved DEF After
    <3> HIDE DEF j
    <3>5. Local(j, "tombstones", World')
      BY <1>2, <3>1, <3>2, <3>3 DEF Local, Writes, Moderates, Deletes, Publishes
    <3>6. QED
      BY <1>2, <3>1, <3>2, <3>3, <3>4, <3>5, CoreGoes
  <2>4. QED
    BY <2>2, <2>3
<1>5. QED
  BY <1>3, <1>4

LEMMA SaveExportStep ==
    ASSUME CoreInv, NEW p \in Processes, SaveExport(p)
    PROVE  CoreInv'
BY PlainSaveReturns DEF SaveExport

LEMMA SaveRawStep ==
    ASSUME CoreInv, NEW p \in Processes, SaveRaw(p)
    PROVE  CoreInv'
<1> DEFINE j == Closed(job[p])
           next == CASE job[p].cmd = "delete" -> "queue"
                     [] job[p].cmd = "purge" -> "tombstones"
                     [] OTHER -> "analyse"
<1>1. Write(p) /\ job[p].out = "raw" /\ UNCHANGED deskHistory
  BY DEF SaveRaw
<1>2. /\ Running(p) /\ Local(job[p], "write", World) /\ DOMAIN job[p] = Fields
      /\ DOMAIN file' = Files
      /\ job[p].cmd \in {"delete", "purge", "run", "intake"}
  BY <1>1, SavedIs DEF Targets, DatasetFiles
<1>3. /\ DOMAIN j = Fields /\ j.cmd = job[p].cmd /\ j.alone = job[p].alone
      /\ j.owed = job[p].owed /\ j.out = "none" /\ j.arg = job[p].arg
      /\ j.ids = job[p].ids
  BY <1>2, ClosedIs DEF Fields
<1>4. CASE job[p].cmd = "intake"
  <2>1. Return(p)
    BY <1>3, <1>4 DEF SaveRaw, Closed
  <2>2. QED
    BY <1>1, <2>1, PlainSaveReturns
<1>5. CASE job[p].cmd # "intake"
  <2>1. Goto(p, next, j)
    BY <1>2, <1>3, <1>5 DEF SaveRaw, Closed
  <2>2. /\ World' = World /\ Grows(World, World') /\ Frozen(World, World')
        /\ StoreOK(file', World') /\ CountsOK'
    BY <1>1, PlainSave
  <2>3. /\ next \in {"queue", "tombstones", "analyse"}
        /\ job[p].cmd = "delete" => next = After("raw")
        /\ next = "analyse" => job[p].cmd = "run"
        /\ next = "queue" => job[p].cmd = "delete"
    BY <1>2, <1>5 DEF After
  <2>4. j.alone => Solo(j, next, file')
    <3>1. CASE job[p].cmd = "delete"
      BY <1>1, <1>3, <2>3, <3>1, SoloSaved
    <3>2. CASE job[p].cmd # "delete"
      BY <1>3, <3>2 DEF Solo
    <3>3. QED
      BY <3>1, <3>2
  <2> HIDE DEF j, next
  <2>5. Writes(j, next, World') /\ Publishes(j, next, World')
    BY <1>2, <1>3, <2>2, <2>3 DEF Local, Writes, Publishes
  <2>6. Deletes(j, next, World') /\ Moderates(j, next, World')
    BY <1>2, <1>3, <2>2, <2>3 DEF Local, Deletes, Moderates
  <2>7. QED
    BY <1>2, <1>3, <2>1, <2>2, <2>3, <2>4, <2>5, <2>6, CoreGoes DEF Local
<1>6. QED
  BY <1>4, <1>5

LEMMA SaveTombstonesStep ==
    ASSUME CoreInv, NEW p \in Processes, SaveTombstones(p)
    PROVE  CoreInv'
<1>1. /\ Write(p) /\ job[p].out = "tombstones" /\ Return(p) /\ erased' = Erased(p)
      /\ UNCHANGED <<reviewed, kept, fed, forgotten>>
  BY DEF SaveTombstones
<1>2. /\ Running(p) /\ Local(job[p], "write", World)
      /\ job[p].alone => Solo(job[p], "write", file)
      /\ DOMAIN file' = Files /\ file'["upstream"] = file["upstream"]
      /\ file'["tombstones"] = job[p].value /\ submitted' = submitted
      /\ \A f \in {"raw", "queue", "approved"} : file'[f] = file[f]
      /\ StoreOK(file', World)
  BY <1>1, SavedIs DEF Files, ReportFiles
<1>3. CASE job[p].cmd = "delete"
  <2>1. job[p].ids \subseteq Tombstoned(file'["tombstones"])
    BY <1>1, <1>2, <1>3 DEF Local, Deletes
  <2>2. job[p].alone =>
            \A f \in {"raw", "queue", "approved"} : Clean(f, file'[f], job[p].arg)
    BY <1>1, <1>2, <1>3 DEF Solo, Cleaned
  <2>3. QED
    BY <1>1, <1>2, <1>3, <2>1, <2>2, ErasedReturns
<1>4. CASE job[p].cmd # "delete"
  <2>1. UNCHANGED deskHistory
    BY <1>1, <1>4 DEF Erased, deskHistory
  <2>2. QED
    BY <1>1, <2>1, PlainSaveReturns
<1>5. QED
  BY <1>3, <1>4

\* A publisher goes from one file of the dataset to the next.
LEMMA PublisherSaves ==
    ASSUME CoreInv, NEW p \in Processes, Write(p), UNCHANGED deskHistory,
           NEW f \in DatasetFiles \ {"geojson"}, NEW v, Writing(p, f, v, job[p]),
           job[p].out \in DatasetFiles
    PROVE  CoreInv'
<1> DEFINE k == Opened(job[p], f, v)
<1>1. Goto(p, "write", k)
  BY WritingIs
<1>2. /\ Running(p) /\ Local(job[p], "write", World) /\ DOMAIN job[p] = Fields
      /\ DOMAIN file' = Files /\ job[p].cmd \in {"run", "publish"}
  BY SavedIs DEF Targets, DatasetFiles
<1>3. /\ World' = World /\ Grows(World, World') /\ Frozen(World, World')
      /\ StoreOK(file', World') /\ CountsOK'
  BY PlainSave
<1>4. /\ DOMAIN k = Fields /\ k.cmd = job[p].cmd /\ k.alone = job[p].alone
      /\ k.owed = job[p].owed /\ k.out = f /\ k.arg = job[p].arg
  BY <1>2, OpenedIs DEF Fields
<1> HIDE DEF k
<1>5. Writes(k, "write", World')
  BY <1>2, <1>4 DEF Writes, Targets, Sound, DatasetFiles
<1>6. /\ Moderates(k, "write", World') /\ Deletes(k, "write", World')
      /\ Solo(k, "write", file')
  BY <1>2, <1>4 DEF Moderates, Deletes, Solo
<1>7. Publishes(k, "write", World')
  BY <1>2, <1>3, <1>4 DEF Local, Publishes, DatasetFiles
<1>8. QED
  BY <1>1, <1>2, <1>3, <1>4, <1>5, <1>6, <1>7, CoreGoes DEF Local

LEMMA PublisherStep ==
    ASSUME CoreInv, NEW p \in Processes,
           SaveGeojson(p) \/ SaveMetadata(p) \/ SaveCorridors(p) \/ SaveManifest(p)
             \/ SaveBrief(p)
    PROVE  CoreInv'
<1>1. CASE SaveGeojson(p) \/ SaveMetadata(p) \/ SaveCorridors(p)
  BY <1>1, PublisherSaves DEF SaveGeojson, SaveMetadata, SaveCorridors, DatasetFiles
<1>2. CASE SaveManifest(p)
  <2> DEFINE j == Closed(job[p])
  <2>1. Write(p) /\ job[p].out = "manifest" /\ UNCHANGED deskHistory
    BY <1>2 DEF SaveManifest
  <2>2. CASE Return(p)
    BY <2>1, <2>2, PlainSaveReturns
  <2>3. CASE ~Return(p)
    <3>1. Goto(p, "retell", j) /\ job[p].cmd = "run"
      BY <1>2, <2>3 DEF SaveManifest, Closed
    <3>2. /\ Running(p) /\ Local(job[p], "write", World) /\ DOMAIN job[p] = Fields
          /\ DOMAIN file' = Files
      BY <2>1, SavedIs
    <3>3. /\ World' = World /\ Grows(World, World') /\ Frozen(World, World')
          /\ StoreOK(file', World') /\ CountsOK'
      BY <2>1, PlainSave
    <3>4. /\ DOMAIN j = Fields /\ j.cmd = job[p].cmd /\ j.alone = job[p].alone
          /\ j.owed = job[p].owed /\ j.out = "none" /\ j.arg = job[p].arg
      BY <3>2, ClosedIs DEF Fields
    <3> HIDE DEF j
    <3>5. /\ Writes(j, "retell", World') /\ Moderates(j, "retell", World')
          /\ Deletes(j, "retell", World') /\ Solo(j, "retell", file')
      BY <3>1, <3>4 DEF Writes, Moderates, Deletes, Solo
    <3>6. Publishes(j, "retell", World')
      BY <3>1, <3>2, <3>3, <3>4 DEF Local, Publishes
    <3>7. QED
      BY <3>1, <3>2, <3>3, <3>4, <3>5, <3>6, CoreGoes DEF Local
  <2>4. QED
    BY <2>2, <2>3
<1>3. CASE SaveBrief(p)
  BY <1>3, PlainSaveReturns DEF SaveBrief
<1>4. QED
  BY <1>1, <1>2, <1>3

-----------------------------------------------------------------------------
(* Commands start, fail to read, and die.                                  *)

LEMMA BeginStep ==
    ASSUME CoreInv, NEW p \in Processes, Begin(p)
    PROVE  CoreInv'
<1>1. PICK c \in Commands : Start(p, c, erased)
  BY DEF Begin
<1> DEFINE j == [NoJob EXCEPT !.cmd = c.cmd, !.arg = c.arg, !.owed = erased,
                     !.alone = \A other \in Processes : ~Running(other)]
           s == FirstStage(c.cmd)
<1>2. /\ ~Running(p) /\ UNCHANGED <<file, submitted>> /\ UNCHANGED deskHistory
      /\ DOMAIN pc' = Processes /\ DOMAIN job' = Processes
      /\ pc'[p] = s /\ job'[p] = j
      /\ \A q \in Processes \ {p} : pc'[q] = pc[q]
  BY <1>1 DEF Begin, Start, CoreInv, Shapes
<1>3. \A q \in Processes \ {p} :
         job'[q] = IF Running(q) THEN [job[q] EXCEPT !.alone = FALSE] ELSE job[q]
  BY <1>1 DEF Start
<1>4. World' = World
  BY <1>2 DEF World, deskHistory
<1>5. /\ DOMAIN j = Fields /\ j.cmd = c.cmd /\ j.arg = c.arg /\ j.owed = erased
      /\ j.out = "none" /\ j.ids = {}
  BY DEF NoJob, Fields
<1>6. j.alone <=> \A other \in Processes : ~Running(other)
  <2>1. j.alone = (\A other \in Processes : ~Running(other))
    BY DEF NoJob
  <2>2. QED
    BY <2>1
<1>7. /\ s \in {"tombstones", "queue", "approved", "raw", "load", "analyse"}
      /\ c.cmd = "delete" => s = "raw"
      /\ c.cmd = "submit" => s = "tombstones"
      /\ c.cmd = "approve" => s = "queue"
      /\ s = "analyse" => c.cmd = "publish"
      /\ c.cmd \in {"approve", "reject"} => c.arg \in Submissions
      /\ c.cmd \in {"intake", "run"} => c.arg \in ReportFiles
  <2>1. \/ c.cmd \in {"submit", "export", "delete", "purge", "publish"}
        \/ c.cmd \in {"approve", "reject"} /\ c.arg \in Submissions
        \/ c.cmd \in {"intake", "run"} /\ c.arg \in ReportFiles
    BY StoreAssumption
  <2>2. QED
    BY <2>1 DEF FirstStage
<1> HIDE DEF j, s
<1>8. \A q \in Processes \ {p} :
         /\ Running(q)' <=> Running(q)
         /\ DOMAIN job'[q] = Fields
         /\ ~Running(q) => job'[q] = job[q]
         /\ Running(q) => ~job'[q].alone
         /\ \A x \in Fields \ {"alone"} : job'[q][x] = job[q][x]
  <2> SUFFICES ASSUME NEW q \in Processes \ {p}
               PROVE  /\ Running(q)' <=> Running(q)
                      /\ DOMAIN job'[q] = Fields
                      /\ ~Running(q) => job'[q] = job[q]
                      /\ Running(q) => ~job'[q].alone
                      /\ \A x \in Fields \ {"alone"} : job'[q][x] = job[q][x]
    OBVIOUS
  <2>1. Running(q)' <=> Running(q)
    BY <1>2 DEF Running
  <2>2. DOMAIN job[q] = Fields
    BY DEF CoreInv, Shapes
  <2>3. CASE Running(q)
    <3>1. job'[q] = [job[q] EXCEPT !.alone = FALSE]
      BY <1>3, <2>3
    <3>2. QED
      BY <2>1, <2>2, <2>3, <3>1 DEF Fields
  <2>4. CASE ~Running(q)
    BY <1>3, <2>1, <2>2, <2>4
  <2>5. QED
    BY <2>3, <2>4
<1>9. Shapes'
  <2>1. DOMAIN file' = Files
    BY <1>2 DEF CoreInv, Shapes
  <2>2. \A q \in Processes : DOMAIN job'[q] = Fields
    BY <1>2, <1>5, <1>8
  <2>3. \A q \in Processes : ~Running(q)' => job'[q] = NoJob
    BY <1>2, <1>7, <1>8 DEF CoreInv, Shapes, Running
  <2>4. QED
    BY <1>2, <2>1, <2>2, <2>3 DEF Shapes
<1>10. AloneOK'
  <2> SUFFICES ASSUME NEW x \in Processes, NEW y \in Processes, Running(x)', x # y,
                      job'[x].alone
               PROVE  ~Running(y)'
    BY DEF AloneOK
  <2>1. x = p
    BY <1>8
  <2>2. QED
    BY <1>2, <1>6, <1>8, <2>1
<1>11. CountsOK' /\ StoreOK(file', World')
  BY <1>2, <1>4 DEF CoreInv, CountsOK, deskHistory
<1>12. ASSUME NEW q \in Processes, Running(q)' PROVE Local(job'[q], pc'[q], World')
  <2>1. CASE q = p
    <3>1. Writes(j, s, World) /\ Moderates(j, s, World)
      BY <1>5, <1>7 DEF Writes, Moderates
    <3>2. Deletes(j, s, World) /\ Publishes(j, s, World)
      BY <1>5, <1>7 DEF Deletes, Publishes, World
    <3>3. QED
      BY <1>2, <1>4, <2>1, <3>1, <3>2 DEF Local
  <2>2. CASE q # p
    <3>1. Local(job[q], pc[q], World) /\ pc'[q] = pc[q]
      BY <1>2, <1>8, <1>12, <2>2 DEF CoreInv
    <3>2. \A x \in Fields \ {"alone"} : job'[q][x] = job[q][x]
      BY <1>8, <2>2
    <3>3. QED
      BY <1>4, <3>1, <3>2 DEF Local, Writes, Moderates, Deletes, Publishes, Vetted, Fields
  <2>3. QED
    BY <2>1, <2>2
<1>13. ASSUME NEW q \in Processes, Running(q)', job'[q].alone
       PROVE  Solo(job'[q], pc'[q], file')
  <2>1. q = p
    BY <1>8, <1>13
  <2>2. Solo(j, s, file)
    BY <1>5, <1>7 DEF Solo, Cleaned
  <2>3. QED
    BY <1>2, <2>1, <2>2
<1>14. QED
  BY <1>9, <1>10, <1>11, <1>12, <1>13 DEF CoreInv

LEMMA UnreadStep ==
    ASSUME CoreInv, NEW p \in Processes, Unread(p)
    PROVE  CoreInv'
<1>1. Running(p) /\ Return(p) /\ Reads
  BY DEF Unread, ReadFails, Running, Reads, deskHistory
<1>2. QED
  BY <1>1, CoreReadsLast

LEMMA DiesStep ==
    ASSUME CoreInv, NEW p \in Processes, Dies(p)
    PROVE  CoreInv'
<1>1. Running(p) /\ Return(p) /\ UNCHANGED deskHistory /\ submitted' = submitted
  BY DEF Dies, Die
<1>2. CASE file' = file
  <2>1. World' = World /\ Grows(World, World') /\ Frozen(World, World') /\ CountsOK'
    BY <1>1, <1>2, StoreAssumption
    DEF World, Grows, Frozen, CoreInv, CountsOK, deskHistory
  <2>2. QED
    BY <1>1, <1>2, <2>1, CoreReturns DEF CoreInv, Shapes
<1>3. CASE pc[p] = "write" /\ file' = [file EXCEPT ![job[p].out] = Torn]
  <2>1. job[p].out \in Files \ {"upstream"}
    <3>1. job[p].out \in Targets(job[p].cmd)
      BY <1>1, <1>3 DEF CoreInv, Local, Writes
    <3>2. QED
      BY <3>1 DEF Targets, Files, ReportFiles, DatasetFiles
  <2>2. /\ DOMAIN file' = Files /\ file'["upstream"] = file["upstream"]
        /\ \A f \in Files : file'[f] = file[f] \/ file'[f] = Torn
    BY <1>3, <2>1 DEF CoreInv, Shapes, Files, ReportFiles
  <2>3. World' = World /\ Grows(World, World') /\ Frozen(World, World') /\ CountsOK'
    BY <1>1, <2>2, StoreAssumption
    DEF World, Grows, Frozen, CoreInv, CountsOK, deskHistory
  <2>4. StoreOK(file', World')
    BY <2>2, <2>3 DEF CoreInv, StoreOK, Stores, Files, ReportFiles
  <2>5. QED
    BY <1>1, <2>2, <2>3, <2>4, CoreReturns
<1>4. QED
  BY <1>2, <1>3 DEF Dies, Die

-----------------------------------------------------------------------------
(* The invariant of the stores holds.                                      *)

LEMMA CoreInit == Init => CoreInv
<1> SUFFICES ASSUME Init PROVE CoreInv
  OBVIOUS
<1>1. PICK past \in Pasts :
         /\ StoreInit(past) /\ reviewed = past /\ kept = {1} \X past /\ fed = past
  BY DEF Init, DeskInit
<1>2. forgotten = {} /\ erased = {}
  BY DEF Init, DeskInit
<1>3. PICK up \in Upstream :
          file = [f \in Files |->
                    CASE f = "upstream"   -> up
                      [] f = "queue"      ->
                            [s \in Submissions |->
                                IF past # {} /\ s = 1
                                THEN [report |-> CHOOSE r \in past : TRUE,
                                      status |-> "approved"]
                                ELSE Missing]
                      [] f = "tombstones" -> [r \in Reports |-> "none"]
                      [] f = "approved"   -> past
                      [] f = "export"     -> IF past = {} THEN Missing ELSE past
                      [] OTHER            -> Missing]
  BY <1>1 DEF StoreInit
<1>4. /\ \A p \in Processes : ~Running(p) /\ job[p] = NoJob
      /\ DOMAIN pc = Processes /\ DOMAIN job = Processes
      /\ submitted = Cardinality(past)
  BY <1>1 DEF StoreInit, Running
<1>5. DOMAIN file = Files
  BY <1>3
<1>6. Shapes /\ AloneOK
  BY <1>4, <1>5, NoJobIs DEF Shapes, AloneOK
<1>7. /\ file["approved"] = past /\ file["raw"] = Missing
      /\ file["export"] = (IF past = {} THEN Missing ELSE past)
      /\ file["queue"] = [s \in Submissions |->
                                IF past # {} /\ s = 1
                                THEN [report |-> CHOOSE r \in past : TRUE,
                                      status |-> "approved"]
                                ELSE Missing]
  BY <1>3 DEF Files, ReportFiles
<1>8. /\ World.er = {} /\ World.re = past /\ World.ke = {1} \X past /\ World.fe = past
  BY <1>1, <1>2 DEF World
<1>9. \/ past = {} /\ submitted = 0
      \/ \E r \in Valid : past = {r} /\ submitted = 1 /\ MaxSubmissions > 0
  <2>1. past = {} \/ \E r \in Valid : past = {r}
    BY StoreAssumption
  <2>2. past = {} => submitted = 0
    BY <1>4, FS_EmptySet
  <2>3. \A r \in Valid : past = {r} => submitted = 1 /\ MaxSubmissions > 0
    BY <1>4, FS_Singleton, StoreAssumption
  <2>4. QED
    BY <2>1, <2>2, <2>3
<1>10. CountsOK
  BY <1>1, <1>9, StoreAssumption DEF CountsOK
<1>11. Sound("raw", {}, World) /\ Sound("tombstones", file["tombstones"], World)
  BY <1>8 DEF Sound
<1>12. SoundApproved(past, World) /\ (past # {} => Sound("export", past, World))
  BY <1>8, <1>9 DEF SoundApproved, Sound
<1>13. SoundQueue(file["queue"], World)
  <2>1. CASE past = {}
    BY <1>7, <1>8, <2>1 DEF SoundQueue, Queues
  <2>2. CASE past # {}
    <3>1. PICK r \in Valid : past = {r} /\ MaxSubmissions > 0
      BY <1>9, <2>2
    <3>2. (CHOOSE x \in past : TRUE) = r
      BY <3>1
    <3>3. /\ DOMAIN file["queue"] = Submissions /\ 1 \in Submissions
          /\ file["queue"][1] = [report |-> r, status |-> "approved"]
          /\ \A s \in Submissions : s # 1 => file["queue"][s] = Missing
      BY <1>7, <2>2, <3>1, <3>2, StoreAssumption DEF Submissions
    <3>4. file["queue"][1] \in Entries /\ file["queue"][1] # Missing
      BY <3>1, <3>3, EntryAssumption, StoreAssumption DEF Entries
    <3>6. file["queue"] \in Queues
      BY <1>7, <2>2, <3>2, <3>3, <3>4 DEF Queues
    <3>5. QED
      BY <1>8, <3>1, <3>3, <3>4, <3>6 DEF SoundQueue, KeptEntry
  <2>3. QED
    BY <2>1, <2>2
<1>14. StoreOK(file, World)
  BY <1>7, <1>11, <1>12, <1>13 DEF StoreOK, Stores, Sound
<1>15. QED
  BY <1>4, <1>6, <1>10, <1>14 DEF CoreInv

LEMMA CoreStep == CoreInv /\ [Next]_vars => CoreInv'
<1> SUFFICES ASSUME CoreInv, [Next]_vars PROVE CoreInv'
  OBVIOUS
<1>1. CASE UNCHANGED vars
  <2>1. UNCHANGED <<file, submitted, pc, job>> /\ UNCHANGED deskHistory
    BY <1>1 DEF vars, storeVars
  <2>2. QED
    BY <2>1
    DEF CoreInv, Shapes, AloneOK, CountsOK, World, Running, deskHistory
<1>2. ASSUME NEW p \in Processes, DeskCommand(p) PROVE CoreInv'
  BY <1>2, SubmitCheckedStep, SubmitStep, ApproveStep, RejectStep, AppendApprovedStep,
     ExportStep, DeleteFromRawStep, PurgeRawStep, DeleteFromQueueStep,
     DeleteFromApprovedStep, RecordTombstonesStep, SaveQueueStep, SaveApprovedStep,
     SaveExportStep, SaveRawStep, SaveTombstonesStep, Zenon
  DEF DeskCommand, DeskStep
<1>3. QED
  BY <1>1, <1>2, BeginStep, UnreadStep, DiesStep, LoadStep, FilterStep, AnalyseStep,
     CheckPrivacyStep, HashInputsStep, PublisherStep, RetellStep, Zenon
  DEF Next

LEMMA CoreHolds == Spec => []CoreInv
BY CoreInit, CoreStep, PTL DEF Spec

(* What a contributor deleted while no other command was running is in no  *)
(* store again, however many commands overlap or die afterwards.           *)
THEOREM ErasedNeverReturns == Spec => []ErasedStaysErased
<1>1. CoreInv => ErasedStaysErased
  BY DEF CoreInv, StoreOK, Stores, Sound, SoundQueue, SoundApproved, World,
         ErasedStaysErased, Holding, InQueue
<1>2. QED
  BY <1>1, CoreHolds, PTL

-----------------------------------------------------------------------------
(* What is published.                                                      *)

Digested == DatasetFiles \ {"brief"}

\* A step of p writes at most the file that p has opened.
LEMMA FileChange ==
    ASSUME CoreInv, NEW p \in Processes,
           \/ UNCHANGED file
           \/ Write(p)
           \/ pc[p] = "write" /\ file' = [file EXCEPT ![job[p].out] = Torn]
    PROVE  \/ file' = file
           \/ /\ pc[p] = "write" /\ job[p].out \in Files \ {"upstream"}
              /\ \A f \in Files \ {job[p].out} : file'[f] = file[f]
<1>1. CASE Write(p)
  BY <1>1, SavedIs
<1>2. CASE pc[p] = "write" /\ file' = [file EXCEPT ![job[p].out] = Torn]
  <2>1. job[p].out \in Targets(job[p].cmd)
    BY <1>2 DEF CoreInv, Local, Writes, Running
  <2>2. job[p].out \in Files \ {"upstream"}
    BY <2>1 DEF Targets, Files, ReportFiles, DatasetFiles
  <2>3. QED
    BY <1>2, <2>2 DEF CoreInv, Shapes
<1>3. QED
  BY <1>1, <1>2

Changes(p) ==
    \/ UNCHANGED file
    \/ Write(p)
    \/ pc[p] = "write" /\ file' = [file EXCEPT ![job[p].out] = Torn]

\* Every step that publishes nothing.
LEMMA DeskChanges ==
    ASSUME NEW p \in Processes, DeskStep(p)
    PROVE  /\ Changes(p) /\ reviewed \subseteq reviewed'
           /\ UNCHANGED file \/ Write(p)
<1>1. CASE SubmitChecked(p) \/ Submit(p) \/ Approve(p) \/ Reject(p)
  BY <1>1 DEF Changes, SubmitChecked, Submit, Approve, Reject, Stay, deskHistory
<1>2. CASE AppendApproved(p) \/ Export(p) \/ DeleteFromRaw(p) \/ PurgeRaw(p)
  BY <1>2 DEF Changes, AppendApproved, Export, DeleteFromRaw, PurgeRaw, Stay, deskHistory
<1>3. CASE DeleteFromQueue(p) \/ DeleteFromApproved(p) \/ RecordTombstones(p)
  BY <1>3 DEF Changes, DeleteFromQueue, DeleteFromApproved, RecordTombstones, Stay,
              deskHistory
<1>4. CASE SaveQueue(p) \/ SaveApproved(p) \/ SaveExport(p) \/ SaveRaw(p)
             \/ SaveTombstones(p)
  BY <1>4 DEF Changes, SaveQueue, SaveApproved, SaveExport, SaveRaw, SaveTombstones,
              deskHistory
<1>5. QED
  BY <1>1, <1>2, <1>3, <1>4 DEF DeskStep

-----------------------------------------------------------------------------
(* What is lost, and how.                                                  *)

\* What a command saves is whole: only one that dies in the write tears a file.
LEMMA OnlyDeathTears ==
    ASSUME CoreInv, Next, NEW f \in {"queue", "approved"},
           file'[f] = Torn, file[f] # Torn
    PROVE  Tears(f)
<1>1. f \in Files /\ f \in Stores
  BY DEF Files, ReportFiles, Stores
<1>2. ASSUME NEW v, Sound(f, v, World) PROVE v # Torn
  <2>1. f = "queue" => v \in Queues
    BY <1>2 DEF Sound, SoundQueue
  <2>2. f = "approved" => v \in SUBSET Reports
    BY <1>2, StoreAssumption DEF Sound, SoundApproved
  <2>3. QED
    BY <2>1, <2>2, EntryAssumption
<1>3. ASSUME NEW p \in Processes, Write(p) PROVE FALSE
  <2>1. job[p].out = f /\ job[p].value = Torn
    BY <1>1, <1>3, SavedIs
  <2>2. Sound(f, job[p].value, World)
    BY <1>3, <2>1, SavedIs DEF Local, Writes
  <2>3. QED
    BY <1>2, <2>1, <2>2
<1>4. ASSUME NEW p \in Processes, Dies(p) PROVE Tears(f)
  <2>1. pc[p] = "write" /\ file' = [file EXCEPT ![job[p].out] = Torn]
    BY <1>1, <1>4 DEF Dies, Die
  <2>2. job[p].out = f
    BY <1>1, <2>1 DEF CoreInv, Shapes
  <2>3. pc'[p] = "idle" /\ crashes' = crashes + 1
    BY <1>4 DEF Dies, Die, Return, Goto, CoreInv, Shapes
  <2>4. QED
    BY <2>1, <2>2, <2>3 DEF Tears
<1>5. ASSUME NEW p \in Processes, UNCHANGED file \/ Write(p) PROVE FALSE
  BY <1>1, <1>3, <1>5
<1>6. ASSUME NEW p \in Processes, DeskCommand(p) PROVE FALSE
  BY <1>5, <1>6, DeskChanges DEF DeskCommand
<1>7. ASSUME NEW p \in Processes,
             \/ Begin(p) \/ Unread(p) \/ Load(p) \/ Filter(p) \/ Analyse(p)
             \/ CheckPrivacy(p) \/ HashInputs(p) \/ Retell(p)
      PROVE  FALSE
  BY <1>5, <1>7
  DEF Begin, Start, Unread, ReadFails, Load, Filter, Analyse, CheckPrivacy,
      HashInputs, Retell, Stay
<1>8. ASSUME NEW p \in Processes,
             \/ SaveGeojson(p) \/ SaveMetadata(p) \/ SaveCorridors(p)
             \/ SaveManifest(p) \/ SaveBrief(p)
      PROVE  FALSE
  BY <1>5, <1>8 DEF SaveGeojson, SaveMetadata, SaveCorridors, SaveManifest, SaveBrief
<1>9. QED
  BY <1>4, <1>6, <1>7, <1>8 DEF Next

LEMMA LostToDeath ==
    ASSUME CoreInv, [Next]_vars, NEW f \in {"queue", "approved"}, file'[f] = Torn
    PROVE  LeftTorn(f)
<1>1. CASE UNCHANGED vars
  BY <1>1 DEF vars, storeVars, LeftTorn
<1>2. CASE Next
  BY <1>2, OnlyDeathTears DEF LeftTorn
<1>3. QED
  BY <1>1, <1>2

(* An acknowledged submission leaves the queue in two ways only: its       *)
(* contributor deletes it, or a later command dies in the middle of the    *)
(* in-place write of the queue, which loses the whole queue.               *)
THEOREM AcceptedAreQueued == Spec => AcceptedStaysQueued
<1> DEFINE Accounted ==
       \A k \in kept' : Queued(k)' \/ TokenOf[k[2]] \in forgotten' \/ LeftTorn("queue")
<1>1. ASSUME CoreInv, CoreInv', [Next]_vars, NEW k \in kept'
      PROVE  \/ Queued(k)'
             \/ TokenOf[k[2]] \in forgotten'
             \/ LeftTorn("queue")
  <2>1. CASE file'["queue"] = Torn
    BY <1>1, <2>1, LostToDeath
  <2>2. CASE file'["queue"] # Torn
    <3>1. Sound("queue", file["queue"], World)'
      BY <1>1, <2>2 DEF CoreInv, StoreOK, Stores
    <3>2. KeptEntry(k, file["queue"], World)'
      BY <1>1, <3>1 DEF Sound, SoundQueue, World
    <3>3. QED
      BY <2>2, <3>2 DEF KeptEntry, Queued, World
  <2>3. QED
    BY <2>1, <2>2
<1>2. CoreInv /\ CoreInv' /\ [Next]_vars => [Accounted]_vars
  BY <1>1
<1>3. [][Accounted]_vars => AcceptedStaysQueued
  BY PTL DEF AcceptedStaysQueued
<1> HIDE DEF Accounted
<1>4. QED
  BY <1>2, <1>3, CoreHolds, PTL DEF Spec

(* An approved report leaves the pipeline's feed in two ways only: its     *)
(* contributor deletes it, or a later command dies in the middle of the    *)
(* in-place write of the approved store.                                   *)
THEOREM ApprovedAreFed == Spec => ApprovedStaysFed
<1> DEFINE Accounted ==
       \A r \in fed' : Fed(r)' \/ TokenOf[r] \in forgotten' \/ LeftTorn("approved")
<1>1. ASSUME CoreInv, CoreInv', [Next]_vars, NEW r \in fed'
      PROVE  \/ Fed(r)'
             \/ TokenOf[r] \in forgotten'
             \/ LeftTorn("approved")
  <2>1. CASE file'["approved"] = Torn
    BY <1>1, <2>1, LostToDeath
  <2>2. CASE file'["approved"] # Torn
    <3>1. Sound("approved", file["approved"], World)'
      BY <1>1, <2>2 DEF CoreInv, StoreOK, Stores
    <3>2. r \in file'["approved"] \/ TokenOf[r] \in forgotten'
      BY <1>1, <3>1 DEF Sound, SoundApproved, World
    <3>3. QED
      BY <2>2, <3>2 DEF Fed
  <2>3. QED
    BY <2>1, <2>2
<1>2. CoreInv /\ CoreInv' /\ [Next]_vars => [Accounted]_vars
  BY <1>1
<1>3. [][Accounted]_vars => ApprovedStaysFed
  BY PTL DEF ApprovedStaysFed
<1> HIDE DEF Accounted
<1>4. QED
  BY <1>2, <1>3, CoreHolds, PTL DEF Spec

-----------------------------------------------------------------------------
(* What the published dataset counts.                                      *)

\* A step is one of a process, and either saves the dataset or leaves the basis alone.
LEMMA BasisChange ==
    ASSUME CoreInv, Next
    PROVE  /\ file'["upstream"] = file["upstream"] /\ reviewed \subseteq reviewed'
           /\ \/ UNCHANGED <<basis, settled>>
              \/ \E p \in Processes : SaveGeojson(p)
<1>1. \A p \in Processes : Changes(p) => file'["upstream"] = file["upstream"]
  BY FileChange DEF Changes, Files, ReportFiles
<1>2. ASSUME NEW p \in Processes, DeskCommand(p)
      PROVE  /\ Changes(p) /\ reviewed \subseteq reviewed'
             /\ UNCHANGED <<basis, settled>>
  BY <1>2, DeskChanges DEF DeskCommand, publicHistory
<1>3. ASSUME NEW p \in Processes, Begin(p) \/ Unread(p) \/ Dies(p) \/ Load(p) \/ Filter(p)
      PROVE  /\ Changes(p) /\ reviewed \subseteq reviewed'
             /\ UNCHANGED <<basis, settled>>
  BY <1>3 DEF Changes, Begin, Start, Unread, ReadFails, Dies, Die, Load, Filter, Stay,
              publicHistory, deskHistory
<1>4. ASSUME NEW p \in Processes,
             Analyse(p) \/ CheckPrivacy(p) \/ HashInputs(p) \/ Retell(p)
      PROVE  /\ Changes(p) /\ reviewed \subseteq reviewed'
             /\ UNCHANGED <<basis, settled>>
  BY <1>4 DEF Changes, Analyse, CheckPrivacy, HashInputs, Retell, Stay, publicHistory,
              deskHistory
<1>5. ASSUME NEW p \in Processes,
             SaveGeojson(p) \/ SaveMetadata(p) \/ SaveCorridors(p) \/ SaveManifest(p)
               \/ SaveBrief(p)
      PROVE  /\ Changes(p) /\ reviewed \subseteq reviewed'
             /\ UNCHANGED <<basis, settled>> \/ SaveGeojson(p)
  BY <1>5 DEF Changes, SaveGeojson, SaveMetadata, SaveCorridors, SaveManifest, SaveBrief,
              publicHistory, deskHistory
<1>6. QED
  BY <1>1, <1>2, <1>3, <1>4, <1>5 DEF Next

LEMMA BasisInit == Init => BasisInv
BY DEF Init, BasisInv, OnlyVettedPublished, RunHonoursDeletions

LEMMA BasisStep == CoreInv /\ BasisInv /\ [Next]_vars => BasisInv'
<1> SUFFICES ASSUME CoreInv, BasisInv, [Next]_vars PROVE BasisInv'
  OBVIOUS
<1>1. /\ file'["upstream"] = file["upstream"] /\ reviewed \subseteq reviewed'
      /\ \/ UNCHANGED <<basis, settled>>
         \/ \E p \in Processes : SaveGeojson(p)
  <2>1. CASE UNCHANGED vars
    BY <2>1 DEF vars, storeVars, deskHistory, publicHistory
  <2>2. CASE Next
    BY <2>2, BasisChange
  <2>3. QED
    BY <2>1, <2>2
<1>2. CASE UNCHANGED <<basis, settled>>
  BY <1>1, <1>2 DEF BasisInv, OnlyVettedPublished, RunHonoursDeletions
<1>3. ASSUME NEW p \in Processes, SaveGeojson(p) PROVE BasisInv'
  <2>1. /\ Local(job[p], "write", World) /\ job[p].out = "geojson"
        /\ basis' = job[p].rows /\ settled' = job[p].owed
    BY <1>3, SavedIs DEF SaveGeojson
  <2>2. Vetted(job[p], World)
    BY <2>1 DEF Local, Publishes
  <2>3. QED
    BY <1>1, <2>1, <2>2 DEF Vetted, World, BasisInv, OnlyVettedPublished,
                            RunHonoursDeletions
<1>4. QED
  BY <1>1, <1>2, <1>3

LEMMA BasisHolds == Spec => [](CoreInv /\ BasisInv)
<1>1. Init => CoreInv /\ BasisInv
  BY CoreInit, BasisInit
<1>2. CoreInv /\ BasisInv /\ [Next]_vars => (CoreInv /\ BasisInv)'
  BY CoreStep, BasisStep
<1>3. QED
  BY <1>1, <1>2, PTL DEF Spec

(* Everything that is published satisfies the schema and was approved or   *)
(* came from upstream, if the pipeline reads a file that intake or the     *)
(* moderation desk has written.                                            *)
THEOREM PublishedIsVetted ==
    ASSUME ReportsPath # "upstream"
    PROVE  Spec => []OnlyVettedPublished
<1>1. CoreInv /\ BasisInv => OnlyVettedPublished
  BY DEF BasisInv
<1>2. QED
  BY <1>1, BasisHolds, PTL

(* What is published after a deletion does not count the deleted report,   *)
(* if the pipeline reads a store that deletions reach.                     *)
THEOREM DeletionsAreHonoured ==
    ASSUME ReportsPath \in {"raw", "approved"}
    PROVE  Spec => []RunHonoursDeletions
<1>1. CoreInv /\ BasisInv => RunHonoursDeletions
  BY DEF BasisInv
<1>2. QED
  BY <1>1, BasisHolds, PTL

-----------------------------------------------------------------------------
(* The files of a publication.                                             *)

\* p takes a step; whatever is published, no other command that is alone sees it.
LEMMA WholeGoes ==
    ASSUME CoreInv, WholeInv, NEW p \in Processes, Running(p),
           NEW s, NEW j, Goto(p, s, j), Changes(p),
           whole' => /\ PublicationWhole'
                     /\ s = "write" => j.out \notin Digested
                     /\ whole \/ job[p].alone,
           s # "idle" /\ j.alone => Publisher(j, s, file', basis'),
           s = "idle" => j = NoJob, s # "idle" => j.alone = job[p].alone
    PROVE  WholeInv'
<1>1. /\ pc'[p] = s /\ job'[p] = j
      /\ \A q \in Processes \ {p} : pc'[q] = pc[q] /\ job'[q] = job[q]
  BY GotoIs DEF CoreInv
<1>2. PublicationWhole'
  BY DEF PublicationWhole
<1>3. ASSUME whole', NEW q \in Processes, pc'[q] = "write"
      PROVE  job'[q].out \notin Digested
  <2>1. CASE q = p
    BY <1>1, <1>3, <2>1
  <2>2. CASE q # p
    <3>1. pc[q] = "write" /\ job'[q] = job[q] /\ Running(q)
      BY <1>1, <1>3, <2>2 DEF Running
    <3>2. ~job[p].alone
      BY <2>2, <3>1 DEF CoreInv, AloneOK
    <3>3. whole
      BY <1>3, <3>2
    <3>4. QED
      BY <3>1, <3>3 DEF WholeInv, Digested
  <2>3. QED
    BY <2>1, <2>2
<1>4. ASSUME NEW q \in Processes, Running(q)', job'[q].alone
      PROVE  Publisher(job'[q], pc'[q], file', basis')
  <2>1. q = p
    BY <1>1, <1>4 DEF CoreInv, AloneOK, Running
  <2>2. s # "idle" /\ j.alone
    BY <1>1, <1>4, <2>1 DEF Running
  <2>3. QED
    BY <1>1, <2>1, <2>2
<1>5. QED
  BY <1>2, <1>3, <1>4 DEF WholeInv, Digested

\* The command of p does not publish anything at its next stage.
Apart(s, j) == s \notin {"check", "hash"} /\ (s = "write" => j.out \notin Digested)

LEMMA ApartIs ==
    ASSUME NEW s, NEW j, NEW fl, NEW counts, Apart(s, j)
    PROVE  Publisher(j, s, fl, counts)
BY DEF Apart, Publisher, Digested

LEMMA WholeStays ==
    ASSUME CoreInv, WholeInv, NEW p \in Processes, Running(p),
           NEW s, NEW j, Goto(p, s, j), Changes(p), UNCHANGED <<basis, whole>>,
           Apart(s, j), s = "idle" => j = NoJob, s # "idle" => j.alone = job[p].alone
    PROVE  WholeInv'
<1>1. ASSUME whole' PROVE PublicationWhole'
  <2>1. whole /\ PublicationWhole
    BY <1>1 DEF WholeInv
  <2>2. pc[p] = "write" => job[p].out \notin Digested
    BY <2>1 DEF WholeInv, Digested
  <2>3. \A f \in Digested : file'[f] = file[f]
    BY <2>2, FileChange DEF Changes, Digested, Files
  <2>4. QED
    BY <2>1, <2>3 DEF PublicationWhole, Digested, DatasetFiles
<1>2. Publisher(j, s, file', basis')
  BY ApartIs
<1>3. QED
  BY <1>1, <1>2, WholeGoes DEF Apart

Quiet(p) ==
    \E s, j : /\ Goto(p, s, j) /\ Apart(s, j)
              /\ s = "idle" => j = NoJob
              /\ s # "idle" => j.alone = job[p].alone

LEMMA QuietStays ==
    ASSUME CoreInv, WholeInv, NEW p \in Processes, Running(p), Quiet(p), Changes(p),
           UNCHANGED <<basis, whole>>
    PROVE  WholeInv'
BY WholeStays DEF Quiet

LEMMA ReturnQuiet ==
    ASSUME NEW p \in Processes, Return(p)
    PROVE  Quiet(p)
<1>1. Goto(p, "idle", NoJob) /\ Apart("idle", NoJob)
  BY DEF Return, Apart
<1>2. QED
  BY <1>1 DEF Quiet

LEMMA GotoQuiet ==
    ASSUME NEW p \in Processes, NEW s, NEW j, Goto(p, s, j), j.alone = job[p].alone,
           s \in {"queue", "approved", "tombstones", "filter", "analyse", "retell"}
    PROVE  Quiet(p)
<1>1. Apart(s, j) /\ s # "idle"
  BY DEF Apart
<1>2. QED
  BY <1>1 DEF Quiet

LEMMA WritingQuiet ==
    ASSUME NEW p \in Processes, NEW f, NEW v, NEW j, Writing(p, f, v, j),
           DOMAIN j = Fields, j.alone = job[p].alone, f \notin Digested
    PROVE  Quiet(p)
<1> DEFINE k == Opened(j, f, v)
<1>1. Goto(p, "write", k) /\ k.out = f /\ k.alone = job[p].alone
  BY WritingIs, OpenedIs DEF Fields
<1> HIDE DEF k
<1>2. Apart("write", k)
  BY <1>1 DEF Apart
<1>3. QED
  BY <1>1, <1>2 DEF Quiet

Undigested == {"queue", "tombstones", "approved", "raw", "export", "brief"}

LEMMA UndigestedIs == \A f \in Undigested : f \notin Digested
BY DEF Undigested, Digested, DatasetFiles

LEMMA CompactQuiet ==
    ASSUME NEW p \in Processes, NEW f \in Undigested, NEW hits, NEW rest,
           NEW s \in {"queue", "approved", "tombstones"},
           DOMAIN job[p] = Fields, Compact(p, f, hits, rest, s)
    PROVE  Quiet(p)
<1> DEFINE j == [job[p] EXCEPT !.ids = @ \cup hits]
<1>1. DOMAIN j = Fields /\ j.alone = job[p].alone
  BY DEF Fields
<1>2. Goto(p, s, j) \/ Writing(p, f, rest, j)
  BY DEF Compact
<1> HIDE DEF j
<1>3. QED
  BY <1>1, <1>2, GotoQuiet, WritingQuiet, UndigestedIs

LEMMA ClosedQuiet ==
    ASSUME NEW p \in Processes, DOMAIN job[p] = Fields,
           NEW s \in {"queue", "approved", "tombstones", "analyse", "retell"},
           Goto(p, s, Closed(job[p]))
    PROVE  Quiet(p)
<1>1. Closed(job[p]).alone = job[p].alone
  BY ClosedIs DEF Fields
<1>2. QED
  BY <1>1, GotoQuiet

LEMMA DeskQuiet ==
    ASSUME CoreInv, NEW p \in Processes, DeskStep(p)
    PROVE  Quiet(p) /\ Running(p)
<1>1. DOMAIN job[p] = Fields
  BY DEF CoreInv, Shapes
<1>2. CASE SubmitChecked(p)
  BY <1>2, ReturnQuiet, GotoQuiet DEF SubmitChecked, At, Running
<1>3. CASE Submit(p)
  <2> DEFINE j == [job[p] EXCEPT !.sub = submitted', !.rows = {job[p].arg}]
  <2>1. DOMAIN j = Fields /\ j.alone = job[p].alone
    BY <1>1 DEF Fields
  <2>2. "queue" \notin Digested
    BY UndigestedIs DEF Undigested
  <2>3. QED
    BY <1>3, <2>1, <2>2, WritingQuiet DEF Submit, At, Running
<1>4. CASE Approve(p)
  <2> DEFINE e == file["queue"][job[p].arg]
             j == [job[p] EXCEPT !.sub = job[p].arg, !.rows = {e.report}]
  <2>1. DOMAIN j = Fields /\ j.alone = job[p].alone
    BY <1>1 DEF Fields
  <2>2. "queue" \notin Digested
    BY UndigestedIs DEF Undigested
  <2>3. Return(p) \/ \E v : Writing(p, "queue", v, j)
    BY <1>4 DEF Approve
  <2>4. Running(p)
    BY <1>4 DEF Approve, At, Running
  <2> HIDE DEF j
  <2>5. QED
    BY <2>1, <2>2, <2>3, <2>4, WritingQuiet, ReturnQuiet
<1>5. CASE Reject(p)
  <2>1. Return(p) \/ \E v : Writing(p, "queue", v, job[p])
    BY <1>5 DEF Reject
  <2>2. "queue" \notin Digested
    BY UndigestedIs DEF Undigested
  <2>3. QED
    BY <1>1, <1>5, <2>1, <2>2, WritingQuiet, ReturnQuiet DEF Reject, At, Running
<1>6. CASE AppendApproved(p) \/ Export(p)
  <2>1. \E f \in {"approved", "export"} : \E v : Writing(p, f, v, job[p])
    BY <1>6 DEF AppendApproved, Export
  <2>2. \A f \in {"approved", "export"} : f \notin Digested
    BY UndigestedIs DEF Undigested
  <2>3. QED
    BY <1>1, <1>6, <2>1, <2>2, WritingQuiet DEF AppendApproved, Export, At, Running
<1>7. CASE DeleteFromRaw(p) \/ PurgeRaw(p) \/ DeleteFromQueue(p) \/ DeleteFromApproved(p)
  <2>1. \/ \E hits, rest : Compact(p, "raw", hits, rest, "queue")
        \/ \E hits, rest : Compact(p, "raw", hits, rest, "tombstones")
        \/ \E hits, rest : Compact(p, "queue", hits, rest, "approved")
        \/ \E hits, rest : Compact(p, "approved", hits, rest, "tombstones")
    <3>1. DeleteFromRaw(p) => \E hits, rest : Compact(p, "raw", hits, rest, "queue")
      BY Zenon DEF DeleteFromRaw
    <3>2. PurgeRaw(p) => \E hits, rest : Compact(p, "raw", hits, rest, "tombstones")
      BY Zenon DEF PurgeRaw
    <3>3. DeleteFromQueue(p) => \E hits, rest : Compact(p, "queue", hits, rest, "approved")
      BY Zenon DEF DeleteFromQueue
    <3>4. DeleteFromApproved(p) =>
             \E hits, rest : Compact(p, "approved", hits, rest, "tombstones")
      BY Zenon DEF DeleteFromApproved
    <3>5. QED
      BY <1>7, <3>1, <3>2, <3>3, <3>4
  <2>2. Running(p)
    BY <1>7
    DEF DeleteFromRaw, PurgeRaw, DeleteFromQueue, DeleteFromApproved, At, Running
  <2>3. {"raw", "queue", "approved"} \subseteq Undigested
    BY DEF Undigested
  <2>4. QED
    BY <1>1, <2>1, <2>2, <2>3, CompactQuiet
<1>8. CASE RecordTombstones(p)
  <2>1. Return(p) \/ \E v : Writing(p, "tombstones", v, job[p])
    BY <1>8 DEF RecordTombstones
  <2>2. "tombstones" \notin Digested
    BY UndigestedIs DEF Undigested
  <2>3. QED
    BY <1>1, <1>8, <2>1, <2>2, WritingQuiet, ReturnQuiet
    DEF RecordTombstones, At, Running
<1>9. CASE SaveQueue(p) \/ SaveApproved(p) \/ SaveRaw(p)
  <2>1. Write(p) /\ Running(p)
    BY <1>9 DEF SaveQueue, SaveApproved, SaveRaw, Write, Running
  <2>2. job[p].out = "raw" => job[p].cmd \in {"delete", "purge", "run", "intake"}
    BY <2>1, SavedIs DEF Targets, DatasetFiles
  <2>3. Closed(job[p]).cmd = job[p].cmd
    BY <1>1, ClosedIs DEF Fields
  <2>4. \/ Return(p)
        \/ \E s \in {"queue", "approved", "tombstones", "analyse"} :
               Goto(p, s, Closed(job[p]))
    <3>1. CASE SaveQueue(p)
      BY <2>3, <3>1 DEF SaveQueue, Closed
    <3>2. CASE SaveApproved(p)
      BY <2>3, <3>2 DEF SaveApproved, Closed
    <3>3. CASE SaveRaw(p)
      BY <2>2, <2>3, <3>3 DEF SaveRaw, Closed
    <3>4. QED
      BY <1>9, <3>1, <3>2, <3>3
  <2>5. QED
    BY <1>1, <2>1, <2>4, ReturnQuiet, ClosedQuiet
<1>10. CASE SaveExport(p) \/ SaveTombstones(p)
  BY <1>10, ReturnQuiet DEF SaveExport, SaveTombstones, Write, Running
<1>11. QED
  BY <1>2, <1>3, <1>4, <1>5, <1>6, <1>7, <1>8, <1>9, <1>10 DEF DeskStep

\* The steps of a publisher that write one of the files that belong together.
LEMMA HashWhole ==
    ASSUME CoreInv, WholeInv, NEW p \in Processes, HashInputs(p)
    PROVE  WholeInv'
<1>1. PICK bytes \in {file[ReportsPath]}
            \cup (IF \E q \in Processes : job[q].out = ReportsPath THEN {Torn} ELSE {}) :
          Writing(p, "geojson", Dataset(job[p].rows), [job[p] EXCEPT !.input = bytes])
  BY DEF HashInputs
<1> DEFINE v == Dataset(job[p].rows)
           j == [job[p] EXCEPT !.input = bytes]
           k == Opened(j, "geojson", v)
<1>2. Goto(p, "write", k)
  BY <1>1, WritingIs
<1>3. Running(p) /\ pc[p] = "hash" /\ Changes(p) /\ whole' = FALSE
  BY DEF HashInputs, Running, Stay, Changes
<1>4. DOMAIN job[p] = Fields /\ job[p].out = "none"
  BY <1>3 DEF CoreInv, Shapes, Local, Writes
<1>5. /\ k.alone = job[p].alone /\ k.out = "geojson" /\ k.value = v
      /\ k.rows = job[p].rows /\ k.input = bytes
  <2>1. /\ DOMAIN j = Fields /\ j.alone = job[p].alone /\ j.rows = job[p].rows
        /\ j.input = bytes
    BY <1>4 DEF Fields
  <2> HIDE DEF j
  <2>2. QED
    BY <2>1, OpenedIs DEF Fields
<1> HIDE DEF k
<1>6. ASSUME job[p].alone PROVE Publisher(k, "write", file', basis')
  <2>1. /\ job[p].rows = file[ReportsPath]
        /\ ~Leaks(Dataset(job[p].rows), job[p].rows)
    BY <1>3, <1>6 DEF WholeInv, Publisher
  <2>2. \A q \in Processes : job[q].out = "none"
    BY <1>3, <1>4, <1>6, NoJobIs DEF CoreInv, AloneOK, Shapes
  <2>3. bytes = file[ReportsPath]
    BY <1>1, <2>2, StoreAssumption DEF ReportFiles
  <2>4. QED
    BY <1>5, <2>1, <2>3 DEF Publisher
<1>7. QED
  BY <1>2, <1>3, <1>5, <1>6, WholeGoes

\* What a publisher that is alone knows when it has saved one file.
LEMMA PublisherKnows ==
    ASSUME CoreInv, WholeInv, NEW p \in Processes, Write(p), job[p].out \in Digested,
           job[p].alone
    PROVE  /\ ~Leaks(Dataset(job[p].rows), job[p].rows) /\ job[p].input = job[p].rows
           /\ job[p].out # "manifest" => job[p].value = Dataset(job[p].rows)
           /\ job[p].out = "manifest" => job[p].value = job[p].rows
           /\ job[p].out # "geojson" =>
                 basis = job[p].rows /\ file["geojson"] = Dataset(job[p].rows)
           /\ job[p].out \in {"corridors", "manifest"} =>
                 file["metadata"] = Dataset(job[p].rows)
           /\ job[p].out = "manifest" => file["corridors"] = Dataset(job[p].rows)
<1>1. Publisher(job[p], "write", file, basis)
  BY SavedIs DEF WholeInv
<1>2. QED
  BY <1>1 DEF Publisher, Digested

LEMMA SaveDatasetWhole ==
    ASSUME CoreInv, WholeInv, NEW p \in Processes,
           SaveGeojson(p) \/ SaveMetadata(p) \/ SaveCorridors(p)
    PROVE  WholeInv'
<1>1. /\ Write(p) /\ job[p].out \in {"geojson", "metadata", "corridors"}
      /\ job[p].out = "geojson" => whole' = FALSE /\ basis' = job[p].rows
      /\ job[p].out # "geojson" => whole' = whole /\ basis' = basis
  BY DEF SaveGeojson, SaveMetadata, SaveCorridors, publicHistory
<1>2. /\ Running(p) /\ pc[p] = "write" /\ DOMAIN job[p] = Fields
      /\ file'[job[p].out] = job[p].value
      /\ \A f \in Files \ {job[p].out} : file'[f] = file[f]
  BY <1>1, SavedIs
<1>3. job[p].out \in Digested
  BY <1>1 DEF Digested, DatasetFiles
<1>4. ~whole'
  <2>1. ~whole
    BY <1>2, <1>3 DEF WholeInv, Digested
  <2>2. QED
    BY <1>1, <2>1
<1> DEFINE next == CASE job[p].out = "geojson" -> "metadata"
                     [] job[p].out = "metadata" -> "corridors"
                     [] OTHER -> "manifest"
           v == IF next = "manifest" THEN job[p].input ELSE job[p].value
           k == Opened(job[p], next, v)
<1>5. Writing(p, next, v, job[p])
  BY <1>1 DEF SaveGeojson, SaveMetadata, SaveCorridors
<1>6. Goto(p, "write", k)
  BY <1>5, WritingIs
<1>7. /\ k.alone = job[p].alone /\ k.out = next /\ k.value = v
      /\ k.rows = job[p].rows /\ k.input = job[p].input
  BY <1>2, OpenedIs DEF Fields
<1> HIDE DEF k
<1>8. ASSUME job[p].alone PROVE Publisher(k, "write", file', basis')
  <2> DEFINE rows == job[p].rows
  <2>1. /\ ~Leaks(Dataset(rows), rows) /\ job[p].input = rows
        /\ job[p].value = Dataset(rows)
        /\ job[p].out # "geojson" => basis = rows /\ file["geojson"] = Dataset(rows)
        /\ job[p].out = "corridors" => file["metadata"] = Dataset(rows)
    BY <1>1, <1>3, <1>8, PublisherKnows
  <2>2. {"geojson", "metadata", "corridors"} \subseteq Files
    BY DEF Files, DatasetFiles
  <2>3. /\ basis' = rows /\ file'["geojson"] = Dataset(rows)
        /\ next \in {"corridors", "manifest"} => file'["metadata"] = Dataset(rows)
        /\ next = "manifest" => file'["corridors"] = Dataset(rows)
    BY <1>1, <1>2, <2>1, <2>2
  <2>4. /\ k.rows = rows /\ k.input = rows /\ k.out = next
        /\ next # "manifest" => k.value = Dataset(rows)
        /\ next = "manifest" => k.value = rows
        /\ next \in {"metadata", "corridors", "manifest"}
    BY <1>1, <1>7, <2>1
  <2> HIDE DEF rows, next
  <2>5. QED
    BY <2>1, <2>3, <2>4 DEF Publisher
<1>9. Changes(p)
  BY <1>1 DEF Changes
<1>10. QED
  BY <1>2, <1>4, <1>6, <1>7, <1>8, <1>9, WholeGoes

LEMMA SaveManifestWhole ==
    ASSUME CoreInv, WholeInv, NEW p \in Processes, SaveManifest(p)
    PROVE  WholeInv'
<1>1. Write(p) /\ job[p].out = "manifest" /\ basis' = basis /\ whole' = job[p].alone
  BY DEF SaveManifest
<1>2. /\ Running(p) /\ pc[p] = "write" /\ DOMAIN job[p] = Fields
      /\ file'[job[p].out] = job[p].value
      /\ \A f \in Files \ {job[p].out} : file'[f] = file[f]
  BY <1>1, SavedIs
<1>3. job[p].out \in Digested /\ Changes(p)
  BY <1>1 DEF Digested, DatasetFiles, Changes
<1>4. whole' => job[p].alone
  BY <1>1
<1>5. ASSUME job[p].alone PROVE PublicationWhole'
  <2> DEFINE rows == job[p].rows
  <2>1. /\ ~Leaks(Dataset(rows), rows) /\ job[p].value = rows
        /\ basis = rows /\ file["geojson"] = Dataset(rows)
        /\ file["metadata"] = Dataset(rows) /\ file["corridors"] = Dataset(rows)
    BY <1>1, <1>3, <1>5, PublisherKnows
  <2>2. {"geojson", "metadata", "corridors", "manifest"} \subseteq Files
    BY DEF Files, DatasetFiles
  <2>3. /\ basis' = rows /\ file'["geojson"] = Dataset(rows)
        /\ file'["metadata"] = Dataset(rows) /\ file'["corridors"] = Dataset(rows)
        /\ file'["manifest"] = rows
    BY <1>1, <1>2, <2>1, <2>2
  <2> HIDE DEF rows
  <2>4. QED
    BY <2>1, <2>3 DEF PublicationWhole
<1>6. Return(p) \/ Goto(p, "retell", Closed(job[p]))
  BY DEF SaveManifest, Closed
<1>7. CASE Return(p)
  BY <1>2, <1>3, <1>4, <1>5, <1>7, WholeGoes DEF Return
<1>8. CASE Goto(p, "retell", Closed(job[p]))
  <2>1. Closed(job[p]).alone = job[p].alone
    BY <1>2, ClosedIs DEF Fields
  <2>2. Publisher(Closed(job[p]), "retell", file', basis')
    BY ApartIs DEF Apart
  <2>3. QED
    BY <1>2, <1>3, <1>4, <1>5, <1>8, <2>1, <2>2, WholeGoes
<1>9. QED
  BY <1>6, <1>7, <1>8

LEMMA AnalyseWhole ==
    ASSUME CoreInv, WholeInv, NEW p \in Processes, Analyse(p)
    PROVE  WholeInv'
<1> DEFINE j == [job[p] EXCEPT !.rows = file[ReportsPath]]
<1>1. /\ Running(p) /\ Goto(p, "check", j) /\ Changes(p) /\ file' = file
      /\ UNCHANGED <<basis, whole, file>> /\ DOMAIN job[p] = Fields
  BY DEF Analyse, Running, Stay, Changes, publicHistory, CoreInv, Shapes
<1>2. j.alone = job[p].alone /\ j.rows = file[ReportsPath]
  BY <1>1 DEF Fields
<1> HIDE DEF j
<1>3. Publisher(j, "check", file', basis')
  BY <1>1, <1>2 DEF Publisher
<1>4. whole' => whole /\ PublicationWhole'
  BY <1>1 DEF WholeInv, PublicationWhole
<1>5. QED
  BY <1>1, <1>2, <1>3, <1>4, WholeGoes

LEMMA CheckPrivacyWhole ==
    ASSUME CoreInv, WholeInv, NEW p \in Processes, CheckPrivacy(p)
    PROVE  WholeInv'
<1>1. /\ Running(p) /\ pc[p] = "check" /\ Changes(p) /\ file' = file
      /\ UNCHANGED <<basis, whole, file>>
      /\ \/ Return(p)
         \/ /\ Goto(p, "hash", job[p])
            /\ ~Leaks(Dataset(job[p].rows), file[ReportsPath])
  BY DEF CheckPrivacy, Running, Stay, Changes, publicHistory
<1>2. CASE Return(p)
  BY <1>1, <1>2, ReturnQuiet, QuietStays
<1>3. CASE ~Return(p)
  <2>1. job[p].alone => job[p].rows = file[ReportsPath]
    BY <1>1 DEF WholeInv, Publisher
  <2>2. job[p].alone => Publisher(job[p], "hash", file', basis')
    BY <1>1, <1>3, <2>1 DEF Publisher
  <2>3. whole' => whole /\ PublicationWhole'
    BY <1>1 DEF WholeInv, PublicationWhole
  <2>4. QED
    BY <1>1, <1>3, <2>2, <2>3, WholeGoes
<1>4. QED
  BY <1>2, <1>3

\* The steps that publish nothing.
LEMMA ApartWhole ==
    ASSUME CoreInv, WholeInv, NEW p \in Processes,
           \/ Unread(p) \/ Dies(p) \/ DeskCommand(p) \/ Load(p) \/ Filter(p)
           \/ Retell(p) \/ SaveBrief(p)
    PROVE  WholeInv'
<1>1. UNCHANGED <<basis, whole>>
  BY DEF Unread, Dies, DeskCommand, Load, Filter, Retell, SaveBrief, publicHistory
<1>2. DOMAIN job[p] = Fields
  BY DEF CoreInv, Shapes
<1>3. CASE DeskCommand(p)
  BY <1>1, <1>3, DeskQuiet, DeskChanges, QuietStays DEF DeskCommand
<1>4. CASE Unread(p) \/ Dies(p)
  <2>1. Return(p) /\ Running(p) /\ Changes(p)
    BY <1>4 DEF Unread, ReadFails, Dies, Die, Stay, Changes, Running
  <2>2. QED
    BY <1>1, <2>1, ReturnQuiet, QuietStays
<1>5. CASE Load(p) \/ Filter(p)
  <2>1. Running(p) /\ Changes(p)
    BY <1>5 DEF Load, Filter, At, Running, Stay, Changes
  <2>2. Quiet(p)
    <3>1. CASE Load(p)
      <4> DEFINE j == [job[p] EXCEPT !.rows = file[job[p].arg]]
      <4>1. j.alone = job[p].alone /\ Goto(p, "filter", j)
        BY <1>2, <3>1 DEF Load, Fields
      <4> HIDE DEF j
      <4>2. QED
        BY <4>1, GotoQuiet
    <3>2. CASE Filter(p)
      <4> DEFINE j == [job[p] EXCEPT !.rows = {}]
      <4>1. DOMAIN j = Fields /\ j.alone = job[p].alone
        BY <1>2 DEF Fields
      <4>2. Return(p) \/ \E v : Writing(p, "raw", v, j)
        BY <3>2 DEF Filter
      <4>3. "raw" \notin Digested
        BY UndigestedIs DEF Undigested
      <4> HIDE DEF j
      <4>4. QED
        BY <4>1, <4>2, <4>3, ReturnQuiet, WritingQuiet
    <3>3. QED
      BY <1>5, <3>1, <3>2
  <2>3. QED
    BY <1>1, <2>1, <2>2, QuietStays
<1>6. CASE Retell(p)
  <2>1. Running(p) /\ Changes(p) /\ \E v : Writing(p, "brief", v, job[p])
    BY <1>6 DEF Retell, Running, Stay, Changes
  <2>2. "brief" \notin Digested
    BY UndigestedIs DEF Undigested
  <2>3. QED
    BY <1>1, <1>2, <2>1, <2>2, WritingQuiet, QuietStays
<1>7. CASE SaveBrief(p)
  <2>1. Running(p) /\ Changes(p) /\ Return(p)
    BY <1>7 DEF SaveBrief, Write, Running, Changes
  <2>2. QED
    BY <1>1, <2>1, ReturnQuiet, QuietStays
<1>8. QED
  BY <1>3, <1>4, <1>5, <1>6, <1>7

LEMMA BeginWhole ==
    ASSUME CoreInv, WholeInv, NEW p \in Processes, Begin(p)
    PROVE  WholeInv'
<1>1. PICK c \in Commands : Start(p, c, erased)
  BY DEF Begin
<1>2. UNCHANGED <<file, basis, whole>>
  BY <1>1 DEF Begin, Start, publicHistory
<1>3. /\ pc'[p] = FirstStage(c.cmd)
      /\ \A q \in Processes \ {p} : pc'[q] = pc[q]
      /\ \A q \in Processes \ {p} :
            job'[q] = IF Running(q) THEN [job[q] EXCEPT !.alone = FALSE] ELSE job[q]
  BY <1>1 DEF Start, CoreInv, Shapes
<1>4. FirstStage(c.cmd) \in {"tombstones", "queue", "approved", "raw", "load", "analyse"}
  <2>1. \/ c.cmd \in {"submit", "export", "delete", "purge", "publish"}
        \/ c.cmd \in {"approve", "reject"}
        \/ c.cmd \in {"intake", "run"}
    BY StoreAssumption
  <2>2. QED
    BY <2>1 DEF FirstStage
<1>5. ASSUME NEW q \in Processes \ {p}, Running(q)
      PROVE  job'[q].out = job[q].out /\ ~job'[q].alone
  <2>1. DOMAIN job[q] = Fields /\ job'[q] = [job[q] EXCEPT !.alone = FALSE]
    BY <1>3, <1>5 DEF CoreInv, Shapes
  <2>2. QED
    BY <2>1 DEF Fields
<1>6. PublicationWhole'
  BY <1>2 DEF WholeInv, PublicationWhole
<1>7. ASSUME whole', NEW q \in Processes, pc'[q] = "write"
      PROVE  job'[q].out \notin DatasetFiles \ {"brief"}
  <2>1. q # p
    BY <1>3, <1>4, <1>7
  <2>2. pc[q] = "write" /\ Running(q)
    BY <1>3, <1>7, <2>1 DEF Running
  <2>3. QED
    BY <1>2, <1>5, <1>7, <2>1, <2>2 DEF WholeInv
<1>8. ASSUME NEW q \in Processes, Running(q)', job'[q].alone
      PROVE  Publisher(job'[q], pc'[q], file', basis')
  <2>1. q = p
    BY <1>3, <1>5, <1>8 DEF Running
  <2>2. QED
    BY <1>3, <1>4, <2>1 DEF Publisher
<1>9. QED
  BY <1>6, <1>7, <1>8 DEF WholeInv

LEMMA WholeStep == CoreInv /\ WholeInv /\ [Next]_vars => WholeInv'
<1> SUFFICES ASSUME CoreInv, WholeInv, [Next]_vars PROVE WholeInv'
  OBVIOUS
<1>1. CASE UNCHANGED vars
  <2>1. UNCHANGED <<file, pc, job, basis, whole>>
    BY <1>1 DEF vars, storeVars, publicHistory
  <2>2. QED
    BY <2>1 DEF WholeInv, PublicationWhole, Running
<1>2. CASE Next
  BY <1>2, ApartWhole, BeginWhole, AnalyseWhole, CheckPrivacyWhole, HashWhole,
     SaveDatasetWhole, SaveManifestWhole
  DEF Next
<1>3. QED
  BY <1>1, <1>2

LEMMA WholeInit == Init => WholeInv
BY DEF Init, DeskInit, StoreInit, WholeInv, PublicationWhole, Running

(* The files that a publisher wrote alone belong together until another    *)
(* one starts to write them: the same analysis, its input, and no vertex   *)
(* at the place of a report that was counted.                              *)
THEOREM PublishedWhole == Spec => []PublicationWhole
<1>1. Init => CoreInv /\ WholeInv
  BY CoreInit, WholeInit
<1>2. CoreInv /\ WholeInv /\ [Next]_vars => (CoreInv /\ WholeInv)'
  BY CoreStep, WholeStep
<1>3. CoreInv /\ WholeInv => PublicationWhole
  BY DEF WholeInv
<1>4. QED
  BY <1>1, <1>2, <1>3, PTL DEF Spec
================================================================================
