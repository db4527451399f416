---------------------------- MODULE ReportStores ----------------------------
(***************************************************************************)
(* The private stores of the report side and the commands that work on     *)
(* them (src/nearmiss/__main__.py).  A command reads whole JSON files,     *)
(* computes, and writes whole JSON files back in place, without a lock:    *)
(* another command may run between any two of its file accesses, and one   *)
(* that dies inside a write leaves the file torn.                          *)
(***************************************************************************)
EXTENDS Naturals, FiniteSets

CONSTANTS
    Processes,        \* the shells commands run in
    Reports,          \* reports, told apart by their ids
    TokenOf,          \* the reporter_token of each report
    Valid,            \* the reports that satisfy report.schema.json
    MaxSubmissions,   \* bound on the submissions accepted
    MaxCommands,      \* bound on the commands started
    MaxCrashes,       \* bound on the commands that die
    Commands,         \* the commands that are started: records [cmd, arg]
    Upstream,         \* what the upstream reports file may hold
    Pasts,            \* what may have been submitted, approved and exported before
    ReportsPath,      \* the file that config.reports_path names
    Torn,             \* a file cut short: it does not parse
    Missing           \* no file, no queue entry, no published feature

Submissions == 1 .. MaxSubmissions

ReportFiles  == {"approved", "raw", "export", "upstream"}
DatasetFiles == {"geojson", "metadata", "corridors", "manifest", "brief"}
Files        == {"queue", "tombstones"} \cup ReportFiles \cup DatasetFiles

ASSUME StoreAssumption ==
    /\ MaxSubmissions \in Nat /\ MaxCommands \in Nat /\ MaxCrashes \in Nat
    /\ Valid \subseteq Reports
    /\ DOMAIN TokenOf = Reports
    /\ Upstream \subseteq SUBSET Reports
    /\ \A past \in Pasts : past = {} \/ \E r \in Valid : past = {r}
    /\ \A c \in Commands :
          \/ c.cmd \in {"submit", "export", "delete", "purge", "publish"}
          \/ c.cmd \in {"approve", "reject"} /\ c.arg \in Submissions
          \/ c.cmd \in {"intake", "run"} /\ c.arg \in ReportFiles
    /\ Pasts # {{}} => MaxSubmissions > 0
    /\ ReportsPath \in ReportFiles
    /\ Torn # Missing

VARIABLES
    file,       \* the contents of each file
    submitted,  \* submissions made so far: the next one gets a fresh uuid4
    started,    \* commands started so far
    crashes,    \* commands that died so far
    pc,         \* the file access each process is about to make, or "idle"
    job         \* the local variables of its command

storeVars == <<file, submitted, started, crashes, pc, job>>

Entries == [report : Reports, status : {"pending", "approved", "rejected"}]
Queues  == [Submissions -> Entries \cup {Missing}]

ASSUME EntryAssumption ==
    /\ Missing \notin Entries
    /\ \A q \in Queues : q # Torn
    /\ \A rows \in SUBSET Reports : rows # Torn

\* A tombstone carries the hash of a report id and the reason of the deletion.
Tombstones == [Reports -> {"none", "contributor_delete", "retention_expired"}]

Tombstoned(t) == {r \in Reports : t[r] # "none"}

NoJob ==
    [cmd |-> "none", arg |-> Missing, sub |-> 0, rows |-> {}, ids |-> {},
     input |-> Missing, out |-> "none", value |-> Missing, owed |-> {},
     alone |-> TRUE]

Running(p) == pc[p] # "idle"

At(p, stage, cmds) == pc[p] = stage /\ job[p].cmd \in cmds

Goto(p, stage, j) ==
    /\ pc' = [pc EXCEPT ![p] = stage]
    /\ job' = [job EXCEPT ![p] = j]

\* The command returns or raises: nothing of it stays in memory.
Return(p) == Goto(p, "idle", NoJob)

\* The command opens f, to write the given contents.
Writing(p, f, contents, j) ==
    Goto(p, "write", [j EXCEPT !.out = f, !.value = contents])

Stay == UNCHANGED <<file, submitted, started, crashes>>

-----------------------------------------------------------------------------
(* Reading and writing a file.                                             *)

\* The file that is read at a stage of the commands.
Wanted(p) ==
    CASE pc[p] = "load"                                -> job[p].arg
      [] pc[p] \in {"analyse", "check", "hash", "retell"} -> ReportsPath
      [] pc[p] = "filter"                              -> "tombstones"
      [] OTHER                                         -> pc[p]

\* load_reports and sha256_file need the file; every other reader of a store
\* takes a missing one for an empty one.
Required == {"load", "analyse", "check", "hash", "retell"}

Readable(p) ==
    /\ file[Wanted(p)] # Torn
    /\ pc[p] \in Required => file[Wanted(p)] # Missing

Rows(contents) == IF contents = Missing THEN {} ELSE contents

\* json.loads fails on a file that is torn, or that another command has just
\* truncated, and the command ends with NearmissError.
ReadFails(p) ==
    /\ pc[p] \notin {"idle", "write"}
    /\ \/ ~Readable(p)
       \/ \E q \in Processes \ {p} : job[q].out = Wanted(p)
    /\ Return(p)
    /\ Stay

\* _write_json and write_text: the file is truncated and written in place.
Write(p) ==
    /\ pc[p] = "write"
    /\ file' = [file EXCEPT ![job[p].out] = job[p].value]
    /\ UNCHANGED <<submitted, started, crashes>>

-----------------------------------------------------------------------------
(* Commands start, and die.                                                *)

FirstStage(cmd) ==
    CASE cmd = "submit"                -> "tombstones"
      [] cmd \in {"approve", "reject"} -> "queue"
      [] cmd = "export"                -> "approved"
      [] cmd \in {"delete", "purge"}   -> "raw"
      [] cmd \in {"intake", "run"}     -> "load"
      [] cmd = "publish"               -> "analyse"

\* `owed`: what the command finds erased when it starts.
Start(p, c, owed) ==
    /\ ~Running(p)
    /\ started < MaxCommands
    /\ started' = started + 1
    /\ pc' = [pc EXCEPT ![p] = FirstStage(c.cmd)]
    /\ job' = [q \in Processes |->
                  IF q = p
                  THEN [NoJob EXCEPT !.cmd = c.cmd, !.arg = c.arg, !.owed = owed,
                           !.alone = \A other \in Processes : ~Running(other)]
                  ELSE IF Running(q) THEN [job[q] EXCEPT !.alone = FALSE]
                  ELSE job[q]]
    /\ UNCHANGED <<file, submitted, crashes>>

\* A kill, or a write that fails: the file being written may be left torn.
Die(p) ==
    /\ Running(p)
    /\ crashes < MaxCrashes
    /\ crashes' = crashes + 1
    /\ \/ UNCHANGED file
       \/ pc[p] = "write" /\ file' = [file EXCEPT ![job[p].out] = Torn]
    /\ Return(p)
    /\ UNCHANGED <<submitted, started>>

\* A new desk, or one where a submission was already approved and exported.
StoreInit(past) ==
    /\ \E up \in Upstream :
          file = [f \in Files |->
                    CASE f = "upstream"   -> up
                      [] f = "queue"      ->
                            [s \in Submissions |->
                                IF past # {} /\ s = 1
                                THEN [report |-> CHOOSE r \in past : TRUE,
                                      status |-> "approved"]
                                ELSE Missing]
                      [] f = "tombstones" -> [r \in Reports |-> "none"]
                      [] f = "approved"   -> past
                      [] f = "export"     -> IF past = {} THEN Missing ELSE past
                      [] OTHER            -> Missing]
    /\ submitted = Cardinality(past)
    /\ started = 0
    /\ crashes = 0
    /\ pc = [p \in Processes |-> "idle"]
    /\ job = [p \in Processes |-> NoJob]
=============================================================================
