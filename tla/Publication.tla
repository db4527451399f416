----------------------------- MODULE Publication -----------------------------
(***************************************************************************)
(* Intake and publication (src/nearmiss/intake.py, publish.py, engine.py), *)
(* composed with the desk: reports are landed in the raw store, analysed   *)
(* and published as a set of files.                                        *)
(***************************************************************************)
EXTENDS Desk

CONSTANTS
    Segments,       \* the street segments of the city
    SegmentOf,      \* the segment a report is snapped to
    VertexOn,       \* the segment of which a report's point is a vertex, or Missing
    MinPublish      \* config.min_publish_n

ASSUME SegmentAssumption ==
    /\ DOMAIN SegmentOf = Reports /\ DOMAIN VertexOn = Reports
    /\ MinPublish \in Nat

VARIABLES
    basis,    \* the reports that the published dataset counts
    settled,  \* what was erased when the command that published it started
    whole     \* TRUE: the files were last written by one publisher that was alone

publicHistory == <<basis, settled, whole>>

vars == <<storeVars, deskHistory, publicHistory>>

-----------------------------------------------------------------------------
(* run_intake                                                              *)

Load(p) ==
    /\ At(p, "load", {"intake", "run"})
    /\ Readable(p)
    /\ Goto(p, "filter", [job[p] EXCEPT !.rows = file[job[p].arg]])
    /\ Stay
    /\ UNCHANGED <<deskHistory, publicHistory>>

\* Mutant: re-imported rows are not checked against the tombstones.
FilterNothing(p) ==
    /\ At(p, "filter", {"intake", "run"})
    /\ Readable(p)
    /\ IF job[p].rows \subseteq Valid
       THEN Writing(p, "raw", job[p].rows, [job[p] EXCEPT !.rows = {}])
       ELSE Return(p)
    /\ Stay
    /\ UNCHANGED <<deskHistory, publicHistory>>

\* Mutant: re-imported rows are not validated.
FilterUnvalidated(p) ==
    /\ At(p, "filter", {"intake", "run"})
    /\ Readable(p)
    /\ Writing(p, "raw", job[p].rows \ Tombstoned(file["tombstones"]),
               [job[p] EXCEPT !.rows = {}])
    /\ Stay
    /\ UNCHANGED <<deskHistory, publicHistory>>

\* One row that does not validate rejects the import; tombstoned rows are skipped.
Filter(p) ==
    /\ At(p, "filter", {"intake", "run"})
    /\ Readable(p)
    /\ IF job[p].rows \subseteq Valid
       THEN Writing(p, "raw", job[p].rows \ Tombstoned(file["tombstones"]),
                    [job[p] EXCEPT !.rows = {}])
       ELSE Return(p)
    /\ Stay
    /\ UNCHANGED <<deskHistory, publicHistory>>

-----------------------------------------------------------------------------
(* publish                                                                 *)

\* build_geojson: the count of every segment that is not withheld.
Dataset(rows) ==
    [s \in Segments |->
        LET n == Cardinality({r \in rows : SegmentOf[r] = s})
        IN IF n = 0 \/ n >= MinPublish THEN n ELSE Missing]

\* build_analysis: the first read of the reports.
Analyse(p) ==
    /\ pc[p] = "analyse"
    /\ Readable(p)
    /\ Goto(p, "check", [job[p] EXCEPT !.rows = file[ReportsPath]])
    /\ Stay
    /\ UNCHANGED <<deskHistory, publicHistory>>

\* assert_published_clean: a published vertex is where a report is.
Leaks(dataset, rows) ==
    \E r \in rows : VertexOn[r] # Missing /\ dataset[VertexOn[r]] # Missing

\* Mutant: only the segment a report is counted on is looked at.
CheckPrivacyOfOwn(p) ==
    /\ pc[p] = "check"
    /\ Readable(p)
    /\ IF \E r \in file[ReportsPath] : VertexOn[r] = SegmentOf[r] THEN Return(p)
       ELSE Goto(p, "hash", job[p])
    /\ Stay
    /\ UNCHANGED <<deskHistory, publicHistory>>

\* load_city again, for the privacy assertions.
CheckPrivacy(p) ==
    /\ pc[p] = "check"
    /\ Readable(p)
    /\ IF Leaks(Dataset(job[p].rows), file[ReportsPath]) THEN Return(p)
       ELSE Goto(p, "hash", job[p])
    /\ Stay
    /\ UNCHANGED <<deskHistory, publicHistory>>

\* build_manifest hashes the bytes of the reports file, whatever they are.
HashInputs(p) ==
    /\ pc[p] = "hash"
    /\ file[ReportsPath] # Missing
    /\ \E bytes \in {file[ReportsPath]}
            \cup (IF \E q \in Processes : job[q].out = ReportsPath THEN {Torn} ELSE {}) :
          Writing(p, "geojson", Dataset(job[p].rows), [job[p] EXCEPT !.input = bytes])
    /\ whole' = FALSE
    /\ Stay
    /\ UNCHANGED <<deskHistory, basis, settled>>

SaveGeojson(p) ==
    /\ Write(p)
    /\ job[p].out = "geojson"
    /\ Writing(p, "metadata", job[p].value, job[p])
    /\ basis' = job[p].rows
    /\ settled' = job[p].owed
    /\ whole' = FALSE
    /\ UNCHANGED deskHistory

\* The sidecar holds the digest of the geojson payload.
SaveMetadata(p) ==
    /\ Write(p)
    /\ job[p].out = "metadata"
    /\ Writing(p, "corridors", job[p].value, job[p])
    /\ UNCHANGED <<deskHistory, publicHistory>>

SaveCorridors(p) ==
    /\ Write(p)
    /\ job[p].out = "corridors"
    /\ Writing(p, "manifest", job[p].input, job[p])
    /\ UNCHANGED <<deskHistory, publicHistory>>

\* The manifest holds the digest of the reports file; `run` analyses once more.
SaveManifest(p) ==
    /\ Write(p)
    /\ job[p].out = "manifest"
    /\ IF job[p].cmd = "run"
       THEN Goto(p, "retell", [job[p] EXCEPT !.out = "none", !.value = Missing])
       ELSE Return(p)
    /\ whole' = job[p].alone
    /\ UNCHANGED <<deskHistory, basis, settled>>

\* _cmd_run: the brief is rendered from an analysis of its own.
Retell(p) ==
    /\ pc[p] = "retell"
    /\ Readable(p)
    /\ Writing(p, "brief", Dataset(file[ReportsPath]), job[p])
    /\ Stay
    /\ UNCHANGED <<deskHistory, publicHistory>>

SaveBrief(p) ==
    /\ Write(p)
    /\ job[p].out = "brief"
    /\ Return(p)
    /\ UNCHANGED <<deskHistory, publicHistory>>

-----------------------------------------------------------------------------
Init ==
    /\ DeskInit
    /\ basis = {} /\ settled = {} /\ whole = FALSE

Begin(p) ==
    /\ \E c \in Commands : Start(p, c, erased)
    /\ UNCHANGED <<deskHistory, publicHistory>>

Unread(p) == ReadFails(p) /\ UNCHANGED <<deskHistory, publicHistory>>

Dies(p) == Die(p) /\ UNCHANGED <<deskHistory, publicHistory>>

DeskCommand(p) == DeskStep(p) /\ UNCHANGED publicHistory

Next ==
    \E p \in Processes :
        \/ Begin(p) \/ Unread(p) \/ Dies(p) \/ DeskCommand(p)
        \/ Load(p) \/ Filter(p)
        \/ Analyse(p) \/ CheckPrivacy(p) \/ HashInputs(p)
        \/ SaveGeojson(p) \/ SaveMetadata(p) \/ SaveCorridors(p) \/ SaveManifest(p)
        \/ Retell(p) \/ SaveBrief(p)

Spec == Init /\ [][Next]_vars

-----------------------------------------------------------------------------
(* Properties.                                                             *)

\* What a file can hold, torn and missing files apart.
Contents(f) ==
    CASE f = "queue"             -> Queues
      [] f = "tombstones"        -> Tombstones
      [] f \in ReportFiles       -> SUBSET Reports
      [] f = "manifest"          -> SUBSET Reports
      [] OTHER                   -> [Segments -> Nat \cup {Missing}]

(* Every file holds a value of its kind, or is missing, or was torn by a   *)
(* command that died; the files a command cannot create are never missing. *)
TypeOK ==
    /\ \A f \in Files :
          \/ file[f] = Missing /\ f \notin {"queue", "tombstones", "approved", "upstream"}
          \/ file[f] = Torn /\ (crashes > 0 \/ f = "manifest")
          \/ file[f] \notin {Missing, Torn} /\ file[f] \in Contents(f)
    /\ submitted \in 0 .. MaxSubmissions
    /\ \A p \in Processes : Running(p) = (job[p].cmd # "none")

\* A command dies while it writes f in place: the step cuts the file short.
Tears(f) ==
    \E p \in Processes :
        /\ pc[p] = "write" /\ job[p].out = f
        /\ pc'[p] = "idle" /\ crashes' = crashes + 1

\* f is cut short, and has been since a command died in the write of it.
LeftTorn(f) == file'[f] = Torn /\ (file[f] = Torn \/ Tears(f))

Queued(k) ==
    /\ file["queue"] # Torn
    /\ file["queue"][k[1]] # Missing
    /\ file["queue"][k[1]].report = k[2]

Fed(r) == file["approved"] # Torn /\ r \in file["approved"]

(* Once a submission was acknowledged while no other command was running,  *)
(* there are two ways out of the queue, for the commands that overlap or   *)
(* die later: its contributor deletes it, or one of them dies inside       *)
(* _write_json of the queue file, which takes every submission with it.    *)
AcceptedStaysQueued ==
    [][\A k \in kept' :
          Queued(k)' \/ TokenOf[k[2]] \in forgotten' \/ LeftTorn("queue")]_vars

(* The same for the report of a submission whose approval returned, no     *)
(* other command running, and the approved store, the pipeline's feed.     *)
ApprovedStaysFed ==
    [][\A r \in fed' :
          Fed(r)' \/ TokenOf[r] \in forgotten' \/ LeftTorn("approved")]_vars

(* No report is counted in what is published unless it satisfies the       *)
(* schema and is from upstream or was approved by a moderator.             *)
OnlyVettedPublished ==
    /\ basis \subseteq Valid
    /\ basis \subseteq file["upstream"] \cup reviewed

(* What is published after a deletion does not count the deleted report.   *)
RunHonoursDeletions == basis \cap settled = {}

(* The files that one undisturbed publisher wrote belong together: the     *)
(* sidecar's digest is of the geojson, the corridors are of the same       *)
(* analysis, the manifest names the input that was analysed, and no vertex *)
(* is at the point of a report that was counted.                           *)
PublicationWhole ==
    whole =>
        /\ file["metadata"] = file["geojson"]
        /\ file["corridors"] = file["geojson"]
        /\ file["geojson"] = Dataset(basis)
        /\ file["manifest"] = basis
        /\ ~Leaks(file["geojson"], basis)

(* A rejected submission's report is not in the approved store.            *)
RejectedStaysOut ==
    file["queue"] # Torn /\ file["approved"] # Torn =>
        \A s \in Submissions :
            file["queue"][s] # Missing /\ file["queue"][s].status = "rejected" =>
                \/ file["queue"][s].report \notin file["approved"]
                \/ \E other \in Submissions :
                      /\ file["queue"][other] # Missing
                      /\ file["queue"][other].report = file["queue"][s].report
                      /\ file["queue"][other].status = "approved"
=============================================================================
