-------------------------------- MODULE Desk --------------------------------
(***************************************************************************)
(* Moderation and contributor rights: `moderate` and `contributor`, and    *)
(* the library call submit (src/nearmiss/moderation.py, contributor.py).   *)
(* An action is one file access and the code up to the next one.           *)
(***************************************************************************)
EXTENDS ReportStores

CONSTANTS
    Expired      \* the reports whose event time is outside the retention window

ASSUME ExpiredAssumption == Expired \subseteq Reports

\* What people did, remembered for the properties.
VARIABLES
    reviewed,    \* reports of the submissions a moderator approved
    kept,        \* submissions whose submit returned, no other command running
    fed,         \* reports whose approve returned, likewise
    forgotten,   \* tokens a contributor asked to delete
    erased       \* reports tombstoned by a delete that returned, likewise

deskHistory == <<reviewed, kept, fed, forgotten, erased>>

-----------------------------------------------------------------------------
(* Moderation.                                                             *)

\* submit: validate_report and is_tombstoned.
SubmitChecked(p) ==
    /\ At(p, "tombstones", {"submit"})
    /\ Readable(p)
    /\ IF job[p].arg \notin Valid \/ job[p].arg \in Tombstoned(file["tombstones"])
       THEN Return(p)
       ELSE Goto(p, "queue", job[p])
    /\ Stay
    /\ UNCHANGED deskHistory

\* submit: the report is enqueued PENDING, under an id of its own.
Submit(p) ==
    /\ At(p, "queue", {"submit"})
    /\ Readable(p)
    /\ submitted < MaxSubmissions
    /\ submitted' = submitted + 1
    /\ Writing(p, "queue",
               [file["queue"] EXCEPT
                   ![submitted'] = [report |-> job[p].arg, status |-> "pending"]],
               [job[p] EXCEPT !.sub = submitted', !.rows = {job[p].arg}])
    /\ UNCHANGED <<file, started, crashes>>
    /\ UNCHANGED deskHistory

\* approve: a pending submission only; an approved one is left as it is.
Approve(p) ==
    /\ At(p, "queue", {"approve"})
    /\ Readable(p)
    /\ LET s == job[p].arg
           e == file["queue"][s]
       IN IF e # Missing /\ e.status = "pending"
          THEN /\ Writing(p, "queue", [file["queue"] EXCEPT ![s].status = "approved"],
                          [job[p] EXCEPT !.sub = s, !.rows = {e.report}])
               /\ reviewed' = reviewed \cup {e.report}
          ELSE Return(p) /\ UNCHANGED reviewed
    /\ Stay
    /\ UNCHANGED <<kept, fed, forgotten, erased>>

\* Mutant: a rejected submission is taken out of the queue.
RejectDropping(p) ==
    /\ At(p, "queue", {"reject"})
    /\ Readable(p)
    /\ Writing(p, "queue", [file["queue"] EXCEPT ![job[p].arg] = Missing], job[p])
    /\ Stay
    /\ UNCHANGED deskHistory

\* Mutant: the status is named after the command.
RejectMisnamed(p) ==
    /\ At(p, "queue", {"reject"})
    /\ Readable(p)
    /\ LET s == job[p].arg
       IN IF file["queue"][s] = Missing THEN Return(p)
          ELSE Writing(p, "queue", [file["queue"] EXCEPT ![s].status = "reject"], job[p])
    /\ Stay
    /\ UNCHANGED deskHistory

\* reject: whatever the status is.
Reject(p) ==
    /\ At(p, "queue", {"reject"})
    /\ Readable(p)
    /\ LET s == job[p].arg
       IN IF file["queue"][s] = Missing THEN Return(p)
          ELSE Writing(p, "queue", [file["queue"] EXCEPT ![s].status = "rejected"],
                       job[p])
    /\ Stay
    /\ UNCHANGED deskHistory

\* Mutant: the approved store is overwritten.
AppendApprovedOnly(p) ==
    /\ At(p, "approved", {"approve"})
    /\ Readable(p)
    /\ Writing(p, "approved", job[p].rows, job[p])
    /\ Stay
    /\ UNCHANGED deskHistory

\* _append_approved, de-duplicated by report id.
AppendApproved(p) ==
    /\ At(p, "approved", {"approve"})
    /\ Readable(p)
    /\ Writing(p, "approved", file["approved"] \cup job[p].rows, job[p])
    /\ Stay
    /\ UNCHANGED deskHistory

\* moderate export: approved_reports, to a file.
Export(p) ==
    /\ At(p, "approved", {"export"})
    /\ Readable(p)
    /\ Writing(p, "export", file["approved"], job[p])
    /\ Stay
    /\ UNCHANGED deskHistory

-----------------------------------------------------------------------------
(* Contributor rights: delete_reports and purge_expired.                   *)

OfToken(rows, t) == {r \in rows : TokenOf[r] = t}

\* _split_matches: the rows that stay are written, if any matched.
Compact(p, f, hits, rest, next) ==
    LET j == [job[p] EXCEPT !.ids = @ \cup hits]
    IN IF hits = {} THEN Goto(p, next, j) ELSE Writing(p, f, rest, j)

DeleteFromRaw(p) ==
    /\ At(p, "raw", {"delete"})
    /\ Readable(p)
    /\ LET rows == Rows(file["raw"])
           hits == OfToken(rows, job[p].arg)
       IN Compact(p, "raw", hits, rows \ hits, "queue")
    /\ forgotten' = forgotten \cup {job[p].arg}
    /\ Stay
    /\ UNCHANGED <<reviewed, kept, fed, erased>>

PurgeRaw(p) ==
    /\ At(p, "raw", {"purge"})
    /\ Readable(p)
    /\ LET rows == Rows(file["raw"])
       IN Compact(p, "raw", rows \cap Expired, rows \ Expired, "tombstones")
    /\ Stay
    /\ UNCHANGED deskHistory

\* Mutant: only pending submissions are dropped from the queue.
DeletePendingFromQueue(p) ==
    /\ At(p, "queue", {"delete"})
    /\ Readable(p)
    /\ LET q    == file["queue"]
           gone == {s \in Submissions : /\ q[s] # Missing
                                        /\ q[s].status = "pending"
                                        /\ TokenOf[q[s].report] = job[p].arg}
       IN Compact(p, "queue", {q[s].report : s \in gone},
                  [s \in Submissions |-> IF s \in gone THEN Missing ELSE q[s]],
                  "approved")
    /\ Stay
    /\ UNCHANGED deskHistory

\* Submissions of any status.
DeleteFromQueue(p) ==
    /\ At(p, "queue", {"delete"})
    /\ Readable(p)
    /\ LET q    == file["queue"]
           gone == {s \in Submissions : /\ q[s] # Missing
                                        /\ TokenOf[q[s].report] = job[p].arg}
       IN Compact(p, "queue", {q[s].report : s \in gone},
                  [s \in Submissions |-> IF s \in gone THEN Missing ELSE q[s]],
                  "approved")
    /\ Stay
    /\ UNCHANGED deskHistory

DeleteFromApproved(p) ==
    /\ At(p, "approved", {"delete"})
    /\ Readable(p)
    /\ LET hits == OfToken(file["approved"], job[p].arg)
       IN Compact(p, "approved", hits, file["approved"] \ hits, "tombstones")
    /\ Stay
    /\ UNCHANGED deskHistory

Erased(p) ==
    IF job[p].cmd = "delete" /\ job[p].alone THEN erased \cup job[p].ids ELSE erased

\* _record_tombstones: ids that have one already keep it; nothing is written
\* when none is new.
RecordTombstones(p) ==
    /\ At(p, "tombstones", {"delete", "purge"})
    /\ Readable(p)
    /\ LET t   == file["tombstones"]
           new == job[p].ids \ Tombstoned(t)
           why == IF job[p].cmd = "delete" THEN "contributor_delete"
                  ELSE "retention_expired"
       IN IF new = {} THEN Return(p) /\ erased' = Erased(p)
          ELSE /\ Writing(p, "tombstones",
                          [r \in Reports |-> IF r \in new THEN why ELSE t[r]], job[p])
               /\ UNCHANGED erased
    /\ Stay
    /\ UNCHANGED <<reviewed, kept, fed, forgotten>>

-----------------------------------------------------------------------------
(* The stores are saved, and the command goes on to its next file.         *)

SaveQueue(p) ==
    /\ Write(p)
    /\ job[p].out = "queue"
    /\ LET j == [job[p] EXCEPT !.out = "none", !.value = Missing]
       IN IF j.cmd \in {"approve", "delete"} THEN Goto(p, "approved", j) ELSE Return(p)
    /\ kept' = IF job[p].cmd = "submit" /\ job[p].alone
               THEN kept \cup ({job[p].sub} \X job[p].rows) ELSE kept
    /\ UNCHANGED <<reviewed, fed, forgotten, erased>>

SaveApproved(p) ==
    /\ Write(p)
    /\ job[p].out = "approved"
    /\ LET j == [job[p] EXCEPT !.out = "none", !.value = Missing]
       IN IF j.cmd = "delete" THEN Goto(p, "tombstones", j) ELSE Return(p)
    /\ fed' = IF job[p].cmd = "approve" /\ job[p].alone
              THEN fed \cup job[p].rows ELSE fed
    /\ UNCHANGED <<reviewed, kept, forgotten, erased>>

SaveExport(p) ==
    /\ Write(p)
    /\ job[p].out = "export"
    /\ Return(p)
    /\ UNCHANGED deskHistory

\* raw/reports.json, by delete, purge, intake and run.
SaveRaw(p) ==
    /\ Write(p)
    /\ job[p].out = "raw"
    /\ LET j == [job[p] EXCEPT !.out = "none", !.value = Missing]
       IN CASE j.cmd = "delete" -> Goto(p, "queue", j)
            [] j.cmd = "purge"  -> Goto(p, "tombstones", j)
            [] j.cmd = "run"    -> Goto(p, "analyse", j)
            [] j.cmd = "intake" -> Return(p)
    /\ UNCHANGED deskHistory

SaveTombstones(p) ==
    /\ Write(p)
    /\ job[p].out = "tombstones"
    /\ Return(p)
    /\ erased' = Erased(p)
    /\ UNCHANGED <<reviewed, kept, fed, forgotten>>

DeskStep(p) ==
    \/ SubmitChecked(p) \/ Submit(p) \/ Approve(p) \/ Reject(p)
    \/ AppendApproved(p) \/ Export(p)
    \/ DeleteFromRaw(p) \/ PurgeRaw(p) \/ DeleteFromQueue(p)
    \/ DeleteFromApproved(p) \/ RecordTombstones(p)
    \/ SaveQueue(p) \/ SaveApproved(p) \/ SaveExport(p) \/ SaveRaw(p)
    \/ SaveTombstones(p)

DeskInit ==
    /\ \E past \in Pasts :
          /\ StoreInit(past)
          /\ reviewed = past
          /\ kept = {1} \X past
          /\ fed = past
    /\ forgotten = {} /\ erased = {}

-----------------------------------------------------------------------------
(* Properties.                                                             *)

Holding(f) == IF file[f] \in {Torn, Missing} THEN {} ELSE file[f]

InQueue ==
    IF file["queue"] = Torn THEN {}
    ELSE {file["queue"][s].report :
             s \in {s \in Submissions : file["queue"][s] # Missing}}

(* A report that a contributor deleted while no other command was running  *)
(* never comes back: not to the raw store, the queue or the approved store, *)
(* by no re-import or re-submission, whatever overlaps or dies afterwards. *)
ErasedStaysErased ==
    erased \cap (Holding("raw") \cup InQueue \cup Holding("approved")) = {}
=============================================================================
