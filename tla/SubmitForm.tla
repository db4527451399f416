----------------------------- MODULE SubmitForm -----------------------------
(***************************************************************************)
(* The submission form (submit.js).  A report is offered as a file to      *)
(* download, or is posted where a deployment has an endpoint, and is       *)
(* offered when that fails.  The answers of the endpoint and of the device *)
(* that is asked for its location arrive in any order, and change whatever *)
(* form is there by then.                                                  *)
(***************************************************************************)
EXTENDS Naturals, FiniteSets

CONSTANT MaxFormEvents     \* a bound of the instance

ASSUME SubmitFormAssumption == MaxFormEvents \in Nat

VARIABLE form    \* the fields, the status line, the report on offer, what was sent and what was received

NoReport    == [id |-> 0]
BlankFields == [coords |-> "none", address |-> FALSE, answered |-> FALSE]

FormInit ==
  \E endpoint \in BOOLEAN :
    form = [fields |-> BlankFields, endpoint |-> endpoint, locating |-> FALSE, status |-> "blank",
            offered |-> NoReport, sending |-> {}, received |-> {}, newest |-> NoReport,
            overlapped |-> FALSE, events |-> 0]

FormEvent(f) == form.events < MaxFormEvents /\ form' = [f EXCEPT !.events = @ + 1]

Fill(fields) == fields # form.fields /\ FormEvent([form EXCEPT !.fields = fields])

AskLocation == ~form.locating /\ FormEvent([form EXCEPT !.locating = TRUE])

\* The device's location is written over what was typed meanwhile, also into a form that was reset.
LocationArrives ==
  /\ form.locating
  /\ \/ form' = [form EXCEPT !.locating = FALSE, !.fields.coords = "device"]
     \/ form' = [form EXCEPT !.locating = FALSE]

Complete(fields) ==
  /\ fields.coords # "none" \/ fields.address
  /\ fields.coords # "beyond"
  /\ fields.answered

\* A new id; an address is left out when there are coordinates.
FormReport(fields) ==
  [id |-> form.newest.id + 1, coords |-> fields.coords, address |-> fields.coords = "none" /\ fields.address]

\* The status line says that the report is ready, also when it has just said that sending failed.
ShowResult(f, report) == [f EXCEPT !.offered = report, !.status = "ready"]

Post(report) ==
  [form EXCEPT !.newest = report, !.sending = @ \cup {report}, !.status = "sending",
               !.overlapped = @ \/ form.sending # {}]

Submit ==
  LET report == FormReport(form.fields) IN
  FormEvent(IF ~Complete(form.fields) THEN [form EXCEPT !.status = "missing"]
            ELSE IF form.endpoint THEN Post(report)
            ELSE ShowResult([form EXCEPT !.newest = report], report))

\* The form that is there when the answer arrives is emptied.
PostSucceeds(report) ==
  form' = [form EXCEPT !.sending = @ \ {report}, !.received = @ \cup {report},
                       !.status = "received", !.fields = BlankFields]

\* Mutant: the failure is told, and the report is gone.
PostFailsOnly(report) ==
  \E arrived \in BOOLEAN :
    form' = [form EXCEPT !.sending = @ \ {report}, !.status = "failed",
                         !.received = IF arrived THEN @ \cup {report} ELSE @]

\* An answer that is lost fails as well, and the endpoint has the report.
PostFails(report) ==
  \E arrived \in BOOLEAN :
    form' = ShowResult([form EXCEPT !.sending = @ \ {report},
                                    !.received = IF arrived THEN @ \cup {report} ELSE @], report)

CopyReport ==
  /\ form.offered # NoReport
  /\ \E said \in {"copied", "copy by hand"} : said # form.status /\ FormEvent([form EXCEPT !.status = said])

FormNext ==
  \/ \E coords \in {"none", "typed", "beyond"}, address, answered \in BOOLEAN :
       Fill([coords |-> coords, address |-> address, answered |-> answered])
  \/ AskLocation \/ LocationArrives \/ Submit \/ CopyReport
  \/ \E report \in form.sending : PostSucceeds(report) \/ PostFails(report)
-----------------------------------------------------------------------------
(***************************************************************************)
(* The report that was submitted last is under way, with the endpoint or   *)
(* on offer, unless it was sent while another one was under way, whose     *)
(* failure can then replace it (postToEndpoint in submit.js).  The status  *)
(* line promises nothing else, and whatever leaves the form says where,    *)
(* in one way.                                                             *)
(***************************************************************************)
NothingSubmittedIsLost ==
  LET safe   == form.sending \cup form.received \cup {form.offered}
      leaves == safe \ {NoReport}
  IN /\ ~form.overlapped => form.newest \in safe \cup {NoReport}
     /\ form.status = "sending" => form.newest \in form.sending
     /\ form.status = "ready" => form.offered # NoReport
     /\ form.status = "received" => form.received # {}
     /\ \A r, s \in leaves :
          /\ (r.coords \in {"typed", "device"}) # r.address
          /\ r.id = s.id => r = s
=============================================================================
