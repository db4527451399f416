----------------------------- MODULE Algorithms -----------------------------
(***************************************************************************)
(* One behaviour for each input of a pure component, and the behaviours of *)
(* the release verifiers and of the pages.  A behaviour belongs to one     *)
(* part: a task is computed in one step, a directory, a live site or a     *)
(* page takes many.                                                        *)
(***************************************************************************)
EXTENDS JoinArtifact, FarsDocuments, FarsContext, ReportPipeline, Clusters, CountyRelease, LiveSite,
        CoveragePage, AtlasViews, CityPage, Studio, SubmitForm, Conformance, StateRelease,
        YearContracts, Preregistration, CityCoverage

CONSTANTS JoinTasks,       \* records [accidents, persons, regime]
          DocumentTasks,   \* records [bag, requested, rows, countyK]
          ContextTasks,    \* records [records, window, requested]
          PipelineTasks,   \* records [reports, first, last]
          ClusterTasks,    \* records [network, stats]
          DatasetTasks,    \* records [old, new, written, flag]
          CoverageTasks    \* records [registry, input]

\* The records of a context are those that passed the checks of their source.
ASSUME ContextTaskAssumption ==
  \A t \in ContextTasks : ContextRequest(t.records, t.requested)

\* The rows of an archive have been parsed, and the crashes that are accepted have dates.
ASSUME JoinTaskAssumption ==
  \A t \in JoinTasks :
    /\ JoinRequest(t.accidents, t.persons, t.regime)
    /\ {row.case : row \in Accepted(t.accidents)} \subseteq DOMAIN CaseOrder

\* A snapshot has been verified, and a review follows the contract of its year.
ASSUME DocumentTaskAssumption ==
  \A t \in DocumentTasks : DocumentRequest(t.bag, t.requested, t.rows, t.countyK)

\* The pipeline is run on reports with different ids, and what is tested was counted.
ASSUME ReportTaskAssumption ==
  /\ \A t \in PipelineTasks : PipelineRequest(t.reports, t.first, t.last)
  /\ \A t \in ClusterTasks : ClusterRequest(t.network, t.stats)

\* A dataset is published of what was configured and counted, twice over the same segments, and a
\* city is assessed on a registry that was parsed.
ASSUME AuditTaskAssumption ==
  /\ \A t \in DatasetTasks :
       /\ PublishInput(t.old) /\ PublishInput(t.new) /\ DOMAIN t.old.count = DOMAIN t.new.count
       /\ t.written \in 1 .. 3 /\ t.flag \in Nat
  /\ \A t \in CoverageTasks : CoverageRequest(t.registry, t.input)

VARIABLES part,      \* the part a behaviour belongs to
          task,      \* its input
          outcome    \* its result, or Pending

taskVars == <<part, task, outcome>>
deskVars == <<registryVars, prereg>>
pageVars == <<page, atlas, city, studio, form>>
algorithmVars == <<taskVars, countyVars, liveVars, releaseVars, deskVars, pageVars>>

Pending == [pending |-> TRUE]

Start(name, tasks) == part = name /\ task \in tasks

Init ==
  /\ \/ Start("join", JoinTasks) \/ Start("documents", DocumentTasks)
     \/ Start("context", ContextTasks) \/ Start("pipeline", PipelineTasks)
     \/ Start("clusters", ClusterTasks) \/ Start("dataset", DatasetTasks)
     \/ Start("coverage", CoverageTasks)
     \/ Start("county", {Pending}) \/ Start("site", {Pending}) \/ Start("page", {Pending})
     \/ Start("release", {Pending}) \/ Start("registry", {Pending}) \/ Start("preregistration", {Pending})
     \/ Start("atlas", {Pending}) \/ Start("city", {Pending}) \/ Start("studio", {Pending})
     \/ Start("form", {Pending})
  /\ outcome = Pending
  /\ IF part = "county" THEN CountyInit
     ELSE /\ boundary = Absent /\ values = Absent
          /\ ledger = {} /\ index = Absent /\ released = Absent /\ edits = 0
  /\ IF part = "site" THEN LiveSiteInit
     ELSE /\ live = Reviewed /\ deploys = 0 /\ step = 1
          /\ verdict = "open" /\ served = <<>> /\ baseline = <<"none", "none">>
  /\ IF part = "release" THEN ReleaseInit
     ELSE /\ annual = Pending /\ catalogue = Pending /\ corrections = Pending
          /\ accepted = Pending /\ releaseEdits = 0
  /\ IF part = "registry" THEN RegistryInit ELSE registry = Pending /\ registryEdits = 0
  /\ IF part = "preregistration" THEN PreregInit ELSE prereg = Pending
  /\ IF part = "page" THEN PageInit ELSE page = Pending
  /\ IF part = "atlas" THEN AtlasInit ELSE atlas = Pending
  /\ IF part = "city" THEN CityInit ELSE city = Pending
  /\ IF part = "studio" THEN StudioInit ELSE studio = Pending
  /\ IF part = "form" THEN FormInit ELSE form = Pending

Compute(name, result) ==
  /\ part = name /\ outcome = Pending
  /\ outcome' = result
  /\ UNCHANGED <<part, task, countyVars, liveVars, releaseVars, deskVars, pageVars>>

JoinFiles      == Compute("join", Collect(task.accidents, task.persons, task.regime))
BuildDocuments == Compute("documents", Documents(task.bag, task.requested, task.rows, task.countyK))
BuildContext   == Compute("context", CityContext(task.records, task.window, task.requested))
RunReports     == Compute("pipeline", RunPipeline(task.reports, task.first, task.last))
FindClusters   == Compute("clusters", ClusterReport(task.network, task.stats))
AuditDataset   == Compute("dataset", Audit(task.old, task.new, task.written, task.flag))
AssessCity     == Compute("coverage", AssessCoverage(task.registry, task.input))

Next ==
  \/ JoinFiles \/ BuildDocuments \/ BuildContext \/ RunReports \/ FindClusters
  \/ AuditDataset \/ AssessCity
  \/ /\ part = "county" /\ CountyNext
     /\ UNCHANGED <<taskVars, liveVars, releaseVars, deskVars, pageVars>>
  \/ /\ part = "site" /\ LiveSiteNext
     /\ UNCHANGED <<taskVars, countyVars, releaseVars, deskVars, pageVars>>
  \/ /\ part = "release" /\ ReleaseNext
     /\ UNCHANGED <<taskVars, countyVars, liveVars, deskVars, pageVars>>
  \/ /\ part = "registry" /\ RegistryNext
     /\ UNCHANGED <<taskVars, countyVars, liveVars, releaseVars, prereg, pageVars>>
  \/ /\ part = "preregistration" /\ PreregNext
     /\ UNCHANGED <<taskVars, countyVars, liveVars, releaseVars, registryVars, pageVars>>
  \/ /\ \/ part = "page" /\ PageNext /\ UNCHANGED <<atlas, city, studio, form>>
        \/ part = "atlas" /\ AtlasNext /\ UNCHANGED <<page, city, studio, form>>
        \/ part = "city" /\ CityNext /\ UNCHANGED <<page, atlas, studio, form>>
        \/ part = "studio" /\ StudioNext /\ UNCHANGED <<page, atlas, city, form>>
        \/ part = "form" /\ FormNext /\ UNCHANGED <<page, atlas, city, studio>>
     /\ UNCHANGED <<taskVars, countyVars, liveVars, releaseVars, deskVars>>

Spec == Init /\ [][Next]_algorithmVars

Computed(name) == part = name /\ outcome # Pending
-----------------------------------------------------------------------------
\* The joined records are those of two files that agree (JoinHolds, adapters/fars_joined.py), and
\* so is the artifact that is written of them (ArtifactHolds, joined_outcome_artifacts.py).
JoinedFilesAgree ==
  Computed("join") => /\ JoinHolds(task.accidents, task.persons, task.regime, outcome)
                      /\ ArtifactHolds(task.accidents, task.persons, task.regime, outcome)

\* All aggregate documents of a snapshot agree (DocumentsAgree, fars_*_context.py, fars_county_*.py).
DocumentsTellOneStory ==
  Computed("documents") =>
    DocumentsAgree(task.bag, task.requested, task.rows, task.countyK, outcome)

\* What a county shard withholds could be something else (ShardKeepsWithheld, fars_county_publication.py).
WithheldStaysWithheld ==
  Computed("documents") =>
    \A s \in States : ShardKeepsWithheld(task.bag, task.rows, s, task.countyK, outcome.shards[s])

\* The city context counts what the whole network says (ContextAccounts, fars_context.py).
ContextIsAccounted ==
  Computed("context") => ContextAccounts(task.records, task.window, task.requested, outcome)

\* Each report is a record or a repetition of one, by the code's own rule (EachEventOnce, pipeline/).
EventsCountedOnce ==
  Computed("pipeline") => EachEventOnce(task.reports, task.first, task.last, outcome)

\* The clusters and corridors are what their tests promise (ClustersHold, stats/).
ClustersAreReal ==
  Computed("clusters") => ClustersHold(task.network, task.stats, outcome)

\* The audit of a published dataset tells the truth (AuditTruthful, tools/verify_dataset.py), and so
\* does the assessment of a city's sources (CoverageExplained, coverage.py).
AuditsAreTruthful ==
  /\ Computed("dataset") => AuditTruthful(task.old, task.new, task.written, task.flag, outcome)
  /\ Computed("coverage") => CoverageExplained(task.registry, task.input, outcome)

\* The national page shows what is selected, and nothing says that it is loading for ever
\* (SelectionShown, PageSettled, web/us-coverage.js); the panels of the city page agree, in one
\* language, on the screen and in print (CityPageTruthful, web/app.js).
PageShowsSelection ==
  /\ part = "page" => SelectionShown /\ PageSettled
  /\ part = "city" => CityPageTruthful

\* A link gives the view it was copied from, and no panel contradicts another
\* (LinkRestores, PanelsTruthful, web/us-coverage.js).
LinksRestoreViews == part = "atlas" => LinkRestores /\ PanelsTruthful

\* A claim has the tier of the evidence it was made from (ClaimGrounded, web/studio.js, web/dossier.js),
\* and the last report submitted is not lost, unless it overtook another that was under way
\* (NothingSubmittedIsLost, web/submit.js).
ClaimsAreGrounded ==
  /\ part = "studio" => ClaimGrounded
  /\ part = "form" => NothingSubmittedIsLost

\* What a correction of the counties names keeps its bytes while the ledger has it (ReleasesKeepHistory,
\* fars_county_public_index.py), the counts of the states that were published first stay
\* (CountsStayPublished, fars_public_index.py), and so do the contract they were ingested under
\* (RegistryHolds, SucceededStays, fars_year_contracts.py) and a prediction, though not its score
\* (PredictionsHold, PredictionFrozen, preregister.py).
PublicReleasesHold ==
  /\ ReleasesKeepHistory /\ CountsStayPublished
  /\ [](part = "registry" => RegistryHolds)
  /\ [][part = "registry" => SucceededStays]_registry
  /\ [](part = "preregistration" => PredictionsHold)
  /\ [][part = "preregistration" => PredictionFrozen]_prereg
=============================================================================
