------------------------------ MODULE LiveSite ------------------------------
(***************************************************************************)
(* The live site verifier fetches one path after another from an origin    *)
(* that may be redeployed between two fetches, and compares each answer    *)
(* with the reviewed build.                                                *)
(*                                                                         *)
(* A version of the site maps its paths to bodies.  The manifest names the *)
(* commit and the digest of every file and the deployment record names the *)
(* commit, so their body is the version itself; only other files may have  *)
(* the same bytes in two versions.  A deploy is atomic: the host swaps     *)
(* whole builds.                                                           *)
(***************************************************************************)
EXTENDS Naturals, Sequences, FiniteSets, SequencesExt

CONSTANTS Files,          \* the files of the reviewed manifest, in its order
          HostControl,    \* those the host consumes and answers with its 404
          Probes,         \* private and retired paths, which must be absent
          Versions,       \* Versions[v]: the bodies of a version that may be deployed
          Reviewed,       \* the version under verification
          MaxDeploys      \* a bound of the instance

ASSUME LiveSiteAssumption ==
  /\ Reviewed \in DOMAIN Versions /\ MaxDeploys \in Nat
  /\ Files \in Seq(ToSet(Files)) /\ Probes \in Seq(ToSet(Probes))
  /\ HostControl \subseteq ToSet(Files) /\ HostControl \cap ToSet(Probes) = {}
  /\ \A v \in DOMAIN Versions : Versions[v]["manifest"] = v /\ Versions[v]["deployment"] = v

VARIABLES live,       \* the version the origin serves
          deploys,    \* how often it was redeployed
          step,       \* the next fetch of the verifier
          baseline,   \* the answer to the guaranteed-missing path
          verdict,    \* "open", "verified" or "refused"
          served      \* the version that answered each fetch so far

liveVars == <<live, deploys, step, baseline, verdict, served>>

NotFound(v) == <<"404", Versions[v]["404"]>>
Body(v, path) == <<"200", Versions[v][path]>>

\* What the origin answers: a host-control or unknown path gets the 404 document.
Answer(v, path) ==
  IF path \in HostControl \/ path \notin DOMAIN Versions[v] THEN NotFound(v) ELSE Body(v, path)

\* The fetches in their order.  The apex and the routes repeat files of the manifest.
Fetches ==
  <<<<"manifest", "manifest">>, <<"baseline", "missing">>>>
    \o [i \in DOMAIN Files |-> <<"file", Files[i]>>]
    \o <<<<"file", "index">>, <<"file", "national">>, <<"deployment", "deployment">>,
         <<"file", "coverage">>, <<"file", "coverage">>>>
    \o [i \in DOMAIN Probes |-> <<"probe", Probes[i]>>]

Expected(path) == Body(Reviewed, path)

\* Mutant: any deployment record will do.
MatchesAnyCommit(kind, path, answer) ==
  CASE kind = "baseline"   -> answer = NotFound(Reviewed)
    [] kind = "manifest"   -> answer = <<"200", Reviewed>>
    [] kind = "deployment" -> answer[1] = "200"
    [] kind = "probe"      -> answer = baseline
    [] kind = "file"       -> IF path \in HostControl THEN answer = baseline
                              ELSE answer = Expected(path)

\* Whether the verifier goes on after an answer.
Matches(kind, path, answer) ==
  CASE kind = "baseline"   -> answer = NotFound(Reviewed)
    [] kind \in {"manifest", "deployment"} -> answer = <<"200", Reviewed>>
    [] kind = "probe"      -> answer = baseline
    [] kind = "file"       -> IF path \in HostControl THEN answer = baseline
                              ELSE answer = Expected(path)

\* One fetch, answered by whatever the origin serves now.
Fetch ==
  LET kind   == Fetches[step][1]
      path   == Fetches[step][2]
      answer == Answer(live, path)
      goesOn == Matches(kind, path, answer)
  IN /\ verdict = "open"
     /\ baseline' = IF kind = "baseline" THEN answer ELSE baseline
     /\ served' = Append(served, live)
     /\ step' = IF goesOn THEN step + 1 ELSE step
     /\ verdict' = IF ~goesOn THEN "refused"
                   ELSE IF step = Len(Fetches) THEN "verified" ELSE "open"
     /\ UNCHANGED <<live, deploys>>

\* A fetch that fails, exceeds its size or comes after the deadline ends the verification.
FetchFails ==
  /\ verdict = "open"
  /\ verdict' = "refused"
  /\ UNCHANGED <<live, deploys, step, baseline, served>>

\* Another build goes live, or an earlier one again.
Deploy ==
  /\ verdict = "open" /\ deploys < MaxDeploys
  /\ live' \in DOMAIN Versions \ {live}
  /\ deploys' = deploys + 1
  /\ UNCHANGED <<step, baseline, verdict, served>>

LiveSiteInit ==
  /\ live \in DOMAIN Versions
  /\ deploys = 0 /\ step = 1 /\ verdict = "open" /\ served = <<>>
  /\ baseline = <<"none", "none">>

LiveSiteNext == Fetch \/ FetchFails \/ Deploy
-----------------------------------------------------------------------------
Index(kind) == CHOOSE i \in DOMAIN Fetches : Fetches[i][1] = kind

\* The reviewed build was taken down and put back between two fetches.
Returned == \E i, j, k \in DOMAIN served :
              i < j /\ j < k /\ served[i] = served[k] /\ served[j] # served[i]

(***************************************************************************)
(* A verified site is the reviewed one, not a mixture.  The reviewed build *)
(* answered the first fetch and the fetch of the deployment record; if no  *)
(* build came back after another replaced it, it answered every fetch in   *)
(* between, so all files are of one build.  Even if builds did come back,  *)
(* every file of the manifest was answered by a build that holds the       *)
(* reviewed bytes of it, and no probe by one that serves the path.         *)
(***************************************************************************)
LiveSiteMatched ==
  verdict = "verified" =>
    /\ served[1] = Reviewed
    /\ served[Index("deployment")] = Reviewed
    /\ ~Returned => \A i \in 1..Index("deployment") : served[i] = Reviewed
    /\ \A i \in DOMAIN Fetches :
         LET path == Fetches[i][2] IN
         /\ Fetches[i][1] = "probe" => path \notin DOMAIN Versions[served[i]]
         /\ Fetches[i][1] = "file" /\ path \notin HostControl
              => Versions[served[i]][path] = Versions[Reviewed][path]
=============================================================================
