-------------------------- MODULE AlgorithmProofs --------------------------
(* Proofs about the state machines among the parts of Algorithms: what an *)
(* accepted site, directory, prediction or submission is.                 *)
EXTENDS CountingProofs

-----------------------------------------------------------------------------
(* The live site.                                                          *)

LEMMA Joined ==
    ASSUME NEW S, NEW s \in Seq(S), NEW t \in Seq(S)
    PROVE  /\ s \o t \in Seq(S) /\ Len(s \o t) = Len(s) + Len(t)
           /\ \A i \in 1 .. Len(s) : (s \o t)[i] = s[i]
           /\ \A i \in Len(s) + 1 .. Len(s) + Len(t) : (s \o t)[i] = t[i - Len(s)]
<1>1. Len(s) \in Nat /\ Len(t) \in Nat
  BY LenProperties
<1>2. /\ s \o t \in Seq(S) /\ Len(s \o t) = Len(s) + Len(t)
      /\ \A i \in 1 .. Len(s) + Len(t) :
            (s \o t)[i] = IF i <= Len(s) THEN s[i] ELSE t[i - Len(s)]
  BY ConcatProperties
<1>3. QED
  BY <1>1, <1>2

LEMMA FetchesAre ==
    /\ Len(Fetches) \in Nat /\ Len(Fetches) > 2 /\ DOMAIN Fetches = 1 .. Len(Fetches)
    /\ Fetches[1][1] = "manifest" /\ Fetches[2][1] = "baseline"
    /\ \E i \in DOMAIN Fetches : Fetches[i][1] = "deployment"
    /\ \A i \in DOMAIN Fetches :
          /\ Fetches[i][1] = "probe" => Fetches[i][2] \notin HostControl
          /\ Fetches[i][1] \in {"manifest", "deployment"} => Fetches[i][2] = Fetches[i][1]
<1> DEFINE P  == ToSet(Files) \cup ToSet(Probes)
                   \cup {"manifest", "missing", "index", "national", "deployment", "coverage"}
           T  == {"manifest", "baseline", "file", "deployment", "probe"} \X P
           s1 == <<<<"manifest", "manifest">>, <<"baseline", "missing">>>>
           s2 == [i \in DOMAIN Files |-> <<"file", Files[i]>>]
           s3 == <<<<"file", "index">>, <<"file", "national">>, <<"deployment", "deployment">>,
                   <<"file", "coverage">>, <<"file", "coverage">>>>
           s4 == [i \in DOMAIN Probes |-> <<"probe", Probes[i]>>]
           n  == Len(Files)
           m  == Len(Probes)
<1>1. /\ n \in Nat /\ DOMAIN Files = 1 .. n /\ m \in Nat /\ DOMAIN Probes = 1 .. m
      /\ \A i \in 1 .. n : Files[i] \in ToSet(Files)
      /\ \A i \in 1 .. m : Probes[i] \in ToSet(Probes)
  BY LiveSiteAssumption DEF ToSet, LiveSiteAssumption
<1>2. s1 \in Seq(T) /\ Len(s1) = 2 /\ s1[1][1] = "manifest" /\ s1[2][1] = "baseline"
  <2>1. <<"manifest", "manifest">> \in T /\ <<"baseline", "missing">> \in T
    OBVIOUS
  <2> HIDE DEF T
  <2>2. QED
    BY <2>1
<1>3. s2 \in Seq(T) /\ Len(s2) = n /\ \A i \in 1 .. n : s2[i][1] = "file"
  <2>1. \A i \in 1 .. n : <<"file", Files[i]>> \in T
    BY <1>1
  <2> HIDE DEF T, n
  <2>2. s2 \in [1 .. n -> T]
    BY <1>1, <2>1
  <2>3. QED
    BY <1>1, <2>2
<1>4. s3 \in Seq(T) /\ Len(s3) = 5 /\ s3[3][1] = "deployment" /\ \A i \in 1 .. 5 : s3[i][1] # "probe"
  <2>1. /\ <<"file", "index">> \in T /\ <<"file", "national">> \in T
        /\ <<"deployment", "deployment">> \in T /\ <<"file", "coverage">> \in T
    OBVIOUS
  <2> HIDE DEF T
  <2>2. QED
    BY <2>1
<1>5. s4 \in Seq(T) /\ Len(s4) = m /\ \A i \in 1 .. m : s4[i][2] \in ToSet(Probes)
  <2>1. \A i \in 1 .. m : <<"probe", Probes[i]>> \in T
    BY <1>1
  <2> HIDE DEF T, m
  <2>2. s4 \in [1 .. m -> T]
    BY <1>1, <2>1
  <2>3. QED
    BY <1>1, <2>2
<1> DEFINE s12  == s1 \o s2
           s123 == s12 \o s3
<1>6. Fetches = s123 \o s4
  BY DEF Fetches
<1> HIDE DEF s1, s2, s3, s4, T, P, n, m, s123
<1>7. /\ s12 \in Seq(T) /\ Len(s12) = n + 2
      /\ \A i \in 1 .. 2 : s12[i] = s1[i]
      /\ \A i \in 3 .. n + 2 : s12[i] = s2[i - 2]
  <2>1. /\ s1 \o s2 \in Seq(T) /\ Len(s1 \o s2) = 2 + n
        /\ \A i \in 1 .. 2 : (s1 \o s2)[i] = s1[i]
        /\ \A i \in 2 + 1 .. 2 + n : (s1 \o s2)[i] = s2[i - 2]
    <3>1. s1 \in Seq(T) /\ s2 \in Seq(T)
      BY <1>2, <1>3
    <3>2. /\ s1 \o s2 \in Seq(T) /\ Len(s1 \o s2) = Len(s1) + Len(s2)
          /\ \A i \in 1 .. Len(s1) : (s1 \o s2)[i] = s1[i]
          /\ \A i \in Len(s1) + 1 .. Len(s1) + Len(s2) : (s1 \o s2)[i] = s2[i - Len(s1)]
      BY <3>1, Joined, Zenon
    <3>3. QED
      BY <3>2, <1>2, <1>3
  <2>2. QED
    BY <1>1, <2>1
<1> HIDE DEF s12
<1>8. /\ s123 \in Seq(T) /\ Len(s123) = n + 7
      /\ \A i \in 1 .. n + 2 : s123[i] = s12[i]
      /\ \A i \in n + 3 .. n + 7 : s123[i] = s3[i - (n + 2)]
  <2>1. /\ s12 \o s3 \in Seq(T) /\ Len(s12 \o s3) = (n + 2) + 5
        /\ \A i \in 1 .. n + 2 : (s12 \o s3)[i] = s12[i]
        /\ \A i \in (n + 2) + 1 .. (n + 2) + 5 : (s12 \o s3)[i] = s3[i - (n + 2)]
    <3>1. s12 \in Seq(T) /\ s3 \in Seq(T)
      BY <1>4, <1>7
    <3>2. /\ s12 \o s3 \in Seq(T) /\ Len(s12 \o s3) = Len(s12) + Len(s3)
          /\ \A i \in 1 .. Len(s12) : (s12 \o s3)[i] = s12[i]
          /\ \A i \in Len(s12) + 1 .. Len(s12) + Len(s3) : (s12 \o s3)[i] = s3[i - Len(s12)]
      BY <3>1, Joined, Zenon
    <3>3. QED
      BY <3>2, <1>4, <1>7
  <2>2. QED
    BY <1>1, <2>1 DEF s123
<1>9. /\ Fetches \in Seq(T) /\ Len(Fetches) = n + 7 + m
      /\ \A i \in 1 .. n + 7 : Fetches[i] = s123[i]
      /\ \A i \in n + 8 .. n + 7 + m : Fetches[i] = s4[i - (n + 7)]
  <2>1. /\ s123 \o s4 \in Seq(T) /\ Len(s123 \o s4) = (n + 7) + m
        /\ \A i \in 1 .. n + 7 : (s123 \o s4)[i] = s123[i]
        /\ \A i \in (n + 7) + 1 .. (n + 7) + m : (s123 \o s4)[i] = s4[i - (n + 7)]
    <3>1. s123 \in Seq(T) /\ s4 \in Seq(T)
      BY <1>5, <1>8
    <3>2. /\ s123 \o s4 \in Seq(T) /\ Len(s123 \o s4) = Len(s123) + Len(s4)
          /\ \A i \in 1 .. Len(s123) : (s123 \o s4)[i] = s123[i]
          /\ \A i \in Len(s123) + 1 .. Len(s123) + Len(s4) : (s123 \o s4)[i] = s4[i - Len(s123)]
      BY <3>1, Joined, Zenon
    <3>3. QED
      BY <3>2, <1>5, <1>8
  <2>2. QED
    BY <1>1, <1>6, <2>1
<1>10. Fetches[1] = s1[1] /\ Fetches[2] = s1[2] /\ Fetches[n + 5] = s3[3]
  BY <1>1, <1>7, <1>8, <1>9
<1>11. ASSUME NEW i \in 1 .. n + 7 + m
       PROVE  /\ Fetches[i][1] = "probe" => Fetches[i][2] \notin HostControl
              /\ Fetches[i][1] \in {"manifest", "deployment"} => Fetches[i][2] = Fetches[i][1]
  <2>1. CASE i \in 1 .. 2
    <3>1. Fetches[i] = s1[i]
      BY <1>1, <1>7, <1>8, <1>9, <2>1
    <3>2. QED
      BY <2>1, <3>1 DEF s1
  <2>2. CASE i \in 3 .. n + 2
    <3>1. Fetches[i] = s2[i - 2] /\ i - 2 \in 1 .. n
      BY <1>1, <1>7, <1>8, <1>9, <2>2
    <3>2. QED
      BY <1>3, <3>1
  <2>3. CASE i \in n + 3 .. n + 7
    <3>1. i - (n + 2) \in 1 .. 5 /\ i \in 1 .. n + 7
      BY <1>1, <2>3
    <3>2. Fetches[i] = s3[i - (n + 2)]
      BY <1>8, <1>9, <2>3, <3>1, Zenon
    <3>3. \A k \in 1 .. 5 : /\ s3[k][1] # "probe"
                            /\ s3[k][1] \in {"manifest", "deployment"} => s3[k][2] = s3[k][1]
      BY DEF s3
    <3>4. QED
      BY <3>1, <3>2, <3>3
  <2>4. CASE i \in n + 8 .. n + 7 + m
    <3>1. Fetches[i] = s4[i - (n + 7)] /\ i - (n + 7) \in 1 .. m
      BY <1>1, <1>9, <2>4
    <3>2. Fetches[i] = <<"probe", Probes[i - (n + 7)]>>
      BY <1>1, <3>1 DEF s4
    <3>3. QED
      BY <1>1, <3>1, <3>2, LiveSiteAssumption DEF LiveSiteAssumption
  <2>5. QED
    BY <1>1, <2>1, <2>2, <2>3, <2>4
<1>12. DOMAIN Fetches = 1 .. n + 7 + m /\ n + 5 \in DOMAIN Fetches /\ n + 7 + m > 2
  BY <1>1, <1>9
<1>13. /\ Fetches[1][1] = "manifest" /\ Fetches[2][1] = "baseline"
       /\ Fetches[n + 5][1] = "deployment"
  BY <1>2, <1>4, <1>10
<1>14. Len(Fetches) \in Nat /\ Len(Fetches) = n + 7 + m
  BY <1>1, <1>9
<1>15. QED
  BY <1>11, <1>12, <1>13, <1>14

\* What the answer to fetch i has shown of the build that gave it.
FetchHolds(i) ==
    LET kind == Fetches[i][1]
        path == Fetches[i][2]
    IN /\ kind \in {"manifest", "deployment"} => served[i] = Reviewed
       /\ kind = "probe" => path \notin DOMAIN Versions[served[i]]
       /\ kind = "file" /\ path \notin HostControl =>
             Versions[served[i]][path] = Versions[Reviewed][path]

SiteInv ==
    /\ part # "site" => verdict = "open"
    /\ part = "site" =>
          /\ live \in DOMAIN Versions /\ served \in Seq(DOMAIN Versions)
          /\ step \in Nat \ {0} /\ verdict \in {"open", "verified", "refused"}
          /\ verdict = "open" => step <= Len(Fetches)
          /\ verdict = "verified" => step = Len(Fetches) + 1
          /\ verdict # "refused" =>
                /\ Len(served) = step - 1
                /\ step > 2 => baseline = NotFound(Reviewed)
                /\ \A i \in 1 .. step - 1 : FetchHolds(i)

LEMMA MatchShows ==
    ASSUME NEW i \in DOMAIN Fetches, live \in DOMAIN Versions,
           NEW answer, answer = Answer(live, Fetches[i][2]),
           i > 2 => baseline = NotFound(Reviewed),
           Matches(Fetches[i][1], Fetches[i][2], answer)
    PROVE  LET kind == Fetches[i][1]
               path == Fetches[i][2]
           IN /\ kind = "baseline" => answer = NotFound(Reviewed)
              /\ kind \in {"manifest", "deployment"} => live = Reviewed
              /\ kind = "probe" => path \notin DOMAIN Versions[live]
              /\ kind = "file" /\ path \notin HostControl =>
                    Versions[live][path] = Versions[Reviewed][path]
<1> DEFINE kind == Fetches[i][1]
           path == Fetches[i][2]
<1>1. /\ path \in HostControl \/ path \notin DOMAIN Versions[live] => answer = NotFound(live)
      /\ ~(path \in HostControl \/ path \notin DOMAIN Versions[live]) => answer = Body(live, path)
  BY DEF Answer
<1>2. /\ answer = NotFound(live) => answer[1] = "404"
      /\ answer = Body(live, path) => answer[1] = "200" /\ answer[2] = Versions[live][path]
  BY DEF NotFound, Body
<1>3. kind = "baseline" => answer = NotFound(Reviewed)
  BY DEF Matches
<1>4. kind \in {"manifest", "deployment"} => live = Reviewed
  <2>1. SUFFICES ASSUME kind \in {"manifest", "deployment"} PROVE live = Reviewed
    OBVIOUS
  <2>2. answer = <<"200", Reviewed>>
    BY <2>1 DEF Matches
  <2>3. answer[1] = "200" /\ answer[2] = Reviewed
    BY <2>2
  <2>4. Versions[live][path] = Reviewed
    BY <1>1, <1>2, <2>3
  <2>5. Versions[live][path] = live
    BY <2>1, FetchesAre, LiveSiteAssumption DEF LiveSiteAssumption
  <2>6. QED
    BY <2>4, <2>5
<1>5. kind = "probe" => path \notin DOMAIN Versions[live]
  <2>1. SUFFICES ASSUME kind = "probe" PROVE path \notin DOMAIN Versions[live]
    OBVIOUS
  <2>2. answer = baseline
    BY <2>1 DEF Matches
  <2>3. i > 2 /\ path \notin HostControl
    <3>1. i \in 1 .. Len(Fetches) /\ i # 1 /\ i # 2
      BY <2>1, FetchesAre
    <3>2. QED
      BY <2>1, <3>1, FetchesAre
  <2>4. answer[1] = "404"
    BY <2>2, <2>3 DEF NotFound
  <2>5. QED
    BY <1>1, <1>2, <2>3, <2>4
<1>6. kind = "file" /\ path \notin HostControl =>
        Versions[live][path] = Versions[Reviewed][path]
  <2>1. SUFFICES ASSUME kind = "file", path \notin HostControl
                 PROVE  Versions[live][path] = Versions[Reviewed][path]
    OBVIOUS
  <2>2. answer = <<"200", Versions[Reviewed][path]>>
    BY <2>1 DEF Matches, Expected, Body
  <2>3. answer[1] = "200" /\ answer[2] = Versions[Reviewed][path]
    BY <2>2
  <2>4. QED
    BY <1>1, <1>2, <2>3
<1>7. QED
  BY <1>3, <1>4, <1>5, <1>6

LEMMA SiteStep ==
    ASSUME SiteInv, [Next]_algorithmVars
    PROVE  SiteInv'
<1>1. CASE UNCHANGED <<part, liveVars>>
  BY <1>1 DEF SiteInv, FetchHolds, liveVars
<1>2. CASE part = "site" /\ part' = part /\ LiveSiteNext
  <2>1. CASE Fetch
    <3> DEFINE kind == Fetches[step][1]
               path == Fetches[step][2]
               answer == Answer(live, path)
    <3>1. /\ verdict = "open" /\ live' = live /\ served' = Append(served, live)
          /\ baseline' = IF kind = "baseline" THEN answer ELSE baseline
          /\ live \in DOMAIN Versions /\ served \in Seq(DOMAIN Versions)
          /\ step \in 1 .. Len(Fetches) /\ Len(served) = step - 1
          /\ step > 2 => baseline = NotFound(Reviewed)
          /\ \A i \in 1 .. step - 1 : FetchHolds(i)
      BY <1>2, <2>1, FetchesAre DEF Fetch, SiteInv
    <3>2. /\ served' \in Seq(DOMAIN Versions) /\ Len(served') = step
          /\ served'[step] = live /\ \A i \in 1 .. step - 1 : served'[i] = served[i]
      BY <3>1, FetchesAre
    <3>3. CASE ~Matches(kind, path, answer)
      <4>1. step' = step /\ verdict' = "refused"
        BY <2>1, <3>3 DEF Fetch
      <4>2. QED
        BY <1>2, <3>1, <3>2, <4>1, FetchesAre DEF SiteInv
    <3>4. CASE Matches(kind, path, answer)
      <4>1. /\ step' = step + 1
            /\ verdict' = IF step = Len(Fetches) THEN "verified" ELSE "open"
        BY <2>1, <3>4 DEF Fetch
      <4>2. /\ kind = "baseline" => answer = NotFound(Reviewed)
            /\ kind \in {"manifest", "deployment"} => live = Reviewed
            /\ kind = "probe" => path \notin DOMAIN Versions[live]
            /\ kind = "file" /\ path \notin HostControl =>
                  Versions[live][path] = Versions[Reviewed][path]
        BY <3>1, <3>4, FetchesAre, MatchShows
      <4>3. ASSUME NEW i \in 1 .. step PROVE FetchHolds(i)'
        <5>1. CASE i = step
          BY <3>2, <4>2, <5>1 DEF FetchHolds
        <5>2. CASE i \in 1 .. step - 1
          BY <3>1, <3>2, <5>2 DEF FetchHolds
        <5>3. QED
          BY <3>1, <5>1, <5>2
      <4>4. step + 1 > 2 => baseline' = NotFound(Reviewed)
        <5>1. CASE step = 2
          BY <3>1, <4>2, <5>1, FetchesAre
        <5>2. CASE step > 2
          BY <3>1, <4>2, <5>2
        <5>3. QED
          BY <3>1, <5>1, <5>2, FetchesAre
      <4>5. Len(Fetches) \in Nat /\ step \in Nat /\ step + 1 - 1 = step /\ step + 1 \in Nat \ {0}
        BY <3>1, FetchesAre
      <4>6. /\ verdict' \in {"open", "verified"}
            /\ verdict' = "open" => step' <= Len(Fetches)
            /\ verdict' = "verified" => step' = Len(Fetches) + 1
        BY <3>1, <4>1, <4>5
      <4>7. part' = "site" /\ live' \in DOMAIN Versions /\ Len(served') = step' - 1
        BY <1>2, <3>1, <3>2, <4>1, <4>5
      <4>8. \A i \in 1 .. step' - 1 : FetchHolds(i)'
        BY <4>1, <4>3, <4>5
      <4>9. step' \in Nat \ {0} /\ (step' > 2 => baseline' = NotFound(Reviewed))
        BY <4>1, <4>4, <4>5
      <4>10. QED
        BY <3>2, <4>6, <4>7, <4>8, <4>9 DEF SiteInv
    <3>5. QED
      BY <3>3, <3>4
  <2>2. CASE FetchFails
    BY <1>2, <2>2 DEF FetchFails, SiteInv
  <2>3. CASE Deploy
    BY <1>2, <2>3 DEF Deploy, SiteInv, FetchHolds
  <2>4. QED
    BY <1>2, <2>1, <2>2, <2>3 DEF LiveSiteNext
<1>3. QED
  BY <1>1, <1>2 DEF Next, JoinFiles, BuildDocuments, BuildContext, RunReports, FindClusters,
     AuditDataset, AssessCity, Compute, algorithmVars, taskVars

(* A site that was verified is the reviewed build, not a mixture of what   *)
(* was deployed between two fetches (live_site_verifier.py).               *)
THEOREM VerifiedSitesMatch == Spec => []LiveSiteMatched
<1>1. Init => SiteInv
  <2>1. ASSUME LiveSiteInit, part = "site" PROVE SiteInv
    BY <2>1, FetchesAre DEF LiveSiteInit, SiteInv
  <2>2. QED
    BY <2>1 DEF Init, SiteInv
<1>2. SiteInv => LiveSiteMatched
  <2>1. SUFFICES ASSUME SiteInv, verdict = "verified" PROVE LiveSiteMatched
    BY DEF LiveSiteMatched
  <2> DEFINE last == Index("deployment")
  <2>2. /\ Len(served) = Len(Fetches) /\ DOMAIN served = DOMAIN Fetches
        /\ \A i \in DOMAIN Fetches : FetchHolds(i)
    BY <2>1, FetchesAre DEF SiteInv
  <2>3. last \in DOMAIN Fetches /\ Fetches[last][1] = "deployment"
    BY FetchesAre DEF Index
  <2>4. served[1] = Reviewed /\ served[last] = Reviewed
    BY <2>2, <2>3, FetchesAre DEF FetchHolds
  <2>5. ASSUME ~Returned, NEW i \in 1 .. last PROVE served[i] = Reviewed
    <3>1. 1 \in DOMAIN served /\ i \in DOMAIN served /\ last \in DOMAIN served
      BY <2>2, <2>3, FetchesAre
    <3>2. i = 1 \/ i = last \/ (1 < i /\ i < last)
      BY <2>3, FetchesAre
    <3>3. QED
      BY <2>4, <2>5, <3>1, <3>2 DEF Returned
  <2>6. QED
    BY <2>2, <2>4, <2>5 DEF LiveSiteMatched, FetchHolds
<1>3. QED
  BY <1>1, <1>2, SiteStep, PTL DEF Spec

-----------------------------------------------------------------------------
(* The submission form.                                                    *)

FormReports ==
    {r \in [id : Nat \ {0}, coords : {"none", "typed", "device"}, address : BOOLEAN] :
        (r.coords \in {"typed", "device"}) # r.address}

FormFields ==
    [coords : {"none", "typed", "beyond", "device"}, address : BOOLEAN, answered : BOOLEAN]

FormStatuses ==
    {"blank", "missing", "ready", "sending", "received", "copied", "copy by hand"}

OneReport   == FormReports \cup {NoReport}
ManyReports == SUBSET FormReports

Forms ==
    [fields : FormFields, endpoint : BOOLEAN, locating : BOOLEAN,
     status : FormStatuses,
     offered : OneReport, sending : ManyReports, received : ManyReports, newest : OneReport,
     overlapped : BOOLEAN, events : Nat]

Leaving(f) == (f.sending \cup f.received \cup {f.offered, f.newest}) \ {NoReport}

\* What was submitted last has the highest number, and while nothing overlapped
\* it is the only one on its way.
FormHolds(f) ==
    /\ \A r \in Leaving(f) : r.id <= f.newest.id
    /\ \A r, s \in Leaving(f) : r.id = s.id => r = s
    /\ ~f.endpoint => f.sending = {}
    /\ ~f.overlapped =>
          /\ f.sending \subseteq {f.newest}
          /\ f.newest \in f.sending \cup f.received \cup {f.offered, NoReport}
    /\ f.status = "sending" => f.newest \in f.sending
    /\ f.status = "ready" => f.offered # NoReport
    /\ f.status = "received" => f.received # {}

FormInv == part = "form" => form \in Forms /\ FormHolds(form)

LEMMA ReportsAre ==
    /\ NoReport.id = 0 /\ NoReport \notin FormReports
    /\ \A r \in FormReports : r.id \in Nat /\ r.id # 0
  BY DEF NoReport, FormReports

LEMMA FormSets ==
    ASSUME NEW f \in Forms
    PROVE  /\ f.sending \subseteq FormReports /\ f.received \subseteq FormReports
           /\ f.offered \in FormReports \cup {NoReport} /\ f.newest \in FormReports \cup {NoReport}
           /\ Leaving(f) \subseteq FormReports
<1>1. f.sending \in ManyReports /\ f.received \in ManyReports
      /\ f.offered \in OneReport /\ f.newest \in OneReport
  BY DEF Forms
<1>2. QED
  BY <1>1 DEF ManyReports, OneReport, Leaving

\* A report of a complete form has a number of its own.
LEMMA NewReports ==
    ASSUME form \in Forms, FormHolds(form),
           Complete(form.fields), NEW report, report = FormReport(form.fields)
    PROVE  /\ report \in FormReports /\ report.id = form.newest.id + 1
           /\ \A r \in Leaving(form) : r.id < report.id /\ r # report
<1>1. form.newest \in FormReports \cup {NoReport}
      /\ Leaving(form) \subseteq FormReports
  BY FormSets
<1>2. form.newest.id \in Nat /\ \A r \in Leaving(form) : r.id \in Nat
  BY <1>1, ReportsAre
<1>3. form.fields \in FormFields
  BY DEF Forms
<1>4. form.fields.coords \in {"none", "typed", "device"} /\ form.fields.address \in BOOLEAN
      /\ (form.fields.coords # "none" \/ form.fields.address = TRUE)
  BY <1>3 DEF FormFields, Complete
<1>5. PICK address \in BOOLEAN :
        /\ report = [id |-> form.newest.id + 1, coords |-> form.fields.coords,
                     address |-> address]
        /\ address <=> form.fields.coords = "none" /\ form.fields.address
  BY DEF FormReport
<1>6. report \in FormReports
  <2>1. report \in [id : Nat \ {0}, coords : {"none", "typed", "device"}, address : BOOLEAN]
    BY <1>2, <1>4, <1>5
  <2>2. (report.coords \in {"typed", "device"}) # report.address
    BY <1>4, <1>5
  <2>3. QED
    BY <2>1, <2>2 DEF FormReports
<1>7. report.id = form.newest.id + 1
  BY <1>5
<1>8. \A r \in Leaving(form) : r.id <= form.newest.id
  BY DEF FormHolds
<1>9. QED
  BY <1>2, <1>6, <1>7, <1>8

\* The reports and where they are stay as they were.
LEMMA FormQuiet ==
    ASSUME NEW f \in Forms, NEW g \in Forms, FormHolds(f),
           g.endpoint = f.endpoint, g.sending = f.sending, g.received = f.received,
           g.offered = f.offered, g.newest = f.newest, g.overlapped = f.overlapped,
           g.status \in {f.status, "blank", "missing", "copied", "copy by hand"}
    PROVE  FormHolds(g)
<1>1. Leaving(g) = Leaving(f)
  BY DEF Leaving
<1>2. QED
  BY <1>1 DEF FormHolds

\* A report of its own number leaves: it is sent, or offered.
LEMMA FormLeaves ==
    ASSUME NEW f \in Forms, NEW g \in Forms, FormHolds(f), NEW report \in FormReports,
           \A r \in Leaving(f) : r.id < report.id /\ r # report,
           g.endpoint = f.endpoint, g.received = f.received, g.newest = report,
           \/ /\ f.endpoint /\ g.sending = f.sending \cup {report} /\ g.offered = f.offered
              /\ g.status = "sending" /\ g.overlapped = (f.overlapped \/ f.sending # {})
           \/ /\ ~f.endpoint /\ g.sending = f.sending /\ g.offered = report
              /\ g.status = "ready" /\ g.overlapped = f.overlapped
    PROVE  FormHolds(g)
<1>1. Leaving(g) \subseteq Leaving(f) \cup {report} /\ report \in g.sending \cup {g.offered}
  BY DEF Leaving
<1>2. report.id \in Nat /\ \A r \in Leaving(f) : r.id \in Nat
  BY ReportsAre, FormSets
<1>3. \A r \in Leaving(g) : r.id <= g.newest.id
  BY <1>1, <1>2
<1>4. \A r, s \in Leaving(g) : r.id = s.id => r = s
  BY <1>1, <1>2 DEF FormHolds
<1>5. (~g.endpoint => g.sending = {})
      /\ (~g.overlapped => g.sending \subseteq {g.newest}
                           /\ g.newest \in g.sending \cup g.received \cup {g.offered, NoReport})
  BY <1>1 DEF FormHolds
<1>6. g.status \in {"sending", "ready"}
      /\ (g.status = "sending" => g.newest \in g.sending)
      /\ (g.status = "ready" => g.offered # NoReport)
  BY ReportsAre
<1>7. QED
  BY <1>3, <1>4, <1>5, <1>6 DEF FormHolds

\* An answer comes: the report was received, or is offered.
LEMMA FormAnswered ==
    ASSUME NEW f \in Forms, NEW g \in Forms, FormHolds(f), NEW report \in f.sending,
           g.endpoint = f.endpoint, g.sending = f.sending \ {report},
           g.newest = f.newest, g.overlapped = f.overlapped,
           g.received \in {f.received, f.received \cup {report}},
           \/ /\ g.offered = f.offered /\ g.received = f.received \cup {report}
              /\ g.status = "received"
           \/ g.offered = report /\ g.status = "ready"
    PROVE  FormHolds(g)
<1>1. report \in FormReports
  BY FormSets
<1>2. Leaving(g) \subseteq Leaving(f)
  BY <1>1, ReportsAre DEF Leaving
<1>3. QED
  BY <1>1, <1>2, ReportsAre DEF FormHolds

LEMMA FormStep ==
    ASSUME FormInv, [Next]_algorithmVars
    PROVE  FormInv'
<1>1. CASE UNCHANGED <<part, form>>
  BY <1>1 DEF FormInv
<1>2. CASE part = "form" /\ part' = part /\ FormNext
  <2>1. form \in Forms /\ FormHolds(form) /\ form.fields \in FormFields
        /\ form.events \in Nat /\ form.events + 1 \in Nat
    BY <1>2 DEF FormInv, Forms
  <2> SUFFICES form' \in Forms /\ FormHolds(form')
    BY DEF FormInv
  <2>2. ASSUME NEW coords \in {"none", "typed", "beyond"}, NEW address \in BOOLEAN,
               NEW answered \in BOOLEAN,
               Fill([coords |-> coords, address |-> address, answered |-> answered])
        PROVE  form' \in Forms /\ FormHolds(form')
    <3> DEFINE fields == [coords |-> coords, address |-> address, answered |-> answered]
    <3>1. fields \in FormFields
      BY DEF FormFields
    <3> HIDE DEF fields
    <3>2. PICK events \in Nat : form' = [form EXCEPT !.fields = fields, !.events = events]
      BY <2>1, <2>2 DEF Fill, FormEvent, Forms, fields
    <3>3. form' \in Forms
      BY <2>1, <3>1, <3>2 DEF Forms
    <3>4. QED
      BY <2>1, <3>2, <3>3, FormQuiet DEF Forms
  <2>3. CASE AskLocation
    <3>1. PICK locating \in BOOLEAN, events \in Nat :
            form' = [form EXCEPT !.locating = locating, !.events = events]
      BY <2>1, <2>3 DEF AskLocation, FormEvent, Forms
    <3>2. form' \in Forms
      BY <2>1, <3>1 DEF Forms
    <3>3. QED
      BY <2>1, <3>1, <3>2, FormQuiet DEF Forms
  <2>4. CASE CopyReport
    <3>1. PICK said \in {"copied", "copy by hand"}, events \in Nat :
            form' = [form EXCEPT !.status = said, !.events = events]
      BY <2>1, <2>4 DEF CopyReport, FormEvent, Forms
    <3> said \in FormStatuses
      BY DEF FormStatuses
    <3>2. form' \in Forms
      BY <2>1, <3>1 DEF Forms
    <3>3. QED
      BY <2>1, <3>1, <3>2, FormQuiet DEF Forms
  <2>5. CASE LocationArrives
    <3>1. PICK fields \in FormFields, locating \in BOOLEAN :
            form' = [form EXCEPT !.locating = locating, !.fields = fields]
      <4>1. [form.fields EXCEPT !.coords = "device"] \in FormFields
        BY <2>1 DEF FormFields
      <4>2. [form EXCEPT !.locating = FALSE, !.fields.coords = "device"]
              = [form EXCEPT !.locating = FALSE, !.fields = [form.fields EXCEPT !.coords = "device"]]
        BY <2>1 DEF Forms
      <4>3. [form EXCEPT !.locating = FALSE] = [form EXCEPT !.locating = FALSE, !.fields = form.fields]
        BY <2>1 DEF Forms
      <4>4. QED
        BY <2>1, <2>5, <4>1, <4>2, <4>3 DEF LocationArrives
    <3>2. form' \in Forms
      BY <2>1, <3>1 DEF Forms
    <3>3. QED
      BY <2>1, <3>1, <3>2, FormQuiet DEF Forms
  <2>6. CASE Submit
    <3> DEFINE report == FormReport(form.fields)
    <3>1. CASE ~Complete(form.fields)
      <4>1. PICK status \in {"missing"}, events \in Nat :
              form' = [form EXCEPT !.status = status, !.events = events]
        BY <2>1, <2>6, <3>1 DEF Submit, FormEvent, Forms
      <4> status \in FormStatuses
        BY DEF FormStatuses
      <4>2. form' \in Forms
        BY <2>1, <4>1 DEF Forms
      <4>3. QED
        BY <2>1, <4>1, <4>2, FormQuiet DEF Forms
    <3>2. CASE Complete(form.fields)
      <4>1. /\ report \in FormReports
            /\ \A r \in Leaving(form) : r.id < report.id /\ r # report
        BY <2>1, <3>2, NewReports
      <4>2. CASE form.endpoint
        <5>1. PICK overlapped \in BOOLEAN, status \in {"sending"},
                   sending \in {form.sending \cup {report}}, events \in Nat :
                /\ overlapped = (form.overlapped \/ form.sending # {})
                /\ form' = [form EXCEPT !.newest = report, !.sending = sending,
                                        !.status = status, !.overlapped = overlapped,
                                        !.events = events]
          BY <2>1, <2>6, <3>2, <4>2 DEF Submit, FormEvent, Post, Forms
        <5> HIDE DEF report
        <5> status \in FormStatuses /\ report \in OneReport /\ sending \in ManyReports
          BY <2>1, <4>1, FormSets DEF FormStatuses, OneReport, ManyReports
        <5>2. form' \in Forms
          BY <2>1, <4>1, <5>1 DEF Forms
        <5>3. QED
          BY <2>1, <4>1, <4>2, <5>1, <5>2, FormLeaves DEF Forms
      <4>3. CASE ~form.endpoint
        <5>1. PICK status \in {"ready"}, events \in Nat :
                form' = [form EXCEPT !.newest = report, !.offered = report,
                                     !.status = status, !.events = events]
          BY <2>1, <2>6, <3>2, <4>3 DEF Submit, FormEvent, ShowResult, Forms
        <5> HIDE DEF report
        <5> status \in FormStatuses /\ report \in OneReport
          BY <4>1 DEF FormStatuses, OneReport
        <5>2. form' \in Forms
          BY <2>1, <4>1, <5>1 DEF Forms
        <5>3. QED
          BY <2>1, <4>1, <4>3, <5>1, <5>2, FormLeaves DEF Forms
      <4>4. QED
        BY <4>2, <4>3
    <3>3. QED
      BY <3>1, <3>2
  <2>7. ASSUME NEW report \in form.sending, PostSucceeds(report)
        PROVE  form' \in Forms /\ FormHolds(form')
    <3>1. BlankFields \in FormFields /\ report \in FormReports
      BY <2>1, FormSets DEF BlankFields, FormFields
    <3>2. PICK status \in {"received"}, sending \in {form.sending \ {report}},
               received \in {form.received \cup {report}} :
            form' = [form EXCEPT !.sending = sending, !.received = received,
                                 !.status = status, !.fields = BlankFields]
      BY <2>7 DEF PostSucceeds
    <3> status \in FormStatuses /\ sending \in ManyReports /\ received \in ManyReports
      BY <2>1, <3>1, FormSets DEF FormStatuses, ManyReports
    <3>3. form' \in Forms
      BY <2>1, <3>1, <3>2 DEF Forms
    <3>4. QED
      BY <2>1, <3>2, <3>3, FormAnswered DEF Forms
  <2>8. ASSUME NEW report \in form.sending, PostFails(report)
        PROVE  form' \in Forms /\ FormHolds(form')
    <3>1. report \in FormReports
      BY <2>1, FormSets
    <3>2. PICK status \in {"ready"}, sending \in {form.sending \ {report}},
               received \in {form.received, form.received \cup {report}} :
            form' = [form EXCEPT !.sending = sending, !.received = received,
                                 !.offered = report, !.status = status]
      BY <2>1, <2>8 DEF PostFails, ShowResult, Forms
    <3> /\ status \in FormStatuses /\ report \in OneReport
        /\ sending \in ManyReports /\ received \in ManyReports
      BY <2>1, <3>1, FormSets DEF FormStatuses, OneReport, ManyReports
    <3>3. form' \in Forms
      BY <2>1, <3>1, <3>2 DEF Forms
    <3>4. QED
      BY <2>1, <3>2, <3>3, FormAnswered DEF Forms
  <2>9. QED
    BY <1>2, <2>2, <2>3, <2>4, <2>5, <2>6, <2>7, <2>8 DEF FormNext
<1>3. QED
  BY <1>1, <1>2 DEF Next, JoinFiles, BuildDocuments, BuildContext, RunReports, FindClusters,
     AuditDataset, AssessCity, Compute, algorithmVars, taskVars, pageVars

LEMMA FormStarts == Init => FormInv
<1> SUFFICES ASSUME Init, part = "form" PROVE form \in Forms /\ FormHolds(form)
  BY DEF FormInv
<1>1. FormInit
  BY DEF Init
<1>2. PICK endpoint \in BOOLEAN :
        form = [fields |-> BlankFields, endpoint |-> endpoint, locating |-> FALSE,
                status |-> "blank", offered |-> NoReport, sending |-> {}, received |-> {},
                newest |-> NoReport, overlapped |-> FALSE, events |-> 0]
  BY <1>1 DEF FormInit
<1>3. Leaving(form) = {} /\ form.newest = NoReport /\ form.sending = {} /\ form.status = "blank"
  BY <1>2 DEF Leaving
<1>4. form \in Forms
  <2>1. /\ BlankFields \in FormFields /\ "blank" \in FormStatuses
        /\ NoReport \in OneReport /\ {} \in ManyReports
    BY DEF FormFields, BlankFields, FormStatuses, OneReport, ManyReports
  <2>2. QED
    BY <1>2, <2>1 DEF Forms
<1>5. QED
  BY <1>3, <1>4 DEF FormHolds

LEMMA FormKeeps == ASSUME FormInv, part = "form" PROVE NothingSubmittedIsLost
<1>1. \A r \in Leaving(form) : r \in FormReports
  BY FormSets DEF FormInv
<1>2. (form.sending \cup form.received \cup {form.offered}) \ {NoReport} \subseteq Leaving(form)
  BY DEF Leaving
<1>3. \A r \in FormReports : (r.coords \in {"typed", "device"}) # r.address
  BY DEF FormReports
<1>4. QED
  BY <1>1, <1>2, <1>3 DEF NothingSubmittedIsLost, FormInv, FormHolds

-----------------------------------------------------------------------------
(* The Studio page and the dossier.                                        *)

StudioFields ==
    {"file", "held", "declared", "corridor", "claimPlace", "reading",
     "result", "stale", "claim", "link", "dossier", "events"}

SelectedTier(s) == ReadinessTier(Selected(s), s.declared)

\* A claim has the tier of the evidence also when the result it came from is gone, and
\* the handoff is the one of the claim that is on the screen.
StudioHolds(s) ==
    /\ StudioFields \subseteq DOMAIN s
    /\ s.result # None /\ ~s.stale => s.result.tier = SelectedTier(s)
    /\ s.claim # None => {"tier", "place", "stale"} \subseteq DOMAIN s.claim
    /\ s.claim # None /\ ~s.claim.stale => s.claim.tier = SelectedTier(s)
    /\ s.claim # None /\ s.link # None /\ s.link.place # "" =>
          s.claim.tier = s.link.tier /\ s.claim.place = s.link.place
    /\ s.dossier # None /\ s.dossier.draft # None =>
          /\ s.dossier.draft.tier = s.dossier.claim.tier
          /\ s.dossier.draft.place = s.dossier.claim.place

StudioInv == part = "studio" => StudioHolds(studio)

\* What the invariant looks at is left alone.
LEMMA StudioQuiet ==
    ASSUME NEW s, NEW t, StudioHolds(s), StudioFields \subseteq DOMAIN t,
           t.file = s.file, t.held = s.held, t.declared = s.declared, t.result = s.result,
           t.stale = s.stale, t.claim = s.claim, t.link = s.link, t.dossier = s.dossier
    PROVE  StudioHolds(t)
<1>1. SelectedTier(t) = SelectedTier(s)
  BY DEF SelectedTier, Selected
<1>2. QED
  BY <1>1 DEF StudioHolds

\* The result and the claim are dropped, whatever is selected or declared now.
LEMMA StudioInvalidated ==
    ASSUME NEW s, NEW t, StudioHolds(s), StudioFields \subseteq DOMAIN t,
           t.result = None, t.claim = None, t.dossier = s.dossier
    PROVE  StudioHolds(t)
  BY DEF StudioHolds

LEMMA Invalidated ==
    ASSUME NEW s, StudioFields \subseteq DOMAIN s
    PROVE  LET t == InvalidateReadiness(s) IN
           /\ DOMAIN t = DOMAIN s
           /\ t.result = None /\ t.claim = None /\ t.dossier = s.dossier
  BY DEF InvalidateReadiness, StudioFields

\* The rows are those of the selection, or the read is stale and its result says so.
LEMMA Assessed ==
    ASSUME NEW s, StudioHolds(s), NEW rows, NEW stale \in BOOLEAN,
           ~stale => rows = Selected(s)
    PROVE  StudioHolds(Assess(s, rows, stale))
<1> DEFINE t == Assess(s, rows, stale)
<1>1. CASE rows = Unparsed
  BY <1>1 DEF Assess
<1>2. CASE rows # Unparsed
  <2>1. /\ DOMAIN t = DOMAIN s /\ t.file = s.file /\ t.declared = s.declared
        /\ t.held = rows /\ t.link = s.link /\ t.dossier = s.dossier
        /\ t.result = [tier |-> ReadinessTier(rows, s.declared), rows |-> rows.rows]
        /\ t.stale = stale
        /\ t.claim = IF stale /\ s.claim # None THEN [s.claim EXCEPT !.stale = TRUE] ELSE s.claim
    BY <1>2 DEF Assess, StudioHolds, StudioFields
  <2> HIDE DEF t
  <2>0. /\ StudioFields \subseteq DOMAIN t
        /\ t.dossier # None /\ t.dossier.draft # None =>
              /\ t.dossier.draft.tier = t.dossier.claim.tier
              /\ t.dossier.draft.place = t.dossier.claim.place
    BY <2>1 DEF StudioHolds
  <2>2. ~stale => Selected(t) = Selected(s)
    BY <2>1 DEF Selected
  <2>3. t.result # None /\ ~t.stale => t.result.tier = SelectedTier(t)
    BY <2>1, <2>2 DEF SelectedTier
  <2>4. ASSUME stale /\ s.claim # None PROVE StudioHolds(t)
    <3>1. {"tier", "place", "stale"} \subseteq DOMAIN s.claim
      BY <2>4 DEF StudioHolds
    <3>2. /\ DOMAIN t.claim = DOMAIN s.claim /\ t.claim.stale = TRUE
          /\ t.claim.tier = s.claim.tier /\ t.claim.place = s.claim.place
      BY <2>1, <2>4, <3>1
    <3>3. /\ t.claim # None => {"tier", "place", "stale"} \subseteq DOMAIN t.claim
          /\ t.claim # None /\ ~t.claim.stale => t.claim.tier = SelectedTier(t)
      BY <3>1, <3>2
    <3>4. t.claim # None /\ t.link # None /\ t.link.place # "" =>
             t.claim.tier = t.link.tier /\ t.claim.place = t.link.place
      <4>1. s.link # None /\ s.link.place # "" =>
               s.claim.tier = s.link.tier /\ s.claim.place = s.link.place
        BY <2>4 DEF StudioHolds
      <4>2. QED
        BY <2>1, <3>2, <4>1
    <3>5. QED
      BY <2>0, <2>3, <3>3, <3>4 DEF StudioHolds
  <2>5. ASSUME ~stale \/ s.claim = None PROVE StudioHolds(t)
    <3>1. t.claim = s.claim
      BY <2>1, <2>5
    <3>2. ~stale => SelectedTier(t) = SelectedTier(s)
      BY <2>1, <2>2, Zenon DEF SelectedTier
    <3>3. t.claim # None /\ ~t.claim.stale => t.claim.tier = SelectedTier(t)
      <4>1. s.claim # None /\ ~s.claim.stale => s.claim.tier = SelectedTier(s)
        BY DEF StudioHolds
      <4>2. QED
        BY <2>5, <3>1, <3>2, <4>1
    <3>4. /\ t.claim # None => {"tier", "place", "stale"} \subseteq DOMAIN t.claim
          /\ t.claim # None /\ t.link # None /\ t.link.place # "" =>
                t.claim.tier = t.link.tier /\ t.claim.place = t.link.place
      <4>1. /\ s.claim # None => {"tier", "place", "stale"} \subseteq DOMAIN s.claim
            /\ s.claim # None /\ s.link # None /\ s.link.place # "" =>
                  s.claim.tier = s.link.tier /\ s.claim.place = s.link.place
        BY DEF StudioHolds
      <4>2. t.link = s.link
        BY <2>1
      <4>3. QED
        BY <3>1, <4>1, <4>2
    <3>5. QED
      BY <2>0, <2>3, <3>3, <3>4 DEF StudioHolds
  <2>6. StudioHolds(t)
    BY <2>4, <2>5
  <2>7. QED
    BY <2>6 DEF t
<1>3. QED
  BY <1>1, <1>2

LEMMA StudioStep ==
    ASSUME StudioInv, [Next]_algorithmVars
    PROVE  StudioInv'
<1>1. CASE UNCHANGED <<part, studio>>
  BY <1>1 DEF StudioInv
<1>2. CASE part = "studio" /\ part' = part /\ StudioNext
  <2>1. StudioHolds(studio) /\ StudioFields \subseteq DOMAIN studio
    BY <1>2 DEF StudioInv, StudioHolds
  <2> SUFFICES StudioHolds(studio')
    BY DEF StudioInv
  <2>2. CASE LoadSample
    <3> DEFINE s == InvalidateReadiness(studio)
    <3>1. /\ StudioFields \subseteq DOMAIN s
          /\ s.result = None /\ s.claim = None /\ s.dossier = studio.dossier
      BY <2>1, Invalidated
    <3>2. studio' = [[s EXCEPT !.held = SampleRows] EXCEPT !.events = @ + 1]
      BY <2>2 DEF LoadSample, StudioEvent
    <3> HIDE DEF s
    <3>3. /\ StudioFields \subseteq DOMAIN studio'
          /\ studio'.result = None /\ studio'.claim = None /\ studio'.dossier = studio.dossier
      BY <3>1, <3>2 DEF StudioFields
    <3>4. QED
      BY <2>1, <3>3, StudioInvalidated
  <2>3. ASSUME NEW file, ChooseFile(file) PROVE StudioHolds(studio')
    <3> DEFINE s == InvalidateReadiness(studio)
    <3>1. /\ StudioFields \subseteq DOMAIN s
          /\ s.result = None /\ s.claim = None /\ s.dossier = studio.dossier
      BY <2>1, Invalidated
    <3>2. studio' = [[s EXCEPT !.file = file, !.held = Unparsed] EXCEPT !.events = @ + 1]
      BY <2>3 DEF ChooseFile, StudioEvent
    <3> HIDE DEF s
    <3>3. /\ StudioFields \subseteq DOMAIN studio'
          /\ studio'.result = None /\ studio'.claim = None /\ studio'.dossier = studio.dossier
      BY <3>1, <3>2 DEF StudioFields
    <3>4. QED
      BY <2>1, <3>3, StudioInvalidated
  <2>4. ASSUME NEW d, Declare(d) PROVE StudioHolds(studio')
    <3> DEFINE s == InvalidateReadiness(studio)
    <3>1. /\ StudioFields \subseteq DOMAIN s
          /\ s.result = None /\ s.claim = None /\ s.dossier = studio.dossier
      BY <2>1, Invalidated
    <3>2. PICK declared :
            studio' = [[s EXCEPT !.declared = declared] EXCEPT !.events = @ + 1]
      BY <2>4 DEF Declare, StudioEvent
    <3> HIDE DEF s
    <3>3. /\ StudioFields \subseteq DOMAIN studio'
          /\ studio'.result = None /\ studio'.claim = None /\ studio'.dossier = studio.dossier
      BY <3>1, <3>2 DEF StudioFields
    <3>4. QED
      BY <2>1, <3>3, StudioInvalidated
  <2>5. ASSUME NEW place, TypeCorridor(place) PROVE StudioHolds(studio')
    <3> DEFINE typed == [studio EXCEPT !.corridor = place, !.claimPlace = place]
               s     == InvalidateReadiness(typed)
    <3>1. /\ StudioFields \subseteq DOMAIN typed
          /\ typed.file = studio.file /\ typed.held = studio.held
          /\ typed.declared = studio.declared /\ typed.result = studio.result
          /\ typed.stale = studio.stale /\ typed.claim = studio.claim
          /\ typed.link = studio.link /\ typed.dossier = studio.dossier
      BY <2>1 DEF StudioFields
    <3>2. studio' = IF studio.result = None THEN [typed EXCEPT !.events = @ + 1]
                    ELSE [s EXCEPT !.events = @ + 1]
      BY <2>5 DEF TypeCorridor, StudioEvent
    <3> HIDE DEF typed
    <3>3. /\ StudioFields \subseteq DOMAIN s
          /\ s.result = None /\ s.claim = None /\ s.dossier = studio.dossier
      BY <3>1, Invalidated
    <3> HIDE DEF s
    <3>4. CASE studio.result = None
      <4>1. /\ StudioFields \subseteq DOMAIN studio'
            /\ studio'.file = studio.file /\ studio'.held = studio.held
            /\ studio'.declared = studio.declared /\ studio'.result = studio.result
            /\ studio'.stale = studio.stale /\ studio'.claim = studio.claim
            /\ studio'.link = studio.link /\ studio'.dossier = studio.dossier
        BY <3>1, <3>2, <3>4 DEF StudioFields
      <4>2. QED
        BY <2>1, <4>1, StudioQuiet
    <3>5. CASE studio.result # None
      <4>1. /\ StudioFields \subseteq DOMAIN studio'
            /\ studio'.result = None /\ studio'.claim = None /\ studio'.dossier = studio.dossier
        BY <3>2, <3>3, <3>5 DEF StudioFields
      <4>2. QED
        BY <2>1, <4>1, StudioInvalidated
    <3>6. QED
      BY <3>4, <3>5
  <2>6. ASSUME NEW place, TypeClaimPlace(place) PROVE StudioHolds(studio')
    <3>1. studio' = [[studio EXCEPT !.claimPlace = place] EXCEPT !.events = @ + 1]
      BY <2>6 DEF TypeClaimPlace, StudioEvent
    <3>2. /\ StudioFields \subseteq DOMAIN studio'
          /\ studio'.file = studio.file /\ studio'.held = studio.held
          /\ studio'.declared = studio.declared /\ studio'.result = studio.result
          /\ studio'.stale = studio.stale /\ studio'.claim = studio.claim
          /\ studio'.link = studio.link /\ studio'.dossier = studio.dossier
      BY <2>1, <3>1 DEF StudioFields
    <3>3. QED
      BY <2>1, <3>2, StudioQuiet
  <2>7. CASE SubmitReadiness
    <3> DEFINE s == Assess(studio, studio.held, FALSE)
               t == IF studio.file = "none" THEN s
                    ELSE [studio EXCEPT !.reading[studio.file] = @ + 1]
    <3>1. StudioHolds(t)
      <4>1. CASE studio.file = "none"
        <5>1. studio.held = Selected(studio)
          BY <4>1 DEF Selected
        <5>2. QED
          BY <2>1, <4>1, <5>1, Assessed
      <4>2. CASE studio.file # "none"
        <5>1. /\ StudioFields \subseteq DOMAIN t
              /\ t.file = studio.file /\ t.held = studio.held
              /\ t.declared = studio.declared /\ t.result = studio.result
              /\ t.stale = studio.stale /\ t.claim = studio.claim
              /\ t.link = studio.link /\ t.dossier = studio.dossier
          BY <2>1, <4>2 DEF StudioFields
        <5> HIDE DEF t
        <5>2. QED
          BY <2>1, <5>1, StudioQuiet
      <4>3. QED
        BY <4>1, <4>2
    <3>2. studio' = [t EXCEPT !.events = @ + 1]
      BY <2>7 DEF SubmitReadiness, StudioEvent
    <3> HIDE DEF t
    <3>3. /\ StudioFields \subseteq DOMAIN studio'
          /\ studio'.file = t.file /\ studio'.held = t.held
          /\ studio'.declared = t.declared /\ studio'.result = t.result
          /\ studio'.stale = t.stale /\ studio'.claim = t.claim
          /\ studio'.link = t.link /\ studio'.dossier = t.dossier
      BY <3>1, <3>2 DEF StudioFields, StudioHolds
    <3>4. QED
      BY <3>1, <3>3, StudioQuiet
  <2>8. ASSUME NEW file \in DOMAIN EvidenceFiles, FileIsRead(file) PROVE StudioHolds(studio')
    <3> DEFINE s == [studio EXCEPT !.reading[file] = @ - 1]
    <3>1. /\ StudioFields \subseteq DOMAIN s
          /\ s.file = studio.file /\ s.held = studio.held
          /\ s.declared = studio.declared /\ s.result = studio.result
          /\ s.stale = studio.stale /\ s.claim = studio.claim
          /\ s.link = studio.link /\ s.dossier = studio.dossier
      BY <2>1 DEF StudioFields
    <3>2. studio' = Assess(s, EvidenceFiles[file], file # studio.file)
      BY <2>8 DEF FileIsRead
    <3> HIDE DEF s
    <3>3. StudioHolds(s)
      BY <2>1, <3>1, StudioQuiet
    <3>4. file = studio.file => EvidenceFiles[file] = Selected(s)
      BY <3>1, StudioAssumption DEF Selected
    <3>5. StudioHolds(Assess(s, EvidenceFiles[file], file # studio.file))
      BY <3>3, <3>4, Assessed
    <3>6. QED
      BY <3>2, <3>5
  <2>9. ASSUME NEW saved \in BOOLEAN, SubmitClaim(saved) PROVE StudioHolds(studio')
    <3> DEFINE claim == CompileClaim(studio)
    <3>1. PICK link :
            /\ link = IF saved THEN [tier |-> studio.result.tier, place |-> studio.claimPlace] ELSE None
            /\ studio' = [[studio EXCEPT !.claim = claim, !.link = link] EXCEPT !.events = @ + 1]
      BY <2>9 DEF SubmitClaim, StudioEvent
    <3>2. studio.result # None
      BY <2>9 DEF SubmitClaim
    <3>3. /\ {"tier", "place", "stale"} \subseteq DOMAIN claim
          /\ claim.tier = studio.result.tier /\ claim.stale = studio.stale
          /\ studio.claimPlace # "" => claim.place = studio.claimPlace
      BY DEF CompileClaim
    <3>4. link # None /\ link.place # "" => claim.tier = link.tier /\ claim.place = link.place
      BY <3>1, <3>3
    <3> HIDE DEF claim
    <3>5. /\ StudioFields \subseteq DOMAIN studio'
          /\ studio'.file = studio.file /\ studio'.held = studio.held
          /\ studio'.declared = studio.declared /\ studio'.result = studio.result
          /\ studio'.stale = studio.stale /\ studio'.claim = claim
          /\ studio'.link = link /\ studio'.dossier = studio.dossier
      BY <2>1, <3>1 DEF StudioFields
    <3>6. SelectedTier(studio') = SelectedTier(studio)
      BY <3>5 DEF SelectedTier, Selected
    <3>7. QED
      BY <2>1, <3>2, <3>3, <3>4, <3>5, <3>6 DEF StudioHolds
  <2>10. CASE OpenDossier
    <3> DEFINE draft   == StudioHandoff(studio.link)
               dossier == [draft |-> draft, claim |-> studio.claim]
    <3>1. studio.claim # None
          /\ studio' = [[studio EXCEPT !.dossier = dossier] EXCEPT !.events = @ + 1]
      BY <2>10 DEF OpenDossier, StudioEvent
    <3>2. draft # None => draft.tier = studio.claim.tier /\ draft.place = studio.claim.place
      BY <2>1, <3>1 DEF StudioHandoff, StudioHolds
    <3>3. dossier.draft = draft /\ dossier.claim = studio.claim
      OBVIOUS
    <3> HIDE DEF draft, dossier
    <3>4. /\ StudioFields \subseteq DOMAIN studio'
          /\ studio'.file = studio.file /\ studio'.held = studio.held
          /\ studio'.declared = studio.declared /\ studio'.result = studio.result
          /\ studio'.stale = studio.stale /\ studio'.claim = studio.claim
          /\ studio'.link = studio.link /\ studio'.dossier = dossier
      BY <2>1, <3>1 DEF StudioFields
    <3>5. SelectedTier(studio') = SelectedTier(studio)
      BY <3>4 DEF SelectedTier, Selected
    <3>6. QED
      BY <2>1, <3>2, <3>3, <3>4, <3>5 DEF StudioHolds
  <2>11. QED
    BY <1>2, <2>2, <2>3, <2>4, <2>5, <2>6, <2>7, <2>8, <2>9, <2>10 DEF StudioNext
<1>3. QED
  BY <1>1, <1>2 DEF Next, JoinFiles, BuildDocuments, BuildContext, RunReports, FindClusters,
     AuditDataset, AssessCity, Compute, algorithmVars, taskVars, pageVars

LEMMA StudioStarts == Init => StudioInv
<1> SUFFICES ASSUME Init, part = "studio" PROVE StudioHolds(studio)
  BY DEF StudioInv
<1>1. StudioInit
  BY DEF Init
<1>2. PICK tiers \in BOOLEAN, place \in Places :
        studio = [file |-> "none", held |-> Unparsed, declared |-> {}, corridor |-> place,
                  claimPlace |-> place, reading |-> [f \in DOMAIN EvidenceFiles |-> 0],
                  result |-> IF tiers THEN [tier |-> 0, rows |-> 0] ELSE None,
                  stale |-> FALSE, claim |-> None, link |-> None, dossier |-> None, events |-> 0]
  BY <1>1 DEF StudioInit
<1>3. SelectedTier(studio) = 0
  BY <1>2 DEF SelectedTier, Selected, ReadinessTier, Unparsed
<1>4. /\ StudioFields \subseteq DOMAIN studio
      /\ studio.claim = None /\ studio.dossier = None
      /\ studio.result # None => studio.result.tier = 0
  BY <1>2 DEF StudioFields
<1>5. QED
  BY <1>3, <1>4 DEF StudioHolds

\* A claim has the tier of the evidence it was made from, and the draft in the dossier the
\* tier and place of the claim (ClaimGrounded, web/studio.js, web/dossier.js).  The last
\* report that was submitted is under way, received or on offer, unless it was sent while another
\* one was under way, whose failure can replace it (NothingSubmittedIsLost, web/submit.js).
THEOREM ClaimsStayGrounded == Spec => []ClaimsAreGrounded
<1>1. Init => FormInv /\ StudioInv
  BY FormStarts, StudioStarts
<1>2. FormInv /\ StudioInv /\ [Next]_algorithmVars => FormInv' /\ StudioInv'
  BY FormStep, StudioStep
<1>3. FormInv /\ StudioInv => ClaimsAreGrounded
  <2>1. StudioInv /\ part = "studio" => ClaimGrounded
    BY DEF StudioInv, StudioHolds, ClaimGrounded, SelectedTier
  <2>2. QED
    BY <2>1, FormKeeps DEF ClaimsAreGrounded
<1>4. QED
  BY <1>1, <1>2, <1>3, PTL DEF Spec

-----------------------------------------------------------------------------
(* The two release directories.                                            *)

\* What was released has the bytes that its own corrections name.
CountyInv ==
    released # Absent =>
        \A c \in released.ledger :
            /\ released.boundary = c.priorBoundary
            /\ \A pin \in {c.prior, c.replacement} :
                  released.values[pin.rev] = pin.shard /\ pin.shard # Absent

\* A directory that verifies has every file that its corrections name.
LEMMA DirectoryHas ==
    ASSUME DirectoryVerifies
    PROVE  /\ values[index.value.rev].boundary = boundary
           /\ \A c \in ledger :
                 /\ "geometry" \notin c.impact /\ boundary = c.priorBoundary
                 /\ \A pin \in {c.prior, c.replacement} :
                       values[pin.rev] = pin.shard /\ pin.shard # Absent
<1>1. ValuePin(index.value.rev).shard = values[index.value.rev]
  BY DEF ValuePin
<1>2. values[index.value.rev].boundary = boundary
  BY <1>1 DEF DirectoryVerifies, IndexEntry
<1>3. ASSUME NEW c \in ledger
      PROVE  /\ "geometry" \notin c.impact /\ boundary = c.priorBoundary
             /\ \A pin \in {c.prior, c.replacement} :
                   values[pin.rev] = pin.shard /\ pin.shard # Absent
  <2>1. boundary = c.priorBoundary /\ boundary = c.replacementBoundary /\ CorrectionPinPair(c)
    BY <1>3 DEF DirectoryVerifies, CorrectionPinsHold, LedgerValid
  <2>2. ValuePin(c.prior.rev) = c.prior /\ ValuePin(c.replacement.rev) = c.replacement
    BY <1>3 DEF DirectoryVerifies, CorrectionPinsHold
  <2>3. {c.prior.rev, c.replacement.rev} \subseteq Present
    BY <1>3 DEF DirectoryVerifies, Retained
  <2>4. QED
    BY <2>1, <2>2, <2>3 DEF ValuePin, Present, CorrectionPinPair
<1>4. QED
  BY <1>2, <1>3

LEMMA CountyStep ==
    ASSUME CountyInv, [Next]_algorithmVars
    PROVE  CountyInv'
<1>1. CASE released' = released
  BY <1>1 DEF CountyInv
<1>2. CASE VerifyDirectory
  <2>1. DirectoryVerifies /\ released'.values = values
        /\ released'.boundary = boundary /\ released'.ledger = ledger
    BY <1>2 DEF VerifyDirectory
  <2>2. QED
    BY <2>1, DirectoryHas DEF CountyInv
<1>3. QED
  BY <1>1, <1>2 DEF Next, CountyNext, WriteValue, WriteBoundary, AppendCorrection, BuildIndex,
     JoinFiles, BuildDocuments, BuildContext, RunReports, FindClusters, AuditDataset, AssessCity,
     Compute, algorithmVars, countyVars

\* A correction that two releases have pins the same bytes in both of them.
LEMMA ReleasedAgain ==
    ASSUME CountyInv, [Next]_algorithmVars, released' # released
    PROVE  /\ released'.values[released'.active].boundary = released'.boundary
           /\ \A c \in released'.ledger : "geometry" \notin c.impact
           /\ released # Absent =>
                \A c \in released.ledger \cap released'.ledger :
                  /\ released'.boundary = released.boundary
                  /\ \A r \in {c.prior.rev, c.replacement.rev} :
                       released'.values[r] = released.values[r] /\ released.values[r] # Absent
<1>1. VerifyDirectory
  BY DEF Next, CountyNext, WriteValue, WriteBoundary, AppendCorrection, BuildIndex,
     JoinFiles, BuildDocuments, BuildContext, RunReports, FindClusters, AuditDataset, AssessCity,
     Compute, algorithmVars, countyVars
<1>2. /\ DirectoryVerifies /\ released'.values = values /\ released'.boundary = boundary
      /\ released'.ledger = ledger /\ released'.active = index.value.rev
  BY <1>1 DEF VerifyDirectory
<1>3. ASSUME released # Absent, NEW c \in released.ledger \cap released'.ledger
      PROVE  /\ released'.boundary = released.boundary
             /\ \A r \in {c.prior.rev, c.replacement.rev} :
                  released'.values[r] = released.values[r] /\ released.values[r] # Absent
  <2>1. /\ boundary = c.priorBoundary
        /\ \A pin \in {c.prior, c.replacement} : values[pin.rev] = pin.shard /\ pin.shard # Absent
    BY <1>2, <1>3, DirectoryHas
  <2>2. /\ released.boundary = c.priorBoundary
        /\ \A pin \in {c.prior, c.replacement} : released.values[pin.rev] = pin.shard
    BY <1>3 DEF CountyInv
  <2>3. QED
    BY <1>2, <2>1, <2>2
<1>4. QED
  BY <1>2, <1>3, DirectoryHas

\* The state directory: one that verifies serves the years and the counts of the first index.
LEMMA AcceptedAgain ==
    ASSUME [Next]_algorithmVars, accepted' # accepted
    PROVE  /\ DOMAIN accepted'.current = PublishedYears
           /\ \A y \in PublishedYears :
                /\ accepted'.current[y].counts = PublishedCounts
                /\ accepted'.annual[<<y, 1>>] = PublishedCounts
           /\ PageValidatesIndex(accepted'.current)
<1> DEFINE current == catalogue.current
<1>1. VerifyRelease
  BY DEF Next, ReleaseNext, WriteAnnual, BuildReleaseIndex, BuildCorrectionLedger,
     JoinFiles, BuildDocuments, BuildContext, RunReports, FindClusters, AuditDataset, AssessCity,
     Compute, algorithmVars, releaseVars
<1>2. accepted'.current = current /\ accepted'.annual = annual
  BY <1>1 DEF VerifyRelease
<1>3. /\ catalogue.legacy = ImmutableIndex /\ IndexReleasesHold(ImmutableIndex)
      /\ SelectsCorrection(current) /\ IndexReleasesHold(current)
      /\ ProvenanceOnlyDelta(ImmutableIndex, current, annual[<<CorrectedYear, 1>>], annual[<<CorrectedYear, 2>>])
      /\ annual[<<CorrectedYear, 1>>] = PublishedCounts
  BY <1>1 DEF VerifyRelease, ReleaseVerifies
<1>4. /\ DOMAIN ImmutableIndex = PublishedYears
      /\ \A y \in PublishedYears :
            ImmutableIndex[y].rev = 1 /\ ImmutableIndex[y].counts = PublishedCounts
  BY DEF ImmutableIndex
<1>5. DOMAIN current = PublishedYears
      /\ \A y \in PublishedYears : annual[<<y, 1>>] = PublishedCounts
  BY <1>3, <1>4 DEF ProvenanceOnlyDelta, IndexReleasesHold
<1>6. ASSUME NEW y \in PublishedYears
      PROVE  /\ current[y].counts = PublishedCounts
             /\ current[y].rev = IF y = CorrectedYear THEN 2 ELSE 1
  <2>1. CASE y = CorrectedYear
    <3>1. current[y].rev = 2 /\ annual[<<y, 2>>] = PublishedCounts
      BY <1>3, <2>1 DEF SelectsCorrection, ProvenanceOnlyDelta
    <3>2. annual[<<y, current[y].rev>>] = current[y].counts
      BY <1>3, <1>5 DEF IndexReleasesHold
    <3>3. QED
      BY <2>1, <3>1, <3>2
  <2>2. CASE y # CorrectedYear
    BY <1>3, <1>4, <2>2 DEF ProvenanceOnlyDelta
  <2>3. QED
    BY <2>1, <2>2
<1>7. PageValidatesIndex(current)
  BY <1>5, <1>6, StateReleaseAssumption DEF PageValidatesIndex
<1>8. QED
  BY <1>2, <1>5, <1>6, <1>7

\* The ledger that the tool has built is the one that the verifier wants.
LEMMA LedgerVerifies ==
    ASSUME [Next]_algorithmVars, corrections' # corrections,
           \A y \in PublishedYears : annual[<<y, 1>>] = PublishedCounts,
           OnDisk = (PublishedYears \X {1}) \cup {<<CorrectedYear, 2>>}
    PROVE  ReleaseVerifies'
<1> DEFINE current == catalogue.current
           second  == annual[<<CorrectedYear, 2>>]
<1>1. BuildCorrectionLedger
  BY DEF Next, ReleaseNext, WriteAnnual, BuildReleaseIndex, VerifyRelease,
     JoinFiles, BuildDocuments, BuildContext, RunReports, FindClusters, AuditDataset, AssessCity,
     Compute, algorithmVars, releaseVars
<1>2. /\ NoFile \notin {current, ImmutableIndex} /\ catalogue.legacy = ImmutableIndex
      /\ SelectsCorrection(current) /\ current[CorrectedYear].counts = second
      /\ annual[<<CorrectedYear, 1>>] = PublishedCounts
      /\ ProvenanceOnlyDelta(ImmutableIndex, current, PublishedCounts, second)
      /\ corrections' = {[prior |-> PublishedCounts, replacement |-> second,
                          priorIndex |-> ImmutableIndex, replacementIndex |-> current]}
      /\ annual' = annual /\ catalogue' = catalogue
  BY <1>1 DEF BuildCorrectionLedger
<1>3. /\ DOMAIN ImmutableIndex = PublishedYears
      /\ \A y \in PublishedYears :
            ImmutableIndex[y].rev = 1 /\ ImmutableIndex[y].counts = PublishedCounts
  BY DEF ImmutableIndex
<1>4. DOMAIN current = PublishedYears /\ second = PublishedCounts
      /\ current[CorrectedYear].rev = 2 /\ CorrectedYear \in PublishedYears
      /\ \A y \in PublishedYears \ {CorrectedYear} : current[y] = ImmutableIndex[y]
  BY <1>2, <1>3, StateReleaseAssumption DEF ProvenanceOnlyDelta, SelectsCorrection
<1>5. IndexReleasesHold(ImmutableIndex)
  BY <1>3 DEF IndexReleasesHold
<1>6. IndexReleasesHold(current)
  <2>1. SUFFICES ASSUME NEW y \in PublishedYears
                 PROVE  annual[<<y, current[y].rev>>] = current[y].counts
    BY <1>4 DEF IndexReleasesHold
  <2>2. CASE y = CorrectedYear
    BY <1>2, <1>4, <2>2
  <2>3. CASE y # CorrectedYear
    BY <1>3, <1>4, <2>3
  <2>4. QED
    BY <2>2, <2>3
<1>7. OnDisk = Declared(ImmutableIndex) \cup Declared(current)
  <2>1. Declared(ImmutableIndex) = PublishedYears \X {1}
    BY <1>3 DEF Declared
  <2>2. ASSUME NEW y \in PublishedYears
        PROVE  <<y, current[y].rev>> \in (PublishedYears \X {1}) \cup {<<CorrectedYear, 2>>}
    BY <1>3, <1>4
  <2>3. <<CorrectedYear, 2>> \in Declared(current)
    BY <1>4 DEF Declared
  <2>4. Declared(current) \subseteq (PublishedYears \X {1}) \cup {<<CorrectedYear, 2>>}
    BY <1>4, <2>2 DEF Declared
  <2>5. QED
    BY <2>1, <2>3, <2>4
<1>8. OnDisk' = OnDisk /\ IndexReleasesHold(ImmutableIndex)' /\ IndexReleasesHold(current)'
  BY <1>2, <1>5, <1>6 DEF OnDisk, IndexReleasesHold
<1>9. QED
  BY <1>2, <1>4, <1>7, <1>8 DEF ReleaseVerifies

-----------------------------------------------------------------------------
(* The registry of contracts.                                              *)

\* What a history says between any two of its revisions.
HistoryHolds(h) ==
    \A i, j \in 1 .. Len(h) : i < j =>
        /\ \A v \in 1 .. 2 : h[i].versions[v] <= h[j].versions[v]
        /\ \/ StageRank(h[i].stage) <= StageRank(h[j].stage)
           \/ \E k \in i .. (j - 1) : ProvenanceCorrection(h[k + 1], h[k])

HistoryValid(h, year) ==
    /\ h # <<>>
    /\ \A i \in DOMAIN h : HistoryEntryValid(h[i], year, i, SubSeq(h, 1, i - 1))

\* Only the last contract was replaced, or one was put after it.
Prolongs(g, h) ==
    /\ Len(g) \in {Len(h), Len(h) + 1}
    /\ \A i \in 1 .. (Len(g) - 1) : g[i] = h[i]

RegistryIsMap ==
    DOMAIN registry = ContractYears /\ \A year \in ContractYears : \E S : registry[year] \in Seq(S)

RegistryInv ==
    part = "registry" =>
        /\ RegistryIsMap
        /\ RegistryValid(registry) => \A year \in ContractYears : HistoryHolds(registry[year])

LEMMA StagesAreRanked ==
    ASSUME NEW stage, Contains(ReleaseStages, stage)
    PROVE  StageRank(stage) \in Nat
<1>1. PICK i \in 1 .. Len(ReleaseStages) : ReleaseStages[i] = stage
  BY DEF Contains
<1>2. DOMAIN ReleaseStages = 1 .. 3 /\ Len(ReleaseStages) = 3
  BY DEF ReleaseStages
<1>3. StageRank(stage) \in 1 .. 3
  BY <1>1, <1>2 DEF StageRank
<1>4. QED
  BY <1>3

\* What the checks of an entry say of it and of the one before it.
LEMMA EntryFacts ==
    ASSUME NEW S, NEW h \in Seq(S), NEW year \in ContractYears, HistoryValid(h, year),
           NEW i \in 1 .. Len(h)
    PROVE  /\ \A v \in 1 .. 2 : h[i].versions[v] \in Nat
           /\ StageRank(h[i].stage) \in Nat
           /\ h[i].year = year /\ h[i].revision = i
           /\ i > 1 =>
                /\ h[i].predecessor = {h[i - 1]}
                /\ \A v \in 1 .. 2 : h[i].versions[v] >= h[i - 1].versions[v]
                /\ \/ StageRank(h[i].stage) >= StageRank(h[i - 1].stage)
                   \/ ProvenanceCorrection(h[i], h[i - 1])
<1> DEFINE earlier == SubSeq(h, 1, i - 1)
<1>1. Len(h) \in Nat /\ DOMAIN h = 1 .. Len(h) /\ i \in Int
  BY LenProperties
<1>2. HistoryEntryValid(h[i], year, i, earlier)
  BY <1>1 DEF HistoryValid
<1>3. ContractValid(h[i]) /\ h[i].year = year /\ h[i].revision = i
  BY <1>2 DEF HistoryEntryValid
<1>4. StageRank(h[i].stage) \in Nat /\ \A v \in 1 .. 2 : h[i].versions[v] \in Nat
  BY <1>3, StagesAreRanked, ContractAssumption DEF ContractValid
<1>5. ASSUME i > 1
      PROVE  earlier # <<>> /\ Last(earlier) = h[i - 1]
  <2>1. \A k \in 1 .. (i - 1) : h[k] \in S
    BY <1>1, ElementOfSeq
  <2>2. earlier \in Seq(S) /\ Len(earlier) = i - 1 /\ \A k \in 1 .. (i - 1) : earlier[k] = h[k]
    <3>1. /\ earlier \in Seq(S)
          /\ Len(earlier) = IF 1 <= i - 1 THEN i - 1 - 1 + 1 ELSE 0
          /\ \A k \in 1 .. (i - 1 - 1 + 1) : earlier[k] = h[1 + k - 1]
      BY <1>1, <2>1, SubSeqProperties
    <3>2. QED
      BY <1>1, <1>5, <3>1
  <2>3. Len(earlier) # 0
    BY <1>1, <1>5, <2>2
  <2>4. QED
    BY <1>1, <1>5, <2>2, <2>3, EmptySeq DEF Last
<1> HIDE DEF earlier
<1>6. QED
  BY <1>2, <1>3, <1>4, <1>5 DEF HistoryEntryValid, PredecessorValid, MappingValid

\* A history that is valid again goes on as before.
LEMMA HistoryGoesOn ==
    ASSUME NEW S, NEW h \in Seq(S), NEW T, NEW g \in Seq(T), NEW year \in ContractYears,
           HistoryHolds(h), HistoryValid(g, year), Prolongs(g, h)
    PROVE  HistoryHolds(g)
<1>1. Len(h) \in Nat /\ Len(g) \in Nat
  BY LenProperties
<1>2. SUFFICES ASSUME NEW i \in 1 .. Len(g), NEW j \in 1 .. Len(g), i < j
               PROVE  /\ \A v \in 1 .. 2 : g[i].versions[v] <= g[j].versions[v]
                      /\ \/ StageRank(g[i].stage) <= StageRank(g[j].stage)
                         \/ \E k \in i .. (j - 1) : ProvenanceCorrection(g[k + 1], g[k])
  BY DEF HistoryHolds
<1>3. ASSUME NEW n \in 1 .. (Len(g) - 1), i < n
      PROVE  /\ \A v \in 1 .. 2 : g[i].versions[v] <= g[n].versions[v]
             /\ \/ StageRank(g[i].stage) <= StageRank(g[n].stage)
                \/ \E k \in i .. (n - 1) : ProvenanceCorrection(g[k + 1], g[k])
  <2>1. i \in 1 .. Len(h) /\ n \in 1 .. Len(h)
    BY <1>1, <1>3 DEF Prolongs
  <2>2. g[i] = h[i] /\ g[n] = h[n] /\ \A k \in i .. (n - 1) : g[k] = h[k] /\ g[k + 1] = h[k + 1]
    BY <1>1, <1>3 DEF Prolongs
  <2>3. /\ \A v \in 1 .. 2 : h[i].versions[v] <= h[n].versions[v]
        /\ \/ StageRank(h[i].stage) <= StageRank(h[n].stage)
           \/ \E k \in i .. (n - 1) : ProvenanceCorrection(h[k + 1], h[k])
    BY <1>3, <2>1 DEF HistoryHolds
  <2>4. QED
    BY <2>2, <2>3
<1>4. CASE j < Len(g)
  BY <1>1, <1>2, <1>3, <1>4
<1>5. CASE j = Len(g)
  <2> DEFINE n == j - 1
  <2>1. n \in 1 .. Len(g) /\ n + 1 = j /\ n = j - 1 /\ n \in i .. (j - 1) /\ j > 1
        /\ (i = n \/ (i < n /\ n \in 1 .. (Len(g) - 1)))
    BY <1>1, <1>2, <1>5
  <2> HIDE DEF n
  <2>2. /\ \A v \in 1 .. 2 : g[n].versions[v] \in Nat /\ g[j].versions[v] \in Nat
                             /\ g[i].versions[v] \in Nat /\ g[j].versions[v] >= g[n].versions[v]
        /\ {StageRank(g[i].stage), StageRank(g[n].stage), StageRank(g[j].stage)} \subseteq Nat
        /\ \/ StageRank(g[j].stage) >= StageRank(g[n].stage)
           \/ ProvenanceCorrection(g[j], g[n])
    <3>1. ASSUME NEW k \in {i, n, j}
          PROVE  StageRank(g[k].stage) \in Nat /\ \A v \in 1 .. 2 : g[k].versions[v] \in Nat
      BY <1>2, <2>1, EntryFacts
    <3>2. /\ \A v \in 1 .. 2 : g[j].versions[v] >= g[j - 1].versions[v]
          /\ \/ StageRank(g[j].stage) >= StageRank(g[j - 1].stage)
             \/ ProvenanceCorrection(g[j], g[j - 1])
      BY <1>2, <2>1, EntryFacts
    <3>3. QED
      BY <2>1, <3>1, <3>2
  <2>3. \A v \in 1 .. 2 : g[i].versions[v] <= g[j].versions[v]
    <3>1. \A v \in 1 .. 2 : g[i].versions[v] <= g[n].versions[v]
      <4>1. CASE i = n
        BY <2>2, <4>1
      <4>2. CASE i < n
        BY <1>3, <2>1, <4>2
      <4>3. QED
        BY <2>1, <4>1, <4>2
    <3>2. SUFFICES ASSUME NEW v \in 1 .. 2 PROVE g[i].versions[v] <= g[j].versions[v]
      OBVIOUS
    <3>3. /\ {g[i].versions[v], g[n].versions[v], g[j].versions[v]} \subseteq Nat
          /\ g[i].versions[v] <= g[n].versions[v] /\ g[j].versions[v] >= g[n].versions[v]
      BY <2>2, <3>1
    <3>4. QED
      BY <3>3
  <2>4. CASE ProvenanceCorrection(g[j], g[n])
    BY <2>1, <2>3, <2>4
  <2>5. CASE StageRank(g[j].stage) >= StageRank(g[n].stage)
    <3>1. CASE StageRank(g[i].stage) <= StageRank(g[n].stage)
      BY <2>2, <2>3, <2>5, <3>1
    <3>2. CASE i < n /\ \E k \in i .. (n - 1) : ProvenanceCorrection(g[k + 1], g[k])
      <4>1. \A k \in i .. (n - 1) : k \in i .. (j - 1)
        BY <1>1, <2>1
      <4>2. QED
        BY <2>3, <3>2, <4>1
    <3>3. QED
      BY <1>3, <2>1, <2>2, <3>1, <3>2
  <2>6. QED
    BY <2>2, <2>4, <2>5
<1>6. QED
  BY <1>1, <1>2, <1>4, <1>5

\* A contract that has a successor cannot be amended: the successor names its digest.
LEMMA Amended ==
    ASSUME NEW S, NEW h \in Seq(S), NEW year \in ContractYears, HistoryValid(h, year),
           NEW i \in DOMAIN h, NEW c, c # h[i], HistoryValid([h EXCEPT ![i] = c], year)
    PROVE  Prolongs([h EXCEPT ![i] = c], h)
<1> DEFINE g == [h EXCEPT ![i] = c]
<1>1. Len(h) \in Nat /\ DOMAIN h = 1 .. Len(h)
  BY LenProperties
<1>2. h \in Seq(S \cup {c}) /\ g \in Seq(S \cup {c}) /\ Len(g) = Len(h)
      /\ \A k \in 1 .. Len(h) : g[k] = IF k = i THEN c ELSE h[k]
  <2>1. h \in Seq(S \cup {c})
    BY <1>1, ElementOfSeq, SeqDef
  <2>2. QED
    BY <1>1, <2>1, ExceptSeq
<1> HIDE DEF g
<1>3. i = Len(h)
  <2>1. SUFFICES ASSUME i # Len(h) PROVE FALSE
    OBVIOUS
  <2> DEFINE n == i + 1
  <2>2. n \in 1 .. Len(h) /\ n > 1 /\ n - 1 = i /\ n # i
    BY <1>1, <2>1
  <2>3. h[n].predecessor = {h[n - 1]}
    BY <2>2, EntryFacts
  <2>4. HistoryValid(g, year)
    BY DEF g
  <2>5. g[n].predecessor = {g[n - 1]}
    BY <1>2, <2>2, <2>4, EntryFacts
  <2>6. QED
    BY <1>1, <1>2, <2>2, <2>3, <2>5
<1>4. Prolongs(g, h)
  BY <1>1, <1>2, <1>3 DEF Prolongs
<1>5. QED
  BY <1>4 DEF g

\* One change of the registry.
LEMMA RegistryChange ==
    ASSUME RegistryIsMap, RegistryNext
    PROVE  /\ RegistryValid(registry)
           /\ RegistryIsMap'
           /\ RegistryValid(registry') =>
                \A year \in ContractYears : Prolongs(registry'[year], registry[year])
<1>1. PICK changed \in ContractYears :
        AppendRevision(changed) \/ \E i \in 1 .. MaxRevisions : AmendRevision(changed, i)
  BY DEF RegistryNext
<1>2. RegistryValid(registry)
  BY <1>1 DEF AppendRevision, AmendRevision, RegistryEdit
<1>3. PICK S : registry[changed] \in Seq(S)
  BY DEF RegistryIsMap
<1>4. ASSUME NEW history, registry' = [registry EXCEPT ![changed] = history],
             NEW T, history \in Seq(T),
             HistoryValid(history, changed) => Prolongs(history, registry[changed])
      PROVE  /\ RegistryIsMap'
             /\ RegistryValid(registry') =>
                  \A year \in ContractYears : Prolongs(registry'[year], registry[year])
  <2>1. DOMAIN registry' = ContractYears
        /\ \A year \in ContractYears :
              registry'[year] = IF year = changed THEN history ELSE registry[year]
    BY <1>4 DEF RegistryIsMap
  <2>2. RegistryIsMap'
    BY <1>4, <2>1 DEF RegistryIsMap
  <2>3. ASSUME RegistryValid(registry'), NEW year \in ContractYears
        PROVE  Prolongs(registry'[year], registry[year])
    <3>1. CASE year = changed
      BY <1>4, <2>1, <2>3, <3>1 DEF RegistryValid, HistoryValid
    <3>2. CASE year # changed
      <4>1. PICK U : registry[year] \in Seq(U)
        BY DEF RegistryIsMap
      <4>2. QED
        BY <2>1, <3>2, <4>1, LenProperties DEF Prolongs
    <3>3. QED
      BY <3>1, <3>2
  <2>4. QED
    BY <2>2, <2>3
<1>5. CASE AppendRevision(changed)
  <2>1. PICK c : registry' = [registry EXCEPT ![changed] = Append(registry[changed], c)]
    BY <1>1, <1>5 DEF AppendRevision, RegistryIsMap
  <2> DEFINE history == Append(registry[changed], c)
  <2>2. registry[changed] \in Seq(S \cup {c})
    BY <1>3, ElementOfSeq, SeqDef
  <2>3. /\ history \in Seq(S \cup {c})
        /\ Len(registry[changed]) \in Nat /\ Len(history) = Len(registry[changed]) + 1
        /\ \A i \in 1 .. Len(registry[changed]) : history[i] = registry[changed][i]
    BY <2>2, AppendProperties, LenProperties
  <2> HIDE DEF history
  <2>4. Prolongs(history, registry[changed])
    BY <2>3 DEF Prolongs
  <2>5. registry' = [registry EXCEPT ![changed] = history]
    BY <2>1 DEF history
  <2>6. QED
    BY <1>2, <1>4, <2>3, <2>4, <2>5
<1>6. ASSUME NEW i \in 1 .. MaxRevisions, AmendRevision(changed, i)
      PROVE  /\ RegistryIsMap'
             /\ RegistryValid(registry') =>
                  \A year \in ContractYears : Prolongs(registry'[year], registry[year])
  <2>1. i \in DOMAIN registry[changed]
    BY <1>6 DEF AmendRevision
  <2>2. PICK c : c # registry[changed][i] /\ registry' = [registry EXCEPT ![changed][i] = c]
    BY <1>6 DEF AmendRevision
  <2> DEFINE history == [registry[changed] EXCEPT ![i] = c]
  <2>3. history \in Seq(S \cup {c})
    <3>1. registry[changed] \in Seq(S \cup {c})
      BY <1>3, ElementOfSeq, SeqDef
    <3>2. QED
      BY <2>1, <3>1, ExceptSeq, LenProperties
  <2>4. HistoryValid(registry[changed], changed)
    BY <1>2 DEF RegistryValid, HistoryValid
  <2>5. HistoryValid(history, changed) => Prolongs(history, registry[changed])
    BY <1>3, <2>1, <2>2, <2>4, Amended
  <2>6. registry' = [registry EXCEPT ![changed] = history]
    BY <2>2
  <2> HIDE DEF history
  <2>7. QED
    BY <1>4, <2>3, <2>5, <2>6
<1>7. QED
  BY <1>1, <1>2, <1>5, <1>6

LEMMA RegistryStep ==
    ASSUME RegistryInv, [Next]_algorithmVars
    PROVE  /\ RegistryInv'
           /\ part = "registry" /\ registry' # registry => SucceededStays
<1>1. CASE UNCHANGED <<part, registry>>
  BY <1>1 DEF RegistryInv, RegistryIsMap
<1>2. CASE part = "registry" /\ part' = part /\ RegistryNext
  <2>1. /\ RegistryValid(registry) /\ RegistryIsMap /\ RegistryIsMap'
        /\ RegistryValid(registry') =>
             \A year \in ContractYears : Prolongs(registry'[year], registry[year])
    BY <1>2, RegistryChange DEF RegistryInv
  <2>2. ASSUME RegistryValid(registry'), NEW year \in ContractYears
        PROVE  HistoryHolds(registry'[year])
    <3>1. PICK S : registry[year] \in Seq(S)
      BY <2>1 DEF RegistryIsMap
    <3>2. PICK T : registry'[year] \in Seq(T)
      BY <2>1 DEF RegistryIsMap
    <3>3. HistoryHolds(registry[year])
      BY <1>2, <2>1 DEF RegistryInv
    <3>4. HistoryValid(registry'[year], year)
      BY <2>2 DEF RegistryValid, HistoryValid
    <3>5. QED
      BY <2>1, <2>2, <3>1, <3>2, <3>3, <3>4, HistoryGoesOn
  <2>3. SucceededStays
    <3>1. SUFFICES ASSUME RegistryValid(registry'), NEW year \in ContractYears,
                          NEW i \in 1 .. (Len(registry[year]) - 1)
                   PROVE  registry'[year][i] = registry[year][i]
      BY DEF SucceededStays
    <3>2. PICK S : registry[year] \in Seq(S)
      BY <2>1 DEF RegistryIsMap
    <3>3. Len(registry[year]) \in Nat
      BY <3>2, LenProperties
    <3>4. QED
      BY <2>1, <3>1, <3>3 DEF Prolongs
  <2>4. QED
    BY <1>2, <2>1, <2>2, <2>3 DEF RegistryInv
<1>3. QED
  BY <1>1, <1>2 DEF Next, JoinFiles, BuildDocuments, BuildContext, RunReports, FindClusters,
     AuditDataset, AssessCity, Compute, algorithmVars, taskVars, deskVars, registryVars

LEMMA RegistryStarts == Init => RegistryInv
<1> SUFFICES ASSUME Init, part = "registry" PROVE RegistryInv
  BY DEF RegistryInv
<1>1. RegistryInit
  BY DEF Init
<1>2. ASSUME NEW year \in ContractYears
      PROVE  HistoryHolds(registry[year]) /\ \E S : registry[year] \in Seq(S)
  <2> DEFINE first  == FirstContract(year)
             second == ArfCorrection(first)
  <2>1. CASE year # ArfYear
    <3>1. registry[year] = <<first>> /\ Len(registry[year]) = 1 /\ registry[year] \in Seq({first})
      BY <1>1, <2>1 DEF RegistryInit
    <3>2. HistoryHolds(registry[year])
      BY <3>1 DEF HistoryHolds
    <3>3. QED
      BY <3>1, <3>2
  <2>2. CASE year = ArfYear
    <3>1. registry[year] = <<first, second>>
      BY <1>1, <2>2 DEF RegistryInit
    <3>2. /\ Len(registry[year]) = 2 /\ registry[year] \in Seq({first, second})
          /\ registry[year][1] = first /\ registry[year][2] = second
      BY <3>1
    <3>3. first.versions = <<1, 1>> /\ second.versions = first.versions
      BY DEF FirstContract, ArfCorrection
    <3>4. ProvenanceCorrection(second, first)
      <4>1. DOMAIN first = {"year", "revision", "predecessor", "review", "allowed", "id",
                            "profile", "stage", "versions", "raw"}
        BY DEF FirstContract
      <4>2. /\ second.year = first.year /\ second.profile = first.profile
            /\ second.versions = first.versions /\ second.raw = first.raw
            /\ second.allowed = {} /\ first.allowed = {}
        BY DEF FirstContract, ArfCorrection
      <4>3. first = FirstContract(ArfYear) /\ second = ArfCorrection(first)
        BY <2>2
      <4> HIDE DEF first, second
      <4>4. \A field \in DOMAIN first \ AllowedChanges : second[field] = first[field]
        BY <4>1, <4>2 DEF AllowedChanges
      <4>5. QED
        BY <4>3, <4>4 DEF ProvenanceCorrection
    <3> HIDE DEF first, second
    <3>5. HistoryHolds(registry[year])
      <4>1. SUFFICES ASSUME NEW i \in 1 .. 2, NEW j \in 1 .. 2, i < j
                     PROVE  /\ \A v \in 1 .. 2 : registry[year][i].versions[v] <= registry[year][j].versions[v]
                            /\ \E k \in i .. (j - 1) :
                                  ProvenanceCorrection(registry[year][k + 1], registry[year][k])
        BY <3>2 DEF HistoryHolds
      <4>2. i = 1 /\ j = 2
        BY <4>1
      <4>3. \A v \in 1 .. 2 : first.versions[v] = 1 /\ second.versions[v] = 1
        BY <3>3
      <4>4. 1 \in i .. (j - 1) /\ ProvenanceCorrection(registry[year][1 + 1], registry[year][1])
        BY <3>2, <3>4, <4>2
      <4>5. QED
        BY <3>2, <4>2, <4>3, <4>4
    <3>6. QED
      BY <3>2, <3>5
  <2>3. QED
    BY <2>1, <2>2
<1>3. DOMAIN registry = ContractYears
  BY <1>1 DEF RegistryInit
<1>4. QED
  BY <1>2, <1>3 DEF RegistryInv, RegistryIsMap

LEMMA RegistryKeeps == ASSUME RegistryInv, part = "registry" PROVE RegistryHolds
<1>1. SUFFICES ASSUME RegistryValid(registry) PROVE RegistryHolds
  BY DEF RegistryHolds
<1>2. RegistryIsMap /\ \A year \in ContractYears : HistoryHolds(registry[year])
  BY <1>1 DEF RegistryInv
<1>3. ASSUME NEW year \in ContractYears
      PROVE  /\ DOMAIN registry[year] = 1 .. Len(registry[year])
             /\ Len(registry[year]) \in DOMAIN registry[year]
             /\ \A i \in DOMAIN registry[year] :
                   registry[year][i].year = year /\ registry[year][i].revision = i
  <2>1. PICK S : registry[year] \in Seq(S)
    BY <1>2 DEF RegistryIsMap
  <2>2. HistoryValid(registry[year], year)
    BY <1>1 DEF RegistryValid, HistoryValid
  <2>3. DOMAIN registry[year] = 1 .. Len(registry[year]) /\ Len(registry[year]) \in Nat \ {0}
    BY <2>1, <2>2, LenProperties, EmptySeq DEF HistoryValid
  <2>4. QED
    BY <2>1, <2>2, <2>3, EntryFacts
<1>4. ASSUME NEW year \in ContractYears, NEW i \in DOMAIN registry[year],
             NEW j \in DOMAIN registry[year], i < j
      PROVE  /\ \A v \in 1 .. 2 : registry[year][i].versions[v] <= registry[year][j].versions[v]
             /\ \/ StageRank(registry[year][i].stage) <= StageRank(registry[year][j].stage)
                \/ \E k \in i .. (j - 1) :
                      ProvenanceCorrection(registry[year][k + 1], registry[year][k])
  <2>1. HistoryHolds(registry[year]) /\ i \in 1 .. Len(registry[year])
        /\ j \in 1 .. Len(registry[year])
    BY <1>2, <1>3
  <2>2. QED
    BY <1>4, <2>1 DEF HistoryHolds
<1>5. ASSUME NEW archive \in Archives
      PROVE  Cardinality({year \in ContractYears :
                IdentifiesArchive(YearContract(year), archive)}) <= 1
  <2> DEFINE years == {year \in ContractYears : IdentifiesArchive(YearContract(year), archive)}
  <2>1. ASSUME NEW y \in years, NEW z \in years PROVE y = z
    <3> DEFINE p == <<y, Len(registry[y])>>
               q == <<z, Len(registry[z])>>
    <3>1. p \in Contracts(registry) /\ q \in Contracts(registry)
      BY <1>3 DEF Contracts
    <3>2. registry[p[1]][p[2]].raw = archive /\ registry[q[1]][q[2]].raw = archive
      BY DEF IdentifiesArchive, YearContract, Last
    <3>3. p[1] = q[1]
      BY <1>1, <3>1, <3>2 DEF RegistryValid, IdentitiesHold
    <3>4. QED
      BY <3>3
  <2> HIDE DEF years
  <2>2. CASE years = {}
    BY <2>2, FS_EmptySet DEF years
  <2>3. ASSUME NEW y \in years PROVE Cardinality(years) <= 1
    <3>1. years = {y}
      BY <2>1, <2>3
    <3>2. Cardinality({y}) = 1
      BY FS_Singleton
    <3>3. QED
      BY <3>1, <3>2
  <2>4. QED
    BY <2>2, <2>3 DEF years
<1>6. ASSUME NEW p \in Contracts(registry)
      PROVE  ContractOf(registry[p[1]][p[2]]) = {registry[p[1]][p[2]]}
  <2>1. p[1] \in ContractYears /\ p[2] \in DOMAIN registry[p[1]]
    BY DEF Contracts
  <2>2. registry[p[1]][p[2]].year = p[1] /\ registry[p[1]][p[2]].revision = p[2]
    BY <1>3, <2>1
  <2>3. QED
    BY <2>2 DEF ContractOf
<1>7. QED
  BY <1>4, <1>5, <1>6 DEF RegistryHolds

-----------------------------------------------------------------------------
(* The preregistration.                                                    *)

PreregFields == {"artifact", "manifest", "scored", "job", "commands"}

\* What a score says of the segments that were flagged.
ScoreHolds(score, flagged) ==
    /\ score.hits + Cardinality(score.missed) + Cardinality(score.unevaluable) = Cardinality(flagged)
    /\ score.flagged = Cardinality(flagged) /\ score.missed \cup score.unevaluable \subseteq flagged
    /\ \A s \in score.missed : ~score.held[s].significant /\ score.held[s].rate # {}

\* A job writes a day that has no artifact, and then the manifest of the artifact it wrote.
JobHolds(p) ==
    p.job # Idle =>
        LET r == p.job.registration IN
        /\ {"step", "registration"} \subseteq DOMAIN p.job
        /\ r.day \in RegistrationDays /\ Whole(r) /\ IsFiniteSet(DOMAIN r.predicted)
        /\ p.job.step = "artifact" => p.artifact[r.day] = Missing
        /\ p.job.step = "manifest" => p.artifact[r.day] = r

DayHolds(p, day) ==
    /\ Whole(p.artifact[day]) => IsFiniteSet(DOMAIN p.artifact[day].predicted)
    /\ Whole(p.manifest[day]) => Whole(p.artifact[day]) /\ p.manifest[day] = p.artifact[day]
    /\ p.scored[day] # Missing =>
          /\ Whole(p.artifact[day])
          /\ ScoreHolds(p.scored[day], DOMAIN p.artifact[day].predicted)

PreregHolds(p) ==
    /\ PreregFields \subseteq DOMAIN p
    /\ \A day \in RegistrationDays :
          day \in DOMAIN p.artifact /\ day \in DOMAIN p.manifest /\ day \in DOMAIN p.scored
    /\ JobHolds(p)
    /\ \A day \in RegistrationDays : DayHolds(p, day)

PreregInv == part = "preregistration" => PreregHolds(prereg)

\* The three fates of a flagged segment are told apart, and none is left out.
LEMMA ScoresAddUp ==
    ASSUME NEW registration, IsFiniteSet(DOMAIN registration.predicted), NEW held,
           ScoreRegistration(registration, held) # Missing
    PROVE  ScoreHolds(ScoreRegistration(registration, held), DOMAIN registration.predicted)
<1> DEFINE flagged   == DOMAIN registration.predicted
           evaluable == {s \in flagged \cap DOMAIN held : held[s].publishable /\ held[s].rate # {}}
           hits      == {s \in evaluable : held[s].significant}
           score     == ScoreRegistration(registration, held)
<1>1. score = [flagged |-> Cardinality(flagged), hits |-> Cardinality(hits),
               missed |-> evaluable \ hits, unevaluable |-> flagged \ evaluable, held |-> held]
  BY DEF ScoreRegistration
<1>2. evaluable \subseteq flagged /\ hits \subseteq evaluable /\ IsFiniteSet(flagged)
      /\ \A s \in evaluable \ hits : ~held[s].significant /\ held[s].rate # {}
  OBVIOUS
<1> HIDE DEF flagged, evaluable, hits, score
<1>3. IsFiniteSet(evaluable) /\ IsFiniteSet(hits)
  BY <1>2, FS_Subset
<1>4. /\ Cardinality(evaluable \ hits) = Cardinality(evaluable) - Cardinality(hits)
      /\ Cardinality(flagged \ evaluable) = Cardinality(flagged) - Cardinality(evaluable)
  <2>1. evaluable \cap hits = hits /\ flagged \cap evaluable = evaluable
    BY <1>2
  <2>2. Cardinality(evaluable \ hits) = Cardinality(evaluable) - Cardinality(evaluable \cap hits)
    BY <1>3, FS_Difference
  <2>3. Cardinality(flagged \ evaluable) = Cardinality(flagged) - Cardinality(flagged \cap evaluable)
    BY <1>2, FS_Difference
  <2>4. QED
    BY <2>1, <2>2, <2>3
<1>5. {Cardinality(flagged), Cardinality(evaluable), Cardinality(hits)} \subseteq Nat
  BY <1>2, <1>3, FS_CardinalityType
<1>6. ScoreHolds(score, flagged)
  BY <1>1, <1>2, <1>4, <1>5 DEF ScoreHolds
<1>7. QED
  BY <1>6 DEF score, flagged

\* What was written whole stays, and a day whose files stay keeps what they promise.
LEMMA PreregStep ==
    ASSUME PreregInv, [Next]_algorithmVars
    PROVE  /\ PreregInv'
           /\ part = "preregistration" => PredictionFrozen
<1>1. CASE UNCHANGED <<part, prereg>>
  <2>1. PreregInv'
    BY <1>1 DEF PreregInv
  <2>2. PredictionFrozen
    BY <1>1 DEF PredictionFrozen
  <2>3. QED
    BY <2>1, <2>2
<1>2. CASE part = "preregistration" /\ part' = part /\ PreregNext
  <2>1. PreregHolds(prereg)
    BY <1>2 DEF PreregInv
  <2>2. /\ PreregFields \subseteq DOMAIN prereg /\ JobHolds(prereg)
        /\ \A day \in RegistrationDays : DayHolds(prereg, day)
        /\ \A day \in RegistrationDays : /\ day \in DOMAIN prereg.artifact
                                         /\ day \in DOMAIN prereg.manifest
                                         /\ day \in DOMAIN prereg.scored
    BY <2>1 DEF PreregHolds
  <2> SUFFICES PreregHolds(prereg') /\ PredictionFrozen
    BY DEF PreregInv
  <2>3. ASSUME NEW bundle \in Bundles, NEW signoff, NEW day \in RegistrationDays,
               Preregister(bundle, signoff, day)
        PROVE  PreregHolds(prereg') /\ PredictionFrozen
    <3> DEFINE r   == BuildRegistration(bundle, signoff, day)
               job == [step |-> "artifact", registration |-> r]
    <3>1. /\ PreregFields \subseteq DOMAIN prereg' /\ prereg'.job = job
          /\ prereg'.artifact = prereg.artifact /\ prereg'.manifest = prereg.manifest
          /\ prereg'.scored = prereg.scored /\ prereg.artifact[day] = Missing
      BY <2>2, <2>3 DEF Preregister, Command, PreregFields
    <3>2. r.day = day /\ Whole(r) /\ IsFiniteSet(DOMAIN r.predicted)
      <4>1. FlaggedSegments(bundle) \subseteq DOMAIN bundle
        BY DEF FlaggedSegments
      <4>2. IsFiniteSet(FlaggedSegments(bundle))
        BY <4>1, PreregistrationAssumption, FS_Subset
      <4>3. QED
        BY <4>2 DEF BuildRegistration, Whole, Missing, Torn
    <3> HIDE DEF r
    <3>3. JobHolds(prereg')
      BY <3>1, <3>2 DEF JobHolds
    <3>4. \A d \in RegistrationDays : DayHolds(prereg', d)
      BY <2>2, <3>1 DEF DayHolds
    <3>5. QED
      BY <2>2, <3>1, <3>3, <3>4 DEF PreregHolds, PredictionFrozen
  <2>4. CASE WriteArtifact
    <3> DEFINE r == prereg.job.registration
    <3>1. prereg.job # Idle /\ prereg.job.step = "artifact"
      BY <2>4 DEF WriteArtifact, Idle
    <3>2. /\ {"step", "registration"} \subseteq DOMAIN prereg.job
          /\ r.day \in RegistrationDays /\ Whole(r) /\ IsFiniteSet(DOMAIN r.predicted)
          /\ prereg.artifact[r.day] = Missing
      BY <2>2, <3>1 DEF JobHolds
    <3>3. prereg' = [prereg EXCEPT !.artifact[r.day] = r, !.job.step = "manifest"]
      BY <2>4 DEF WriteArtifact
    <3>4. /\ PreregFields \subseteq DOMAIN prereg'
          /\ prereg'.artifact = [prereg.artifact EXCEPT ![r.day] = r]
          /\ prereg'.job = [prereg.job EXCEPT !.step = "manifest"]
          /\ prereg'.manifest = prereg.manifest /\ prereg'.scored = prereg.scored
      BY <2>2, <3>3 DEF PreregFields
    <3>5. prereg'.job.step = "manifest" /\ prereg'.job.registration = r
          /\ {"step", "registration"} \subseteq DOMAIN prereg'.job
      BY <3>2, <3>4
    <3> HIDE DEF r
    <3>6. /\ prereg'.artifact[r.day] = r
          /\ \A d \in RegistrationDays : d \in DOMAIN prereg'.artifact
          /\ \A d \in RegistrationDays \ {r.day} : prereg'.artifact[d] = prereg.artifact[d]
      BY <2>2, <3>2, <3>4
    <3>7. JobHolds(prereg')
      BY <3>2, <3>5, <3>6 DEF JobHolds
    <3>8. ASSUME NEW d \in RegistrationDays PROVE DayHolds(prereg', d)
      <4>1. CASE d = r.day
        <5>1. ~Whole(prereg.manifest[d]) /\ prereg.scored[d] = Missing
          BY <2>2, <3>2, <4>1 DEF DayHolds, Whole
        <5>2. QED
          BY <3>2, <3>4, <3>6, <4>1, <5>1 DEF DayHolds
      <4>2. CASE d # r.day
        BY <2>2, <3>4, <3>6, <4>2 DEF DayHolds
      <4>3. QED
        BY <4>1, <4>2
    <3>9. PredictionFrozen
      BY <3>2, <3>6 DEF PredictionFrozen, Whole
    <3>10. QED
      BY <2>2, <3>4, <3>6, <3>7, <3>8, <3>9 DEF PreregHolds
  <2>5. CASE WriteManifest
    <3> DEFINE r == prereg.job.registration
    <3>1. prereg.job # Idle /\ prereg.job.step = "manifest"
      BY <2>5 DEF WriteManifest, Idle
    <3>2. r.day \in RegistrationDays /\ Whole(r) /\ prereg.artifact[r.day] = r
      BY <2>2, <3>1 DEF JobHolds
    <3>3. prereg' = [prereg EXCEPT !.manifest[r.day] = r, !.job = Idle]
      BY <2>5 DEF WriteManifest
    <3>4. /\ PreregFields \subseteq DOMAIN prereg' /\ prereg'.job = Idle
          /\ prereg'.manifest = [prereg.manifest EXCEPT ![r.day] = r]
          /\ prereg'.artifact = prereg.artifact /\ prereg'.scored = prereg.scored
      BY <2>2, <3>3 DEF PreregFields
    <3> HIDE DEF r
    <3>5. /\ prereg'.manifest[r.day] = r
          /\ \A d \in RegistrationDays : d \in DOMAIN prereg'.manifest
          /\ \A d \in RegistrationDays \ {r.day} : prereg'.manifest[d] = prereg.manifest[d]
      BY <2>2, <3>2, <3>4
    <3>6. ASSUME NEW d \in RegistrationDays PROVE DayHolds(prereg', d)
      <4>1. CASE d = r.day
        BY <2>2, <3>2, <3>4, <3>5, <4>1 DEF DayHolds
      <4>2. CASE d # r.day
        BY <2>2, <3>4, <3>5, <4>2 DEF DayHolds
      <4>3. QED
        BY <4>1, <4>2
    <3>7. QED
      BY <2>2, <3>4, <3>5, <3>6 DEF PreregHolds, PredictionFrozen, JobHolds
  <2>6. CASE KillCommand
    <3> DEFINE r == prereg.job.registration
    <3>1. prereg.job # Idle
      BY <2>6 DEF KillCommand
    <3>2. /\ r.day \in RegistrationDays
          /\ prereg.job.step = "artifact" => prereg.artifact[r.day] = Missing
      BY <2>2, <3>1 DEF JobHolds
    <3>3. PICK artifact, manifest :
            /\ \/ artifact = prereg.artifact
               \/ prereg.job.step = "artifact" /\ artifact = [prereg.artifact EXCEPT ![r.day] = Torn]
            /\ \/ manifest = prereg.manifest
               \/ manifest = [prereg.manifest EXCEPT ![r.day] = Torn]
            /\ PreregFields \subseteq DOMAIN prereg' /\ prereg'.job = Idle
            /\ prereg'.artifact = artifact /\ prereg'.manifest = manifest
            /\ prereg'.scored = prereg.scored
      <4> DEFINE killed == [prereg EXCEPT !.job = Idle]
      <4>1. /\ PreregFields \subseteq DOMAIN killed /\ killed.job = Idle
            /\ killed.artifact = prereg.artifact /\ killed.manifest = prereg.manifest
            /\ killed.scored = prereg.scored
        BY <2>2 DEF PreregFields
      <4>2. \/ prereg' = killed
            \/ prereg.job.step = "artifact" /\ prereg' = [killed EXCEPT !.artifact[r.day] = Torn]
            \/ prereg.job.step = "manifest" /\ prereg' = [killed EXCEPT !.manifest[r.day] = Torn]
        BY <2>6 DEF KillCommand
      <4> HIDE DEF killed, r
      <4>3. CASE prereg' = killed
        BY <4>1, <4>3
      <4>4. CASE prereg.job.step = "artifact" /\ prereg' = [killed EXCEPT !.artifact[r.day] = Torn]
        <5>1. /\ PreregFields \subseteq DOMAIN prereg' /\ prereg'.job = Idle
              /\ prereg'.artifact = [prereg.artifact EXCEPT ![r.day] = Torn]
              /\ prereg'.manifest = prereg.manifest /\ prereg'.scored = prereg.scored
          BY <4>1, <4>4 DEF PreregFields
        <5>2. QED
          BY <4>4, <5>1
      <4>5. CASE prereg' = [killed EXCEPT !.manifest[r.day] = Torn]
        <5>1. /\ PreregFields \subseteq DOMAIN prereg' /\ prereg'.job = Idle
              /\ prereg'.manifest = [prereg.manifest EXCEPT ![r.day] = Torn]
              /\ prereg'.artifact = prereg.artifact /\ prereg'.scored = prereg.scored
          BY <4>1, <4>5 DEF PreregFields
        <5>2. QED
          BY <5>1
      <4>6. QED
        BY <4>2, <4>3, <4>4, <4>5
    <3> HIDE DEF r
    <3>4. ASSUME NEW d \in RegistrationDays
          PROVE  /\ d \in DOMAIN artifact /\ d \in DOMAIN manifest
                 /\ \/ artifact[d] = prereg.artifact[d]
                    \/ artifact[d] = Torn /\ prereg.artifact[d] = Missing
                 /\ manifest[d] \in {prereg.manifest[d], Torn}
      BY <2>2, <3>2, <3>3
    <3>5. ASSUME NEW d \in RegistrationDays PROVE DayHolds(prereg', d)
      BY <2>2, <3>3, <3>4 DEF DayHolds, Whole
    <3>6. PredictionFrozen
      BY <3>3, <3>4 DEF PredictionFrozen, Whole
    <3>7. QED
      BY <2>2, <3>3, <3>4, <3>5, <3>6 DEF PreregHolds, JobHolds
  <2>7. ASSUME NEW held \in Bundles, NEW day \in RegistrationDays, ScorePreregistration(day, held)
        PROVE  PreregHolds(prereg') /\ PredictionFrozen
    <3> DEFINE score == ScoreRegistration(prereg.artifact[day], held)
    <3>1. /\ prereg.job = Idle /\ Whole(prereg.artifact[day]) /\ score # Missing
          /\ PreregFields \subseteq DOMAIN prereg' /\ prereg'.job = Idle
          /\ prereg'.scored = [prereg.scored EXCEPT ![day] = score]
          /\ prereg'.artifact = prereg.artifact /\ prereg'.manifest = prereg.manifest
      BY <2>2, <2>7 DEF ScorePreregistration, PreregFields
    <3>2. ScoreHolds(score, DOMAIN prereg.artifact[day].predicted)
      BY <2>2, <3>1, ScoresAddUp DEF DayHolds
    <3> HIDE DEF score
    <3>3. /\ prereg'.scored[day] = score
          /\ \A d \in RegistrationDays : d \in DOMAIN prereg'.scored
          /\ \A d \in RegistrationDays \ {day} : prereg'.scored[d] = prereg.scored[d]
      BY <2>2, <3>1
    <3>4. ASSUME NEW d \in RegistrationDays PROVE DayHolds(prereg', d)
      <4>1. CASE d = day
        BY <2>2, <3>1, <3>2, <3>3, <4>1 DEF DayHolds
      <4>2. CASE d # day
        BY <2>2, <3>1, <3>3, <4>2 DEF DayHolds
      <4>3. QED
        BY <4>1, <4>2
    <3>5. QED
      BY <2>2, <3>1, <3>3, <3>4 DEF PreregHolds, PredictionFrozen, JobHolds
  <2>8. QED
    BY <1>2, <2>3, <2>4, <2>5, <2>6, <2>7 DEF PreregNext
<1>3. QED
  BY <1>1, <1>2 DEF Next, JoinFiles, BuildDocuments, BuildContext, RunReports, FindClusters,
     AuditDataset, AssessCity, Compute, algorithmVars, taskVars, deskVars

LEMMA PreregStarts == Init => PreregInv
<1> SUFFICES ASSUME Init, part = "preregistration" PROVE PreregHolds(prereg)
  BY DEF PreregInv
<1>1. PreregInit
  BY DEF Init
<1> DEFINE nothing == [day \in RegistrationDays |-> Missing]
<1>2. prereg = [artifact |-> nothing, manifest |-> nothing, scored |-> nothing,
                job |-> Idle, commands |-> 0]
  BY <1>1 DEF PreregInit
<1>3. QED
  BY <1>2 DEF PreregHolds, PreregFields, JobHolds, DayHolds, Whole

\* What was published, registered or predicted is not replaced (ReleasesKeepHistory,
\* fars_county_public_index.py; CountsStayPublished, fars_public_index.py; RegistryHolds and
\* SucceededStays, fars_year_contracts.py; PredictionsHold and PredictionFrozen, preregister.py).
THEOREM ReleasesStay == Spec => PublicReleasesHold
<1>1. Init => CountyInv /\ RegistryInv /\ PreregInv
  <2>1. Init => released = Absent
    BY DEF Init, CountyInit
  <2>2. QED
    BY <2>1, RegistryStarts, PreregStarts DEF CountyInv
<1>2. CountyInv /\ RegistryInv /\ PreregInv /\ [Next]_algorithmVars
        => CountyInv' /\ RegistryInv' /\ PreregInv'
  BY CountyStep, RegistryStep, PreregStep
<1>3. CountyInv /\ [Next]_algorithmVars =>
        [released' # released =>
           /\ released'.values[released'.active].boundary = released'.boundary
           /\ \A c \in released'.ledger : "geometry" \notin c.impact
           /\ released # Absent =>
                \A c \in released.ledger \cap released'.ledger :
                  /\ released'.boundary = released.boundary
                  /\ \A r \in {c.prior.rev, c.replacement.rev} :
                       released'.values[r] = released.values[r] /\ released.values[r] # Absent]_countyVars
  BY ReleasedAgain
<1>4. [Next]_algorithmVars =>
        [accepted' # accepted =>
           /\ DOMAIN accepted'.current = PublishedYears
           /\ \A y \in PublishedYears :
                /\ accepted'.current[y].counts = PublishedCounts
                /\ accepted'.annual[<<y, 1>>] = PublishedCounts
           /\ PageValidatesIndex(accepted'.current)]_releaseVars
  BY AcceptedAgain
<1>5. [Next]_algorithmVars =>
        [corrections' # corrections
           /\ (\A y \in PublishedYears : annual[<<y, 1>>] = PublishedCounts)
           /\ OnDisk = (PublishedYears \X {1}) \cup {<<CorrectedYear, 2>>}
         => ReleaseVerifies']_releaseVars
  BY LedgerVerifies
<1>6. RegistryInv => (part = "registry" => RegistryHolds)
  BY RegistryKeeps
<1>7. RegistryInv /\ [Next]_algorithmVars => [part = "registry" => SucceededStays]_registry
  BY RegistryStep
<1>8. PreregInv => (part = "preregistration" => PredictionsHold)
  BY DEF PreregInv, PreregHolds, DayHolds, ScoreHolds, PredictionsHold, VerifyRegistration
<1>9. PreregInv /\ [Next]_algorithmVars => [part = "preregistration" => PredictionFrozen]_prereg
  BY PreregStep
<1>10. QED
  BY <1>1, <1>2, <1>3, <1>4, <1>5, <1>6, <1>7, <1>8, <1>9, PTL
     DEF Spec, PublicReleasesHold, ReleasesKeepHistory, CountsStayPublished

-----------------------------------------------------------------------------
(* The national page.                                                      *)

\* What a view holds before it is drawn, and what it holds on the screen.  A comparison that is left
\* out of the link follows the state: on the screen it is California's only with California or with
\* no state selected.
LooseViews ==
  [year : AtlasYears, panel : {"map", "rank", "compare"}, level : {"national", "state"},
   primary : AtlasModes, secondary : AtlasModes, state : AtlasStates \cup {Nowhere},
   a : AtlasStates \cup {Nowhere}, b : AtlasStates \cup {Nowhere},
   scale : {"linear", "log"}, saved : Briefs]

Follows(v) == v.state # Nowhere /\ v.a = "CA" => v.state = "CA"

ShownViews ==
  {v \in LooseViews : /\ v.level = "state" => v.state # Nowhere
                      /\ v.a # Nowhere /\ v.b # Nowhere /\ v.a # v.b
                      /\ v.primary # v.secondary /\ Follows(v)}

LEMMA AtlasNamesAre ==
    /\ {"CA", "TX"} \subseteq AtlasStates /\ {"pedalcyclist", "pedestrian"} \subseteq AtlasModes
    /\ "" \notin AtlasStates /\ "" \notin AtlasModes
    /\ "omitted" \notin AtlasStates /\ "omitted" \notin AtlasModes
BY AtlasAssumption DEF AtlasAssumption, Nowhere, Omitted

LEMMA DrawnShows ==
    ASSUME NEW v \in LooseViews, Follows(v)
    PROVE  /\ Normalize(v) \in ShownViews
           /\ v \in ShownViews => Normalize(v) = v
<1> USE AtlasNamesAre DEF Nowhere
<1> DEFINE w == Normalize(v)
<1>1. /\ w = [v EXCEPT !.level = w.level, !.a = w.a, !.b = w.b, !.secondary = w.secondary]
      /\ w.level = IF v.state = "" THEN "national" ELSE v.level
      /\ w.secondary = SecondaryMode(v.primary, v.secondary)
  BY DEF Normalize, LooseViews
<1>2. w.a = IF v.a # "" THEN v.a ELSE IF v.state # "" THEN v.state ELSE "CA"
  BY DEF Normalize, LooseViews
<1>3. w.a \in AtlasStates /\ Follows(w)
  BY <1>1, <1>2 DEF Follows, LooseViews
<1>4. w.b \in AtlasStates /\ w.b # w.a /\ (v.b # "" /\ v.b # w.a => w.b = v.b)
  BY <1>3 DEF Normalize, LooseViews
<1>5. w.secondary \in AtlasModes /\ w.secondary # v.primary /\ (v.secondary # v.primary => w.secondary = v.secondary)
  BY <1>1 DEF SecondaryMode, LooseViews
<1> HIDE DEF w
<1>6. w \in ShownViews
  BY <1>1, <1>3, <1>4, <1>5 DEF ShownViews, LooseViews
<1>7. ASSUME v \in ShownViews PROVE w = v
  <2>1. w.level = v.level /\ w.a = v.a /\ w.b = v.b /\ w.secondary = v.secondary
    BY <1>1, <1>2, <1>4, <1>5, <1>7 DEF ShownViews, LooseViews
  <2>2. v = [v EXCEPT !.level = v.level, !.a = v.a, !.b = v.b, !.secondary = v.secondary]
    BY DEF LooseViews
  <2>3. QED
    BY <1>1, <2>1, <2>2
<1>8. QED
  BY <1>6, <1>7 DEF w

LEMMA Told ==
    ASSUME NEW value, NEW default, value # "omitted", value # "" \/ default = ""
    PROVE  Given(Omit(value, default), default) = value
BY DEF Given, Omit, Omitted, Nowhere

LEMMA LinkTells ==
    ASSUME NEW v \in LooseViews
    PROVE  LET w == RestoreView(ViewLink(v))
           IN  /\ w \in LooseViews /\ Follows(w)
               /\ Follows(v) => Normalize(w) = Normalize(v)
<1> USE AtlasNamesAre DEF Nowhere, Omitted
<1> DEFINE l == ViewLink(v)
           w == RestoreView(l)
<1>1. /\ l.year = v.year /\ l.saved = v.saved
      /\ l.panel = Omit(v.panel, "map") /\ l.level = Omit(v.level, "national")
      /\ l.primary = Omit(v.primary, "pedalcyclist") /\ l.secondary = Omit(v.secondary, "pedestrian")
      /\ l.state = Omit(v.state, "") /\ l.a = Omit(v.a, "CA") /\ l.b = Omit(v.b, "TX")
      /\ l.scale = Omit(v.scale, "linear")
  BY DEF ViewLink
<1> HIDE DEF l
<1>2. /\ w = [year |-> l.year, panel |-> Given(l.panel, "map"), level |-> Given(l.level, "national"),
              primary |-> Given(l.primary, "pedalcyclist"),
              secondary |-> Given(l.secondary, "pedestrian"), state |-> Given(l.state, ""),
              a |-> Given(l.a, Given(l.state, "")), b |-> Given(l.b, ""),
              scale |-> Given(l.scale, "linear"), saved |-> l.saved]
  BY DEF RestoreView
<1>3. /\ Given(l.panel, "map") = v.panel /\ Given(l.level, "national") = v.level
      /\ Given(l.primary, "pedalcyclist") = v.primary
      /\ Given(l.secondary, "pedestrian") = v.secondary
      /\ Given(l.state, "") = v.state /\ Given(l.scale, "linear") = v.scale
  <2>1. /\ v.panel \notin {"", "omitted"} /\ v.level \notin {"", "omitted"}
        /\ v.primary \notin {"", "omitted"} /\ v.secondary \notin {"", "omitted"}
        /\ v.state # "omitted" /\ v.scale \notin {"", "omitted"}
    BY DEF LooseViews
  <2>2. Given(Omit(v.panel, "map"), "map") = v.panel
    BY DEF LooseViews, Given, Omit, Omitted
  <2>7. Given(Omit(v.level, "national"), "national") = v.level
    BY DEF LooseViews, Given, Omit, Omitted
  <2>4. /\ Given(Omit(v.primary, "pedalcyclist"), "pedalcyclist") = v.primary
        /\ Given(Omit(v.secondary, "pedestrian"), "pedestrian") = v.secondary
    BY <2>1, Told
  <2>5. Given(Omit(v.state, ""), "") = v.state
    BY <2>1, Told
  <2>6. Given(Omit(v.scale, "linear"), "linear") = v.scale
    BY DEF LooseViews, Given, Omit, Omitted
  <2> HIDE DEF w
  <2>3. QED
    BY <1>1, <2>2, <2>4, <2>5, <2>6, <2>7, Zenon
<1> DEFINE a == IF v.a \in {"CA", ""} THEN v.state ELSE v.a
           b == IF v.b \in {"TX", ""} THEN "" ELSE v.b
<1>7. Given(l.a, Given(l.state, "")) = a /\ Given(l.b, "") = b
  <2>1. v.a # "omitted" /\ v.b # "omitted"
    BY DEF LooseViews
  <2>2. QED
    BY <1>1, <1>3, <2>1 DEF Omit, Given
<1>8. w = [year |-> v.year, panel |-> v.panel, level |-> v.level, primary |-> v.primary,
           secondary |-> v.secondary, state |-> v.state, a |-> a, b |-> b,
           scale |-> v.scale, saved |-> v.saved]
  <2> HIDE DEF a, b, w
  <2>1. QED
    BY <1>1, <1>2, <1>3, <1>7
<1>9. w = [v EXCEPT !.a = a, !.b = b]
  <2> HIDE DEF a, b, w
  <2> DEFINE z == [v EXCEPT !.a = a, !.b = b]
  <2>1. /\ z = [z EXCEPT !.year = v.year] /\ z.year = v.year /\ z.panel = v.panel /\ z.level = v.level
        /\ z.primary = v.primary /\ z.secondary = v.secondary /\ z.state = v.state
        /\ z.a = a /\ z.b = b /\ z.scale = v.scale /\ z.saved = v.saved
        /\ DOMAIN z = {"year", "panel", "level", "primary", "secondary", "state", "a", "b", "scale", "saved"}
    BY DEF LooseViews
  <2> HIDE DEF z
  <2>2. z = w
    BY <1>8, <2>1
  <2>3. QED
    BY <2>2 DEF z
<1> HIDE DEF w
<1>4. w \in LooseViews /\ Follows(w)
  <2>1. a \in AtlasStates \cup {""} /\ b \in AtlasStates \cup {""} /\ (v.state # "" /\ a = "CA" => v.state = "CA")
    BY DEF LooseViews
  <2> HIDE DEF a, b
  <2>2. QED
    BY <1>9, <2>1 DEF LooseViews, Follows
<1>5. ASSUME Follows(v) PROVE Normalize(w) = Normalize(v)
  <2> DEFINE first(z) == CASE z.a # "" -> z.a [] z.a = "" /\ z.state # "" -> z.state [] OTHER -> "CA"
             second(z) == LET t == IF z.b = "" THEN "TX" ELSE z.b
                          IN CASE t # first(z) -> t [] t = first(z) /\ first(z) = "TX" -> "CA"
                               [] OTHER -> "TX"
  <2>1. \A z \in {v, w} :
          Normalize(z) = [z EXCEPT !.level = IF z.state = "" THEN "national" ELSE z.level,
                                   !.a = first(z), !.b = second(z),
                                   !.secondary = SecondaryMode(z.primary, z.secondary)]
    BY DEF Normalize
  <2>2. first(w) = first(v) /\ second(w) = second(v)
    BY <1>5, <1>9 DEF Follows, LooseViews
  <2> HIDE DEF first, second, a, b
  <2>3. w.state = v.state /\ w.level = v.level /\ w.primary = v.primary /\ w.secondary = v.secondary
    BY <1>9 DEF LooseViews
  <2>4. [w EXCEPT !.level = IF v.state = "" THEN "national" ELSE v.level, !.a = first(v), !.b = second(v),
                  !.secondary = SecondaryMode(v.primary, v.secondary)]
          = [v EXCEPT !.level = IF v.state = "" THEN "national" ELSE v.level, !.a = first(v), !.b = second(v),
                      !.secondary = SecondaryMode(v.primary, v.secondary)]
    BY <1>9 DEF LooseViews
  <2>5. QED
    BY <2>1, <2>2, <2>3, <2>4
<1>6. QED
  BY <1>4, <1>5 DEF w, l

LEMMA BriefsAre ==
    ASSUME NEW s
    PROVE  s \in Briefs <=> /\ s \in Seq(AtlasStates) /\ Len(s) <= MaxSaved
                            /\ \A i, j \in 1 .. Len(s) : s[i] = s[j] => i = j
<1>1. MaxSaved \in Nat
  BY AtlasAssumption DEF AtlasAssumption
<1>2. ASSUME s \in Briefs
      PROVE  /\ s \in Seq(AtlasStates) /\ Len(s) <= MaxSaved
             /\ \A i, j \in 1 .. Len(s) : s[i] = s[j] => i = j
  <2>1. PICK n \in 0 .. MaxSaved : s \in [1 .. n -> AtlasStates]
    BY <1>2 DEF Briefs
  <2>2. s \in Seq(AtlasStates) /\ Len(s) = n /\ DOMAIN s = 1 .. n
    BY <1>1, <2>1
  <2>3. QED
    BY <1>1, <1>2, <2>2 DEF Briefs, IsInjective
<1>3. ASSUME s \in Seq(AtlasStates), Len(s) <= MaxSaved,
             \A i, j \in 1 .. Len(s) : s[i] = s[j] => i = j
      PROVE  s \in Briefs
  <2>1. Len(s) \in 0 .. MaxSaved /\ s \in [1 .. Len(s) -> AtlasStates] /\ DOMAIN s = 1 .. Len(s)
    BY <1>1, <1>3, LenProperties
  <2>2. QED
    BY <1>3, <2>1 DEF Briefs, IsInjective
<1>4. QED
  BY <1>2, <1>3

LEMMA SavedOnce ==
    ASSUME NEW saved \in Briefs, NEW s \in AtlasStates \cup {Nowhere}
    PROVE  SaveState(saved, s) \in Briefs
<1>1. /\ saved \in Seq(AtlasStates) /\ Len(saved) <= MaxSaved /\ Len(saved) \in Nat
      /\ \A i, j \in 1 .. Len(saved) : saved[i] = saved[j] => i = j
  BY BriefsAre, LenProperties
<1>2. CASE s # Nowhere /\ ~ Contains(saved, s) /\ Len(saved) < MaxSaved
  <2> DEFINE t == Append(saved, s)
  <2>1. /\ s \in AtlasStates /\ MaxSaved \in Nat
        /\ \A i \in 1 .. Len(saved) : saved[i] # s
    BY <1>1, <1>2, AtlasAssumption DEF Contains, AtlasAssumption
  <2>2. /\ t \in Seq(AtlasStates) /\ Len(t) = Len(saved) + 1
        /\ \A i \in 1 .. Len(saved) : t[i] = saved[i]
        /\ t[Len(saved) + 1] = s
    BY <1>1, <2>1, AppendProperties
  <2> HIDE DEF t
  <2>3. Len(t) <= MaxSaved
    BY <1>1, <1>2, <2>1, <2>2
  <2>4. ASSUME NEW i \in 1 .. Len(t), NEW j \in 1 .. Len(t), t[i] = t[j] PROVE i = j
    BY <1>1, <2>1, <2>2, <2>4
  <2>5. t \in Briefs
    BY <2>2, <2>3, <2>4, BriefsAre
  <2>6. QED
    BY <1>2, <2>5 DEF SaveState, t
<1>3. CASE ~ (s # Nowhere /\ ~ Contains(saved, s) /\ Len(saved) < MaxSaved)
  BY <1>3 DEF SaveState
<1>4. QED
  BY <1>2, <1>3

LEMMA LeftOnce ==
    ASSUME NEW saved \in Briefs, NEW states
    PROVE  Left(saved, states) \in Briefs
<1>1. /\ saved \in Seq(AtlasStates) /\ Len(saved) <= MaxSaved /\ Len(saved) \in Nat
      /\ DOMAIN saved = 1 .. Len(saved) /\ \A i \in 1 .. Len(saved) : saved[i] \in AtlasStates
      /\ \A i, j \in 1 .. Len(saved) : saved[i] = saved[j] => i = j
  BY BriefsAre, LenProperties
<1> DEFINE left == {i \in DOMAIN saved : saved[i] \notin states}
           before == {p \in left \X left : p[1] < p[2]}
           order == InOrder(left, before)
           n == Cardinality(left)
<1>2. IsFiniteSet(left) /\ n <= Len(saved) /\ left \in SUBSET (1 .. Len(saved))
  <2>1. IsFiniteSet(1 .. Len(saved)) /\ Cardinality(1 .. Len(saved)) = IF 1 > Len(saved) THEN 0 ELSE Len(saved) - 1 + 1
    BY <1>1, FS_Interval
  <2>2. left \in SUBSET (1 .. Len(saved))
    BY <1>1
  <2> HIDE DEF left
  <2>3. IsFiniteSet(left) /\ Cardinality(left) <= Cardinality(1 .. Len(saved))
    BY <2>1, <2>2, FS_Subset
  <2>4. QED
    BY <1>1, <2>1, <2>2, <2>3
<1> HIDE DEF left
<1>3. \A i \in left, j \in left : <<i, j>> \in before <=> i < j
  OBVIOUS
<1>4. \A i \in left : i \in Int
  BY <1>1, <1>2
<1> HIDE DEF before
<1>5. /\ n \in Nat /\ order \in [1 .. n -> left]
      /\ \A i, j \in 1 .. n : i < j <=> <<order[i], order[j]>> \in before
  <2>1. \A x \in left : <<x, x>> \notin before
    BY <1>3, <1>4
  <2>2. ASSUME NEW x \in left, NEW y \in left
        PROVE  x = y \/ <<x, y>> \in before \/ <<y, x>> \in before
    <3>1. x \in Int /\ y \in Int /\ (<<x, y>> \in before <=> x < y) /\ (<<y, x>> \in before <=> y < x)
      BY <1>3, <1>4
    <3>2. QED
      BY <3>1
  <2>3. \A x \in left, y \in left, z \in left :
          <<x, y>> \in before /\ <<y, z>> \in before => <<x, z>> \in before
    BY <1>3, <1>4
  <2> HIDE DEF order
  <2>4. /\ Cardinality(left) \in Nat /\ InOrder(left, before) \in [1 .. Cardinality(left) -> left]
        /\ \A x \in left : \E i \in 1 .. Cardinality(left) : InOrder(left, before)[i] = x
        /\ \A i, j \in 1 .. Cardinality(left) :
              i < j <=> <<InOrder(left, before)[i], InOrder(left, before)[j]>> \in before
    BY <1>2, <2>1, <2>2, <2>3, Enumerated
  <2>5. QED
    BY <2>4, Zenon DEF order
<1> HIDE DEF n, order
<1> DEFINE t == [k \in DOMAIN order |-> saved[order[k]]]
<1>6. /\ t \in [1 .. n -> AtlasStates] /\ t \in Seq(AtlasStates) /\ Len(t) = n
      /\ \A k \in 1 .. n : t[k] = saved[order[k]]
  <2>1. DOMAIN order = 1 .. n /\ \A k \in 1 .. n : order[k] \in 1 .. Len(saved)
    BY <1>2, <1>5
  <2>2. t \in [1 .. n -> AtlasStates] /\ \A k \in 1 .. n : t[k] = saved[order[k]]
    BY <1>1, <2>1
  <2> HIDE DEF t
  <2>3. QED
    BY <1>5, <2>2
<1>7. ASSUME NEW i \in 1 .. n, NEW j \in 1 .. n, t[i] = t[j] PROVE i = j
  <2>1. order[i] \in 1 .. Len(saved) /\ order[j] \in 1 .. Len(saved) /\ saved[order[i]] = saved[order[j]]
    BY <1>2, <1>5, <1>6, <1>7
  <2>2. order[i] = order[j]
    <3> DEFINE a == order[i]
               b == order[j]
    <3>1. a \in 1 .. Len(saved) /\ b \in 1 .. Len(saved) /\ saved[a] = saved[b]
      BY <2>1
    <3> HIDE DEF a, b
    <3>2. a = b
      BY <1>1, <3>1
    <3>3. QED
      BY <3>2 DEF a, b
  <2>3. ~ (i < j) /\ ~ (j < i)
    <3>1. order[i] \in left /\ order[j] \in left
      BY <1>5
    <3>2. order[i] \in Int /\ <<order[i], order[i]>> \notin before
      BY <1>3, <1>4, <3>1
    <3>3. (i < j <=> <<order[i], order[j]>> \in before) /\ (j < i <=> <<order[j], order[i]>> \in before)
      BY <1>5
    <3>4. QED
      BY <2>2, <3>2, <3>3
  <2>4. QED
    BY <1>5, <2>3
<1>8. n <= MaxSaved
  BY <1>1, <1>2, <1>5, AtlasAssumption DEF AtlasAssumption, n
<1> HIDE DEF t
<1>9. t \in Briefs
  BY <1>6, <1>7, <1>8, BriefsAre
<1>10. QED
  BY <1>9 DEF Left, t, order, before, left

Links == {ViewLink(v) : v \in LooseViews}

AtlasHolds(x) ==
  /\ x.view \in ShownViews
  /\ x.history \in Seq(Links) /\ x.at \in DOMAIN x.history
  /\ Normalize(RestoreView(x.history[x.at])) = x.view

\* The page shows a view that is drawn, every link in its history can be opened, and the one in the
\* address bar gives the view.
AtlasInv == part = "atlas" => AtlasHolds(atlas)

LEMMA LinkReplaced ==
    ASSUME AtlasHolds(atlas), NEW v \in LooseViews, Follows(v), Replace(Normalize(v), v)
    PROVE  AtlasHolds(atlas')
<1> DEFINE h == [atlas.history EXCEPT ![atlas.at] = ViewLink(v)]
<1>1. atlas' = [view |-> Normalize(v), history |-> h, at |-> atlas.at, events |-> atlas.events + 1]
  BY DEF Replace, AtlasEvent, Written
<1>2. ViewLink(v) \in Links /\ Normalize(v) \in ShownViews
      /\ Normalize(RestoreView(ViewLink(v))) = Normalize(v)
  BY DrawnShows, LinkTells DEF Links
<1>3. atlas.history \in Seq(Links) /\ atlas.at \in DOMAIN atlas.history
  BY DEF AtlasHolds
<1>4. h \in Seq(Links) /\ DOMAIN h = DOMAIN atlas.history /\ h[atlas.at] = ViewLink(v)
  BY <1>2, <1>3
<1> HIDE DEF h
<1>5. QED
  BY <1>1, <1>2, <1>3, <1>4 DEF AtlasHolds

LEMMA LinkPushed ==
    ASSUME AtlasHolds(atlas), NEW v \in ShownViews, Push(v)
    PROVE  AtlasHolds(atlas')
<1> DEFINE kept == SubSeq(atlas.history, 1, atlas.at)
           h == Append(kept, ViewLink(v))
<1>1. atlas' = [view |-> v, history |-> h, at |-> atlas.at + 1, events |-> atlas.events + 1]
  BY DEF Push, AtlasEvent
<1>2. v \in LooseViews /\ Follows(v)
  BY DEF ShownViews
<1>3. ViewLink(v) \in Links /\ Normalize(RestoreView(ViewLink(v))) = v
  BY <1>2, DrawnShows, LinkTells DEF Links
<1>4. atlas.history \in Seq(Links) /\ atlas.at \in 1 .. Len(atlas.history) /\ Len(atlas.history) \in Nat
  BY LenProperties DEF AtlasHolds
<1>5. kept \in Seq(Links) /\ Len(kept) = atlas.at
  BY <1>4, SubSeqProperties
<1> HIDE DEF kept
<1>6. h \in Seq(Links) /\ Len(h) = atlas.at + 1 /\ h[atlas.at + 1] = ViewLink(v)
  BY <1>3, <1>5, AppendProperties
<1> HIDE DEF h
<1>7. atlas.at + 1 \in DOMAIN h
  BY <1>4, <1>6
<1>8. QED
  BY <1>1, <1>3, <1>6, <1>7 DEF AtlasHolds

LEMMA LinkWalked ==
    ASSUME AtlasHolds(atlas), NEW at \in DOMAIN atlas.history, WalkHistory(at)
    PROVE  AtlasHolds(atlas')
<1> DEFINE w == RestoreView(atlas.history[at])
<1>1. atlas' = [view |-> Normalize(w), history |-> atlas.history, at |-> at, events |-> atlas.events + 1]
  BY DEF WalkHistory, AtlasEvent
<1>2. PICK v \in LooseViews : atlas.history[at] = ViewLink(v)
  BY DEF AtlasHolds, Links
<1>3. w \in LooseViews /\ Follows(w)
  BY <1>2, LinkTells
<1>4. Normalize(w) \in ShownViews
  BY <1>3, DrawnShows
<1>5. QED
  BY <1>1, <1>4 DEF AtlasHolds

LEMMA AtlasStep ==
    ASSUME AtlasHolds(atlas), AtlasNext
    PROVE  AtlasHolds(atlas')
<1> DEFINE v == atlas.view
<1> USE AtlasNamesAre DEF Nowhere
<1>1. v \in ShownViews /\ v \in LooseViews /\ Follows(v) /\ v.saved \in Briefs
  BY DEF AtlasHolds, ShownViews, LooseViews
<1>2. ASSUME NEW w \in LooseViews, Follows(w), Draw(w) PROVE AtlasHolds(atlas')
  <2>1. Normalize(w) \in ShownViews
    BY <1>2, DrawnShows
  <2>2. Normalize(w) \in LooseViews /\ Follows(Normalize(w)) /\ Normalize(Normalize(w)) = Normalize(w)
    BY <2>1, DrawnShows DEF ShownViews
  <2>3. QED
    BY <1>2, <2>2, LinkReplaced DEF Draw
<1>3. ASSUME NEW w \in ShownViews, Replace(w, w) PROVE AtlasHolds(atlas')
  <2>1. w \in LooseViews /\ Follows(w) /\ Normalize(w) = w
    BY <1>3, DrawnShows DEF ShownViews
  <2>2. QED
    BY <1>3, <2>1, LinkReplaced
<1>4. ASSUME NEW y \in AtlasYears, ShowYear(y) PROVE AtlasHolds(atlas')
  <2> DEFINE w == [v EXCEPT !.year = y]
  <2>1. w \in LooseViews /\ Follows(w)
    BY <1>1 DEF LooseViews, Follows
  <2>2. QED
    BY <1>4, <2>1, LinkReplaced DEF ShowYear
<1>5. ASSUME NEW s \in AtlasStates \cup {Nowhere}, FilterState(s) PROVE AtlasHolds(atlas')
  <2> DEFINE w == [v EXCEPT !.state = s, !.level = IF s = Nowhere THEN "national" ELSE @,
                            !.a = IF s = Nowhere THEN @ ELSE s]
  <2>1. w \in LooseViews /\ Follows(w)
    BY <1>1 DEF LooseViews, Follows
  <2>2. QED
    BY <1>5, <2>1, LinkReplaced DEF FilterState
<1>6. ASSUME NEW s \in AtlasStates \cup {Nowhere}, CompareFirst(s) PROVE AtlasHolds(atlas')
  <2> DEFINE w == [v EXCEPT !.a = s, !.state = s]
  <2>1. w \in LooseViews /\ Follows(w)
    BY <1>1 DEF LooseViews, Follows
  <2>2. QED
    BY <1>2, <1>6, <2>1 DEF CompareFirst
<1>7. ASSUME NEW s \in AtlasStates \cup {Nowhere}, CompareSecond(s) PROVE AtlasHolds(atlas')
  <2> DEFINE w == [v EXCEPT !.b = s]
  <2>1. w \in LooseViews /\ Follows(w)
    BY <1>1 DEF LooseViews, Follows
  <2>2. QED
    BY <1>2, <1>7, <2>1 DEF CompareSecond
<1>8. ASSUME NEW m \in AtlasModes, FilterMode(m) PROVE AtlasHolds(atlas')
  <2> DEFINE w == [v EXCEPT !.primary = m]
  <2>1. w \in LooseViews /\ Follows(w)
    BY <1>1 DEF LooseViews, Follows
  <2>2. QED
    BY <1>2, <1>8, <2>1 DEF FilterMode
<1>9. ASSUME NEW m \in AtlasModes, ShowSecondary(m) PROVE AtlasHolds(atlas')
  <2> DEFINE n == SecondaryMode(v.primary, m)
             w == [v EXCEPT !.secondary = n]
  <2>1. n \in AtlasModes /\ n # v.primary
    BY DEF SecondaryMode
  <2> HIDE DEF n
  <2>2. w \in ShownViews
    BY <1>1, <2>1 DEF ShownViews, LooseViews, Follows
  <2>3. QED
    BY <1>3, <1>9, <2>2 DEF ShowSecondary, n
<1>10. ASSUME NEW p \in {"map", "rank", "compare"}, ShowPanel(p) PROVE AtlasHolds(atlas')
  <2> DEFINE w == [v EXCEPT !.panel = p]
  <2>1. w \in ShownViews
    BY <1>1 DEF ShownViews, LooseViews, Follows
  <2>2. QED
    BY <1>3, <1>10, <2>1 DEF ShowPanel
<1>11. ASSUME NEW c \in {"linear", "log"}, ShowScale(c) PROVE AtlasHolds(atlas')
  <2> DEFINE w == [v EXCEPT !.scale = c]
  <2>1. w \in ShownViews
    BY <1>1 DEF ShownViews, LooseViews, Follows
  <2>2. QED
    BY <1>3, <1>11, <2>1 DEF ShowScale
<1>12. ASSUME NEW s \in AtlasStates, NEW m \in AtlasModes, NEW o \in BOOLEAN, PickState(s, m, o)
       PROVE  AtlasHolds(atlas')
  <2> DEFINE w == [v EXCEPT !.state = s, !.a = s, !.primary = m, !.level = IF o THEN "state" ELSE @]
  <2>1. w \in LooseViews /\ Follows(w)
    BY <1>1 DEF LooseViews, Follows
  <2>2. Normalize(w) \in ShownViews
    BY <2>1, DrawnShows
  <2>3. Push(Normalize(w)) \/ Replace(Normalize(w), Normalize(w))
    BY <1>12 DEF PickState
  <2> HIDE DEF w
  <2>4. QED
    BY <1>3, <2>2, <2>3, LinkPushed
<1>13. ASSUME CompareWith PROVE AtlasHolds(atlas')
  <2> DEFINE w == [v EXCEPT !.a = v.state, !.panel = "compare"]
  <2>1. w \in LooseViews /\ Follows(w)
    BY <1>1 DEF LooseViews, Follows
  <2>2. QED
    BY <1>2, <1>13, <2>1 DEF CompareWith
<1>14. ASSUME LeaveLens PROVE AtlasHolds(atlas')
  <2> DEFINE w == [v EXCEPT !.level = "national"]
  <2>1. w \in LooseViews /\ Follows(w)
    BY <1>1 DEF LooseViews, Follows
  <2>2. Normalize(w) \in ShownViews /\ Push(Normalize(w))
    BY <1>14, <2>1, DrawnShows DEF LeaveLens
  <2>3. QED
    BY <2>2, LinkPushed
<1>15. ASSUME NEW saved \in Briefs, Replace([v EXCEPT !.saved = saved], [v EXCEPT !.saved = saved])
       PROVE  AtlasHolds(atlas')
  <2> DEFINE w == [v EXCEPT !.saved = saved]
  <2>1. w \in ShownViews
    BY <1>1 DEF ShownViews, LooseViews, Follows
  <2>2. QED
    BY <1>3, <1>15, <2>1
<1>16. ASSUME SaveSelected \/ SaveComparison \/ (\E states : RemoveSaved(states)) PROVE AtlasHolds(atlas')
  <2>1. v.state \in AtlasStates \cup {Nowhere} /\ v.a \in AtlasStates \cup {Nowhere}
        /\ v.b \in AtlasStates \cup {Nowhere}
    BY <1>1 DEF LooseViews
  <2>2. /\ SaveState(v.saved, v.state) \in Briefs
        /\ SaveState(SaveState(v.saved, v.a), v.b) \in Briefs
        /\ \A states : Left(v.saved, states) \in Briefs
    BY <1>1, <2>1, SavedOnce, LeftOnce
  <2>3. CASE SaveSelected
    BY <1>15, <2>2, <2>3 DEF SaveSelected
  <2>4. CASE SaveComparison
    BY <1>15, <2>2, <2>4 DEF SaveComparison
  <2>5. ASSUME NEW states, RemoveSaved(states) PROVE AtlasHolds(atlas')
    BY <1>15, <2>2, <2>5 DEF RemoveSaved
  <2>6. QED
    BY <1>16, <2>3, <2>4, <2>5
<1>17. ASSUME ResetView(AtlasDefaultYear) PROVE AtlasHolds(atlas')
  <2> DEFINE w == [Blank(AtlasDefaultYear) EXCEPT !.saved = v.saved]
  <2>1. w \in LooseViews /\ Follows(w)
    BY <1>1, AtlasAssumption DEF AtlasAssumption, Blank, LooseViews, Follows
  <2>2. QED
    BY <1>17, <2>1, LinkReplaced DEF ResetView
<1>18. ASSUME OpenLink PROVE AtlasHolds(atlas')
  <2>1. Normalize(RestoreView(atlas.history[atlas.at])) = v
    BY DEF AtlasHolds
  <2>2. QED
    BY <1>1, <1>3, <1>18, <2>1 DEF OpenLink
<1>19. ASSUME NEW at \in {atlas.at - 1, atlas.at + 1} \cap DOMAIN atlas.history, WalkHistory(at)
       PROVE  AtlasHolds(atlas')
  BY <1>19, LinkWalked
<1>20. QED
  BY <1>4, <1>5, <1>6, <1>7, <1>8, <1>9, <1>10, <1>11, <1>12, <1>13, <1>14, <1>16, <1>17, <1>18, <1>19
     DEF AtlasNext

LEMMA AtlasStarts == Init => AtlasInv
<1> SUFFICES ASSUME Init, part = "atlas" PROVE AtlasHolds(atlas)
  BY DEF AtlasInv
<1>1. PICK v \in AtlasLinks :
        LET opened == Normalize(RestoreView(ViewLink(v)))
        IN atlas = [view |-> opened, history |-> <<ViewLink(opened)>>, at |-> 1, events |-> 0]
  BY DEF Init, AtlasInit
<1>2. v \in LooseViews
  BY AtlasAssumption DEF AtlasAssumption, Views, LooseViews
<1> DEFINE opened == Normalize(RestoreView(ViewLink(v)))
<1>3. opened \in ShownViews
  <2>1. RestoreView(ViewLink(v)) \in LooseViews /\ Follows(RestoreView(ViewLink(v)))
    BY <1>2, LinkTells
  <2>2. QED
    BY <2>1, DrawnShows
<1>4. atlas = [view |-> opened, history |-> <<ViewLink(opened)>>, at |-> 1, events |-> 0]
  BY <1>1
<1> HIDE DEF opened
<1>5. opened \in LooseViews /\ Follows(opened) /\ Normalize(opened) = opened
  BY <1>3, DrawnShows DEF ShownViews
<1>6. ViewLink(opened) \in Links /\ Normalize(RestoreView(ViewLink(opened))) = opened
  BY <1>5, LinkTells DEF Links
<1>7. QED
  BY <1>3, <1>4, <1>6 DEF AtlasHolds

LEMMA PlacesOfNames ==
    /\ IsFiniteSet(AtlasStates)
    /\ \A s \in AtlasStates : NamePlace(s) \in Nat /\ AtlasNames[NamePlace(s)] = s
<1> DEFINE n == Len(AtlasNames)
<1>1. n \in Nat /\ DOMAIN AtlasNames = 1 .. n
  BY AtlasAssumption DEF AtlasAssumption
<1>2. AtlasStates = {AtlasNames[i] : i \in 1 .. n} /\ AtlasNames = [i \in 1 .. n |-> AtlasNames[i]]
  BY <1>1, AtlasAssumption DEF AtlasStates, ToSet, AtlasAssumption
<1>3. AtlasNames \in Surjection(1 .. n, AtlasStates)
  BY <1>2 DEF Surjection
<1>4. IsFiniteSet(1 .. n)
  BY <1>1, FS_Interval
<1>5. IsFiniteSet(AtlasStates)
  BY <1>3, <1>4, FS_Surjection
<1>6. ASSUME NEW s \in AtlasStates PROVE NamePlace(s) \in Nat /\ AtlasNames[NamePlace(s)] = s
  <2>1. \E i \in DOMAIN AtlasNames : AtlasNames[i] = s
    BY <1>1, <1>2
  <2>2. NamePlace(s) \in DOMAIN AtlasNames /\ AtlasNames[NamePlace(s)] = s
    BY <2>1 DEF NamePlace
  <2>3. QED
    BY <1>1, <2>2
<1>7. QED
  BY <1>5, <1>6

\* The ranking has each published state once, by count and then by name.
LEMMA Ranked ==
    ASSUME NEW v \in LooseViews
    PROVE  LET S == ShownStates(v, v.primary)
               order == RankedRows(v)
           IN  /\ Cardinality(S) \in Nat /\ order \in [1 .. Cardinality(S) -> S]
               /\ \A s \in S : \E i \in 1 .. Cardinality(S) : order[i] = s
               /\ \A i, j \in 1 .. Cardinality(S) : i < j <=> <<order[i], order[j]>> \in Precedes(v)
<1> DEFINE S == ShownStates(v, v.primary)
           before == Precedes(v)
           C(s) == Cell(v, s, v.primary)
           count == [s \in S |-> CHOOSE n \in C(s) : TRUE]
           place == [s \in S |-> NamePlace(s)]
<1>1. ASSUME NEW s \in S
      PROVE  /\ s \in AtlasStates /\ count[s] \in Nat /\ C(s) = {count[s]}
             /\ place[s] \in Nat /\ place[s] = NamePlace(s)
  <2>1. s \in AtlasStates /\ C(s) # {}
    BY DEF ShownStates
  <2>2. v.year \in AtlasYears /\ v.primary \in AtlasModes
    BY DEF LooseViews
  <2>3. C(s) \subseteq Nat /\ \A n, k \in C(s) : n = k
    BY <2>1, <2>2, AtlasAssumption DEF AtlasAssumption, Cell
  <2>4. count[s] \in C(s)
    <3> HIDE DEF C
    <3>1. QED
      BY <2>1
  <2> HIDE DEF count, C
  <2>5. count[s] \in Nat /\ C(s) = {count[s]}
    BY <2>3, <2>4
  <2>6. QED
    BY <2>1, <2>5, PlacesOfNames
<1>2. ASSUME NEW s \in S, NEW t \in S, place[s] = place[t] PROVE s = t
  BY <1>1, <1>2, PlacesOfNames
<1>3. ASSUME NEW s \in S, NEW t \in S
      PROVE  <<s, t>> \in before <=> \/ count[s] > count[t]
                                     \/ count[s] = count[t] /\ place[s] < place[t]
  <2>1. /\ s \in AtlasStates /\ t \in AtlasStates /\ C(s) = {count[s]} /\ C(t) = {count[t]}
        /\ place[s] = NamePlace(s) /\ place[t] = NamePlace(t)
    BY <1>1
  <2>2. <<s, t>> \in before <=> \E n \in C(s), k \in C(t) : n > k \/ (n = k /\ NamePlace(s) < NamePlace(t))
    BY <2>1 DEF Precedes
  <2> HIDE DEF C, before, count, place, S
  <2>3. QED
    BY <2>1, <2>2
<1>4. IsFiniteSet(S)
  <2>1. S \in SUBSET AtlasStates
    BY DEF ShownStates
  <2> HIDE DEF S
  <2>2. QED
    BY <2>1, PlacesOfNames, FS_Subset
<1>5. \A s \in S : count[s] \in Nat /\ place[s] \in Nat
  BY <1>1
<1> HIDE DEF S, before, C, count, place
<1>6. \A x \in S : <<x, x>> \notin before
  BY <1>3, <1>5
<1>7. ASSUME NEW x \in S, NEW y \in S PROVE x = y \/ <<x, y>> \in before \/ <<y, x>> \in before
  <2>1. /\ <<x, y>> \in before <=> count[x] > count[y] \/ (count[x] = count[y] /\ place[x] < place[y])
        /\ <<y, x>> \in before <=> count[y] > count[x] \/ (count[y] = count[x] /\ place[y] < place[x])
        /\ place[x] = place[y] => x = y
    BY <1>2, <1>3
  <2>2. QED
    BY <1>5, <2>1
<1>8. ASSUME NEW x \in S, NEW y \in S, NEW z \in S, <<x, y>> \in before, <<y, z>> \in before
      PROVE  <<x, z>> \in before
  <2>1. /\ count[x] > count[y] \/ (count[x] = count[y] /\ place[x] < place[y])
        /\ count[y] > count[z] \/ (count[y] = count[z] /\ place[y] < place[z])
    BY <1>3, <1>8
  <2>2. count[x] > count[z] \/ (count[x] = count[z] /\ place[x] < place[z])
    BY <1>5, <2>1
  <2>3. QED
    BY <1>3, <2>2
<1>9. /\ Cardinality(S) \in Nat /\ InOrder(S, before) \in [1 .. Cardinality(S) -> S]
      /\ \A x \in S : \E i \in 1 .. Cardinality(S) : InOrder(S, before)[i] = x
      /\ \A i, j \in 1 .. Cardinality(S) :
            i < j <=> <<InOrder(S, before)[i], InOrder(S, before)[j]>> \in before
  BY <1>4, <1>6, <1>7, <1>8, Enumerated
<1>10. RankedRows(v) = InOrder(S, before)
  BY DEF RankedRows, S, before
<1>11. QED
  BY <1>9, <1>10, Zenon DEF S, before

LEMMA PanelsAgree ==
    ASSUME AtlasHolds(atlas)
    PROVE  PanelsTruthful
<1> DEFINE v == atlas.view
           S == ShownStates(v, v.primary)
           n == Cardinality(S)
           ranked == RankedRows(v)
           rank == RankPanel(v)
           order == [i \in DOMAIN rank.rows |-> rank.rows[i].state]
           above(s) == {t \in AtlasStates :
                          \E k \in Cell(v, t, v.primary), l \in Cell(v, s, v.primary) : k > l}
           marked == {s \in AtlasStates : MapPanel(v)[s].of # {}}
<1>1. v \in ShownViews /\ v \in LooseViews /\ v.saved \in Briefs /\ v.year \in AtlasYears
      /\ v.primary \in AtlasModes /\ v.secondary \in AtlasModes /\ v.state \in AtlasStates \cup {Nowhere}
      /\ v.a # v.b /\ v.primary # v.secondary
  BY DEF AtlasHolds, ShownViews, LooseViews
<1>2. /\ n \in Nat /\ ranked \in [1 .. n -> S]
      /\ \A s \in S : \E i \in 1 .. n : ranked[i] = s
      /\ \A i, j \in 1 .. n : i < j <=> <<ranked[i], ranked[j]>> \in Precedes(v)
  BY <1>1, Ranked
<1>3. S \subseteq AtlasStates /\ \A s \in AtlasStates : s \in S <=> Cell(v, s, v.primary) # {}
  BY DEF ShownStates
<1>4. marked = S
  <2>1. \A s \in AtlasStates : MapPanel(v)[s].of # {} <=> Cell(v, s, v.primary) # {}
    BY DEF MapPanel, Mark
  <2>2. QED
    BY <1>3, <2>1
<1>5. order = ranked /\ rank.unranked = AtlasStates \ ToSet(ranked) /\ DOMAIN ranked = 1 .. n
  <2>1. /\ DOMAIN rank.rows = 1 .. n /\ \A i \in 1 .. n : rank.rows[i].state = ranked[i]
        /\ rank.unranked = AtlasStates \ ToSet(ranked)
    <3> HIDE DEF S, n, ranked
    <3>1. QED
      BY <1>2 DEF RankPanel, ranked
  <2> HIDE DEF S, n, ranked, rank
  <2>2. QED
    BY <1>2, <2>1
<1>6. ToSet(ranked) = S
  <2> HIDE DEF S, n, ranked
  <2>1. QED
    BY <1>2, <1>5 DEF ToSet
<1>7. /\ Len(v.saved) <= MaxSaved /\ IsInjective(v.saved)
      /\ DOMAIN v.saved = 1 .. Len(v.saved) /\ \A i \in 1 .. Len(v.saved) : v.saved[i] \in AtlasStates
  <2>1. v.saved \in Seq(AtlasStates) /\ Len(v.saved) <= MaxSaved
    BY <1>1, BriefsAre
  <2>2. QED
    BY <1>1, <2>1 DEF Briefs
<1>8. ASSUME NEW i \in 1 .. n PROVE above(ranked[i]) \subseteq ToSet(SubSeq(ranked, 1, i - 1))
  <2> SUFFICES ASSUME NEW t \in above(ranked[i]) PROVE t \in ToSet(SubSeq(ranked, 1, i - 1))
    OBVIOUS
  <2>1. /\ t \in AtlasStates /\ Cell(v, t, v.primary) # {}
        /\ \E k \in Cell(v, t, v.primary), l \in Cell(v, ranked[i], v.primary) : k > l
    OBVIOUS
  <2>2. t \in S
    BY <1>3, <2>1
  <2> HIDE DEF S, n, ranked, above
  <2>3. PICK j \in 1 .. n : ranked[j] = t
    BY <1>2, <2>2
  <2>4. ranked[i] \in AtlasStates
    BY <1>2, <1>3
  <2>5. <<t, ranked[i]>> \in Precedes(v)
    BY <2>1, <2>4 DEF Precedes
  <2>6. j < i
    BY <1>2, <2>3, <2>5
  <2>7. ranked \in Seq(S) /\ Len(ranked) = n
    BY <1>2
  <2> DEFINE first == SubSeq(ranked, 1, i - 1)
  <2>8. first \in Seq(S) /\ Len(first) = i - 1 /\ j \in 1 .. Len(first) /\ first[j] = t
    BY <1>2, <2>3, <2>6, <2>7, SubSeqProperties
  <2> HIDE DEF first
  <2>9. t \in ToSet(first)
    BY <2>8 DEF ToSet
  <2>10. QED
    BY <2>9 DEF first
<1>9. ASSUME NEW note \in RankNote(v) PROVE note.total = Cardinality(marked) /\ ranked[note.rank] = v.state
  <2>1. Len(ranked) = n
    <3> HIDE DEF S, n, ranked
    <3>1. QED
      BY <1>2
  <2>2. PICK i \in {j \in DOMAIN ranked : ranked[j] = v.state} : note = [rank |-> i, total |-> Len(ranked)]
    BY DEF RankNote
  <2> HIDE DEF marked, S, ranked
  <2>3. QED
    BY <1>4, <2>1, <2>2
<1>10. /\ DOMAIN ScatterPanel(v) \subseteq S
       /\ \A s \in DOMAIN ScatterPanel(v) : MatrixPanel(v)[s][v.secondary].of # {}
  <2>1. DOMAIN ScatterPanel(v) = S \cap ShownStates(v, v.secondary)
    BY DEF ScatterPanel
  <2>2. ASSUME NEW s \in ShownStates(v, v.secondary) PROVE MatrixPanel(v)[s][v.secondary].of # {}
    BY <1>1 DEF ShownStates, MatrixPanel, Mark
  <2>3. QED
    BY <2>1, <2>2
<1>11. ASSUME v.level = "state"
       PROVE  /\ v.state # Nowhere
              /\ LensPanel(v).years[v.year] = InspectorPanel(v)[v.primary]
              /\ LensPanel(v).note # {} <=> v.state \in marked
              /\ LensPanel(v).fingerprint = MatrixPanel(v)[v.state]
  <2>1. v.state # Nowhere /\ v.state \in AtlasStates
    BY <1>1, <1>11 DEF ShownViews
  <2>2. LensPanel(v).years[v.year] = InspectorPanel(v)[v.primary]
    BY <1>1, <2>1 DEF LensPanel, InspectorPanel, Cell
  <2>3. LensPanel(v).fingerprint = MatrixPanel(v)[v.state]
    BY <2>1 DEF LensPanel, MatrixPanel
  <2>4. LensPanel(v).note = RankNote(v)
    BY DEF LensPanel
  <2>5. RankNote(v) # {} <=> \E j \in DOMAIN ranked : ranked[j] = v.state
    BY DEF RankNote
  <2> HIDE DEF marked, S, ranked, n
  <2>6. (\E j \in DOMAIN ranked : ranked[j] = v.state) <=> v.state \in S
    BY <1>2, <1>5
  <2>7. QED
    BY <1>4, <2>1, <2>2, <2>3, <2>4, <2>5, <2>6
<1>12. ASSUME NEW i \in DOMAIN v.saved
       PROVE  LET s == v.saved[i]
              IN  BriefPanel(v)[i] = TablePanel([v EXCEPT !.state = s])[s][v.primary]
  <2> DEFINE s == v.saved[i]
             w == [v EXCEPT !.state = s]
  <2>1. s \in AtlasStates /\ s # Nowhere
    BY <1>7, AtlasNamesAre DEF Nowhere
  <2>2. w.state = s /\ w.year = v.year
    BY <1>1 DEF LooseViews
  <2> HIDE DEF w
  <2>3. TablePanel(w)[s][v.primary] = Cell(v, s, v.primary)
    BY <1>1, <2>1, <2>2 DEF TablePanel, Cell
  <2>4. BriefPanel(v)[i] = Cell(v, s, v.primary)
    BY DEF BriefPanel
  <2>5. QED
    BY <2>3, <2>4 DEF w
<1>13. /\ \A i \in DOMAIN order : above(order[i]) \subseteq ToSet(SubSeq(order, 1, i - 1))
       /\ ToSet(order) = marked /\ rank.unranked = AtlasStates \ marked
       /\ \A note \in RankNote(v) : note.total = Cardinality(marked) /\ order[note.rank] = v.state
       /\ DOMAIN ScatterPanel(v) \subseteq marked
  <2> HIDE DEF order, above, rank, marked, S, ranked
  <2>1. QED
    BY <1>4, <1>5, <1>6, <1>8, <1>9, <1>10
<1> HIDE DEF n, S, ranked
<1>14. QED
  BY <1>1, <1>7, <1>10, <1>11, <1>12, <1>13 DEF PanelsTruthful

\* Whatever is clicked, the link in the address bar gives the view on the screen, and no panel
\* contradicts another (LinkRestores, PanelsTruthful, web/us-coverage.js).
THEOREM LinksStay == Spec => []LinksRestoreViews
<1>1. Init => AtlasInv
  BY AtlasStarts
<1>2. AtlasInv /\ [Next]_algorithmVars => AtlasInv'
  <2> SUFFICES ASSUME AtlasInv, [Next]_algorithmVars, part' = "atlas" PROVE AtlasHolds(atlas')
    BY DEF AtlasInv
  <2>1. part = "atlas" /\ AtlasHolds(atlas)
    BY DEF AtlasInv, Next, JoinFiles, BuildDocuments, BuildContext, RunReports, FindClusters,
       AuditDataset, AssessCity, Compute, algorithmVars, taskVars
  <2>2. AtlasNext \/ UNCHANGED atlas
    BY <2>1 DEF Next, JoinFiles, BuildDocuments, BuildContext, RunReports, FindClusters,
       AuditDataset, AssessCity, Compute, algorithmVars, taskVars, deskVars, pageVars
  <2>3. QED
    BY <2>1, <2>2, AtlasStep
<1>3. AtlasInv => LinksRestoreViews
  <2> SUFFICES ASSUME AtlasInv, part = "atlas" PROVE LinkRestores /\ PanelsTruthful
    BY DEF LinksRestoreViews
  <2>1. AtlasHolds(atlas)
    BY DEF AtlasInv
  <2>2. QED
    BY <2>1, PanelsAgree DEF AtlasHolds, LinkRestores
<1>4. QED
  BY <1>1, <1>2, <1>3, PTL DEF Spec

-----------------------------------------------------------------------------
(* The national page.                                                      *)

PageEntries == [year : PageYears, state : Jurisdictions \cup {NoState}, level : {"national", "state"}]

PageRequests ==
  [serial : Nat, kind : {"release", "profile"}, of : PageYears \cup Jurisdictions, share : BOOLEAN,
   follow : Jurisdictions \cup {NoState, Stay}, current : BOOLEAN]

PageFields ==
  [year : PageYears, state : Jurisdictions \cup {NoState}, level : {"national", "state"},
   history : Seq(PageEntries), at : Nat, result : PageYears \cup {"loading", "error"},
   drawn : {"nothing", "national", "state"}, profile : Jurisdictions \cup {"empty", "loading", "error"},
   cache : [PageYears -> {"none", "pending", "held"}], waiting : SUBSET PageRequests, serial : Nat,
   start : [release : PageYears \cup {""}, profile : BOOLEAN], overtaken : BOOLEAN, refused : BOOLEAN,
   events : Nat, failures : Nat]

PageTyped(p) == p \in PageFields /\ p.at \in 1 .. Len(p.history)

\* Serial numbers tell the requests apart.
Numbered(p) ==
  /\ \A r \in p.waiting : r.serial < p.serial
  /\ \A q, r \in p.waiting : q.serial = r.serial => q = r

\* The newest request of a kind is the only current one, and what is waited for is asked for.
PageAsked(p) ==
  /\ \A r \in p.waiting : r.kind = "release" =>
        /\ r.of \in PageYears /\ (r.current \/ r.follow # Stay)
        /\ (r.current => r.of = p.year) /\ p.cache[r.of] # "none"
  /\ \A r \in p.waiting : r.kind = "profile" =>
        /\ r.of \in Jurisdictions /\ r.follow = Stay /\ r.current /\ \A y \in PageYears : p.cache[y] # "none"
  /\ \A q, r \in p.waiting : q.kind = r.kind /\ q.current /\ r.current => q = r

PageCore(p) == PageTyped(p) /\ Numbered(p) /\ PageAsked(p)

\* What is drawn is the year of the page, and a load or an error has its reason.
PageLoads(p) ==
  /\ Shows(p) => p.result = p.year
  /\ p.result = "loading" => \E r \in p.waiting : r.kind = "release" /\ r.current
  /\ "error" \in {p.result, p.profile} => p.failures > 0 \/ p.refused

\* The URL is the view, unless a release is on its way that will write it.
InStep(p) == Readable(Url(p)) => Url(p) = View(p)
PageShared(p) ==
  Shows(p) \/ (\E r \in p.waiting : r.kind = "release" /\ r.current /\ ~r.share) => InStep(p)

\* A profile of another state than the selected one is there only before a step through the history ends.
AllHeld(p) == \A y \in PageYears : p.cache[y] = "held"
PageProfiled(p) ==
  p.profile \in Jurisdictions =>
    AllHeld(p) /\ (p.profile = p.state \/ \E r \in p.waiting : r.kind = "release" /\ r.follow # Stay)

\* What the panel says is about the selected state, or will be.
PageProper(p) ==
  \/ p.overtaken
  \/ p.profile \in {"error", IF p.state = NoState THEN "empty" ELSE p.state}
  \/ \E r \in p.waiting : r.kind = "profile" /\ r.of = p.state
  \/ \E r \in p.waiting : r.kind = "release" /\ r.follow = p.state

PageReady(p) == PageCore(p) /\ PageLoads(p) /\ PageShared(p) /\ PageProfiled(p) /\ PageProper(p)

\* No reaction is due.
PageQuiet(p) == \A r \in p.waiting : ~Held(p, r)

\* What an operation leaves alone.
SameView(p, q)  == q.year = p.year /\ q.state = p.state /\ q.level = p.level
SameUrl(p, q)   == q.history = p.history /\ q.at = p.at
SameLoads(p, q) == q.result = p.result /\ q.failures = p.failures /\ q.refused = p.refused
SamePanel(p, q) == q.profile = p.profile /\ q.overtaken = p.overtaken
SameWaits(p, q) == q.waiting = p.waiting /\ q.cache = p.cache /\ q.serial = p.serial

PageHolds(p) == PageReady(p) /\ PageQuiet(p)
-----------------------------------------------------------------------------
LEMMA PageNamesAre ==
  /\ NoState \notin Jurisdictions /\ Stay \notin Jurisdictions /\ NoState # Stay
  /\ "empty" \notin Jurisdictions /\ "loading" \notin Jurisdictions /\ "error" \notin Jurisdictions
  /\ "loading" \notin PageYears /\ "error" \notin PageYears
BY CoveragePageAssumption DEF NoState, Stay

\* Of the requests that wait, one is the newest.
LEMMA NewestIs ==
    ASSUME NEW S \in SUBSET PageRequests, S # {}, NEW n \in Nat, \A r \in S : r.serial < n
    PROVE  Newest(S) \in S /\ \A q \in S : q.serial <= Newest(S).serial
<1> DEFINE R == {d \in Nat \X Nat : d[1] < d[2]}
           T == {n - r.serial : r \in S}
<1>1. \A r \in S : r.serial \in Nat
  BY DEF PageRequests
<1>2. T \in SUBSET Nat /\ T # {}
  BY <1>1
<1>3. PICK k \in T : \A m \in T : k <= m
  <2>1. IsWellFoundedOn(R, Nat)
    BY NatLessThanWellFounded DEF OpToRel
  <2>2. \A k, m \in Nat : m < k => <<m, k>> \in R
    OBVIOUS
  <2> HIDE DEF R, T
  <2>3. PICK k \in T : \A m \in T : ~(<<m, k>> \in R)
    BY <1>2, <2>1, WFMin
  <2>4. k \in Nat /\ T \subseteq Nat /\ \A m \in T : ~(m < k)
    BY <1>2, <2>2, <2>3
  <2>5. QED
    BY <2>4
<1>4. k \in T /\ \A m \in T : k <= m
  BY <1>3
<1>5. PICK r \in S : k = n - r.serial
  BY <1>3
<1>6. \A q \in S : q.serial <= r.serial
  <2> SUFFICES ASSUME NEW q \in S PROVE q.serial <= r.serial
    OBVIOUS
  <2>1. k <= n - q.serial
    BY <1>4
  <2>2. QED
    BY <1>1, <1>5, <2>1
<1>7. QED
  BY <1>6 DEF Newest
-----------------------------------------------------------------------------
LEMMA SyncIs ==
    ASSUME NEW p, PageCore(p)
    PROVE  LET q == SyncUrl(p)
           IN /\ PageCore(q) /\ Url(q) = View(q)
              /\ SameView(p, q) /\ SameLoads(p, q) /\ SamePanel(p, q) /\ SameWaits(p, q)
<1> DEFINE e == View(p)
           h == [p.history EXCEPT ![p.at] = e]
           q == [p EXCEPT !.history = h]
<1>1. p \in PageFields /\ p.at \in 1 .. Len(p.history) /\ p.history \in Seq(PageEntries)
  BY DEF PageCore, PageTyped, PageFields
<1>2. e \in PageEntries
  BY <1>1 DEF PageFields, PageEntries, View
<1>3. h \in Seq(PageEntries) /\ Len(h) = Len(p.history) /\ h[p.at] = e
  <2> HIDE DEF e
  <2>1. QED
    BY <1>1, <1>2
<1>4. SyncUrl(p) = q
  BY <1>1 DEF SyncUrl, PageFields
<1> HIDE DEF h
<1>5. q \in PageFields /\ q.at = p.at /\ q.history = h /\ q.waiting = p.waiting /\ q.serial = p.serial
      /\ q.year = p.year /\ q.cache = p.cache /\ q.state = p.state /\ q.level = p.level
  BY <1>1, <1>3 DEF PageFields
<1>6. PageCore(q)
  BY <1>1, <1>3, <1>5 DEF PageCore, PageTyped, Numbered, PageAsked
<1>7. Url(q) = View(q)
  BY <1>3, <1>5 DEF Url, View
<1>8. SameLoads(p, q) /\ SamePanel(p, q)
  BY <1>1, <1>3 DEF PageFields, SameLoads, SamePanel
<1>9. QED
  BY <1>4, <1>5, <1>6, <1>7, <1>8 DEF SameView, SameWaits

LEMMA PushIs ==
    ASSUME NEW p, PageCore(p)
    PROVE  LET q == PushUrl(p)
           IN /\ PageCore(q) /\ Url(q) = View(q)
              /\ SameView(p, q) /\ SameLoads(p, q) /\ SamePanel(p, q) /\ SameWaits(p, q)
<1> DEFINE e == View(p)
           front == SubSeq(p.history, 1, p.at)
           h == Append(front, e)
           at == p.at + 1
           q == [p EXCEPT !.history = h, !.at = at]
<1>1. p \in PageFields /\ p.at \in 1 .. Len(p.history) /\ p.history \in Seq(PageEntries)
  BY DEF PageCore, PageTyped, PageFields
<1>2. e \in PageEntries
  BY <1>1 DEF PageFields, PageEntries, View
<1>3. front \in Seq(PageEntries) /\ Len(front) = p.at
  BY <1>1, SubSeqProperties
<1>4. h \in Seq(PageEntries) /\ Len(h) = p.at + 1 /\ h[p.at + 1] = e
  <2> HIDE DEF e, front
  <2>1. QED
    BY <1>2, <1>3
<1>5. PushUrl(p) = q
  BY <1>1 DEF PushUrl, PageFields
<1>6. at \in Nat /\ at = p.at + 1
  BY <1>1
<1> HIDE DEF h, at
<1>7. q \in PageFields /\ q.at = at /\ q.history = h /\ q.waiting = p.waiting /\ q.serial = p.serial
      /\ q.year = p.year /\ q.cache = p.cache /\ q.state = p.state /\ q.level = p.level
  BY <1>1, <1>4, <1>6 DEF PageFields
<1>8. PageCore(q)
  BY <1>1, <1>4, <1>7, <1>6 DEF PageCore, PageTyped, Numbered, PageAsked
<1>9. Url(q) = View(q)
  BY <1>4, <1>7, <1>6 DEF Url, View
<1>10. SameLoads(p, q) /\ SamePanel(p, q)
  BY <1>1 DEF PageFields, SameLoads, SamePanel
<1>11. QED
  BY <1>5, <1>7, <1>8, <1>9, <1>10 DEF SameView, SameWaits

\* Drawing changes the level alone, and only to what a URL without a state can ask for.
LEMMA RenderIs ==
    ASSUME NEW p, PageCore(p)
    PROVE  LET q == RenderAll(p)
           IN /\ PageCore(q) /\ q.year = p.year /\ q.state = p.state
              /\ SameUrl(p, q) /\ SameLoads(p, q) /\ SamePanel(p, q) /\ SameWaits(p, q)
              /\ q.level = p.level \/ p.state = NoState
              /\ InStep(p) => InStep(q)
<1> DEFINE level == IF p.state = NoState THEN "national" ELSE p.level
           q == IF Shows(p) THEN [p EXCEPT !.level = level, !.drawn = level] ELSE p
<1>1. p \in PageFields /\ p.at \in 1 .. Len(p.history)
  BY DEF PageCore, PageTyped
<1>2. level \in {"national", "state"} /\ RenderAll(p) = q
  BY <1>1 DEF RenderAll, PageFields
<1>3. (level = p.level \/ p.state = NoState) /\ (p.state = NoState => level = "national")
  OBVIOUS
<1> HIDE DEF level
<1>4. q \in PageFields /\ q.at = p.at /\ q.history = p.history /\ q.waiting = p.waiting /\ q.serial = p.serial
      /\ q.year = p.year /\ q.cache = p.cache /\ q.state = p.state /\ q.level \in {level, p.level}
  <2>1. CASE Shows(p)
    BY <1>1, <1>2, <2>1 DEF PageFields
  <2>2. CASE ~Shows(p)
    <3>1. q = p
      BY <2>2
    <3> HIDE DEF q
    <3>2. QED
      BY <1>1, <3>1
  <2>3. QED
    BY <2>1, <2>2
<1>5. PageCore(q)
  BY <1>1, <1>4 DEF PageCore, PageTyped, Numbered, PageAsked
<1>6. SameLoads(p, q) /\ SamePanel(p, q)
  BY <1>1 DEF PageFields, SameLoads, SamePanel
<1>7. ASSUME InStep(p) PROVE InStep(q)
  <2>1. Url(q) = Url(p)
    BY <1>4 DEF Url
  <2>2. SUFFICES ASSUME Readable(Url(p)) PROVE View(q) = View(p)
    BY <1>7, <2>1 DEF InStep
  <2>3. Url(p) = View(p)
    BY <1>7, <2>2 DEF InStep
  <2>4. p.level = "state" => p.state # NoState
    BY <2>2, <2>3 DEF Readable, View
  <2>5. p.level \in {"national", "state"}
    BY <1>1 DEF PageFields
  <2>6. q.level = p.level
    BY <1>3, <1>4, <2>4, <2>5
  <2>7. QED
    BY <1>4, <2>6 DEF View
<1>8. QED
  <2> HIDE DEF q
  <2>1. QED
    BY <1>2, <1>3, <1>4, <1>5, <1>6, <1>7 DEF SameUrl, SameWaits
-----------------------------------------------------------------------------
PageReleases(p) == {r \in p.waiting : r.kind = "release"}

\* A newer profile leaves no older one, for it has no continuation.
LEMMA OvertakeIs ==
    ASSUME NEW p, PageCore(p)
    PROVE  LET q == Overtake(p, "profile")
           IN /\ PageCore(q) /\ q.waiting = PageReleases(p) /\ q.cache = p.cache /\ q.serial = p.serial
              /\ SameView(p, q) /\ SameUrl(p, q) /\ SameLoads(p, q) /\ SamePanel(p, q)
<1> DEFINE older(r) == IF r.kind = "profile" THEN [r EXCEPT !.current = FALSE] ELSE r
           W == {r \in {older(x) : x \in p.waiting} : r.current \/ r.follow # Stay}
           q == [p EXCEPT !.waiting = W]
<1>1. p \in PageFields /\ p.at \in 1 .. Len(p.history) /\ p.waiting \in SUBSET PageRequests
  BY DEF PageCore, PageTyped, PageFields
<1>2. ASSUME NEW r \in p.waiting
      PROVE  /\ r.kind = "release" => older(r) = r /\ (r.current \/ r.follow # Stay)
             /\ r.kind = "profile" => ~(older(r).current \/ older(r).follow # Stay)
             /\ r.kind \in {"release", "profile"}
  <2>1. r \in PageRequests
    BY <1>1
  <2>2. QED
    BY <2>1 DEF PageCore, PageAsked, PageRequests
<1>3. Overtake(p, "profile") = q
  BY DEF Overtake
<1>4. W = PageReleases(p)
  <2> HIDE DEF older
  <2>1. QED
    BY <1>2 DEF PageReleases
<1> HIDE DEF W
<1>5. W \subseteq p.waiting
  BY <1>4 DEF PageReleases
<1>6. q \in PageFields /\ q.at = p.at /\ q.history = p.history /\ q.waiting = W /\ q.serial = p.serial
      /\ q.year = p.year /\ q.cache = p.cache /\ q.state = p.state /\ q.level = p.level
  BY <1>1, <1>5 DEF PageFields
<1>7. PageCore(q)
  BY <1>1, <1>5, <1>6 DEF PageCore, PageTyped, Numbered, PageAsked
<1>8. SameLoads(p, q) /\ SamePanel(p, q)
  BY <1>1 DEF PageFields, SameLoads, SamePanel
<1>9. QED
  <2> HIDE DEF q
  <2>1. QED
    BY <1>3, <1>4, <1>6, <1>7, <1>8 DEF SameUrl, SameView

\* What a request does to the artifacts: none is lost.
LEMMA RequestIs ==
    ASSUME NEW p \in PageFields, NEW kind \in {"release", "profile"}, NEW of \in PageYears \cup Jurisdictions,
           NEW share \in BOOLEAN, NEW follow \in Jurisdictions \cup {NoState, Stay},
           Overtake(p, kind) \in PageFields
    PROVE  LET o   == Overtake(p, kind)
               q   == Request(p, kind, of, share, follow)
               new == [serial |-> p.serial, kind |-> kind, of |-> of, share |-> share, follow |-> follow,
                       current |-> TRUE]
           IN /\ q \in PageFields /\ new \in PageRequests
              /\ q.waiting = o.waiting \cup {new} /\ q.serial = o.serial + 1
              /\ q.cache = [y \in PageYears |-> IF o.cache[y] = "none" /\ (kind = "profile" \/ y = of)
                                                 THEN "pending" ELSE o.cache[y]]
              /\ SameView(o, q) /\ SameUrl(o, q) /\ SameLoads(o, q) /\ SamePanel(o, q)
<1> DEFINE o   == Overtake(p, kind)
           new == [serial |-> p.serial, kind |-> kind, of |-> of, share |-> share, follow |-> follow,
                   current |-> TRUE]
           W == o.waiting \cup {new}
           n == o.serial + 1
           c == [y \in PageYears |-> IF o.cache[y] = "none" /\ (kind = "profile" \/ y = of)
                                      THEN "pending" ELSE o.cache[y]]
           q == [o EXCEPT !.serial = n, !.waiting = W, !.cache = c]
<1>1. o \in PageFields /\ new \in PageRequests
  BY DEF PageRequests, PageFields
<1>2. Request(p, kind, of, share, follow) = q
  BY <1>1 DEF Request, PageFields
<1> HIDE DEF o
<1>3. n \in Nat /\ W \in SUBSET PageRequests /\ c \in [PageYears -> {"none", "pending", "held"}]
  <2>1. o.serial \in Nat /\ o.waiting \in SUBSET PageRequests
        /\ o.cache \in [PageYears -> {"none", "pending", "held"}]
    BY <1>1 DEF PageFields
  <2> HIDE DEF new
  <2>2. QED
    BY <1>1, <2>1
<1> HIDE DEF n, W, c
<1>4. q \in PageFields /\ q.waiting = W /\ q.serial = n /\ q.cache = c
  BY <1>1, <1>3 DEF PageFields
<1>5. SameView(o, q) /\ SameUrl(o, q) /\ SameLoads(o, q) /\ SamePanel(o, q)
  BY <1>1 DEF PageFields, SameView, SameUrl, SameLoads, SamePanel
<1>6. QED
  <2> HIDE DEF q
  <2>1. QED
    BY <1>1, <1>2, <1>4, <1>5 DEF W, c, n, o

\* Fewer requests, on a page that has not moved, are in order.
LEMMA CoreStays ==
    ASSUME NEW p, PageCore(p), NEW q \in PageFields, SameUrl(p, q), q.year = p.year, q.cache = p.cache,
           q.serial = p.serial, q.waiting \subseteq p.waiting
    PROVE  PageCore(q)
BY DEF PageCore, PageTyped, Numbered, PageAsked, SameUrl

\* The page asks for the profile of the state alone, and forgets that it was overtaken.
LEMMA LoadProfileIs ==
    ASSUME NEW p, PageCore(p), NEW s \in Jurisdictions \cup {NoState}
    PROVE  LET q == LoadStateProfile(p, s)
           IN /\ PageCore(q) /\ PageReleases(q) = PageReleases(p) /\ ~q.overtaken
              /\ \A y \in PageYears : q.cache[y] = "held" <=> p.cache[y] = "held"
              /\ s = NoState => q.profile = "empty" /\ \A r \in q.waiting : r.kind # "profile"
              /\ s # NoState => q.profile = "loading" /\ \E r \in q.waiting : r.kind = "profile" /\ r.of = s
              /\ SameView(p, q) /\ SameUrl(p, q) /\ SameLoads(p, q)
<1>1. p \in PageFields
  BY DEF PageCore, PageTyped
<1>2. CASE s = NoState
  <2> DEFINE a == [p EXCEPT !.overtaken = FALSE]
             o == Overtake(a, "profile")
             q == [o EXCEPT !.profile = "empty"]
  <2>1. /\ a \in PageFields /\ a.overtaken = FALSE
        /\ SameView(p, a) /\ SameUrl(p, a) /\ SameLoads(p, a) /\ SameWaits(p, a)
    BY <1>1 DEF PageFields, SameView, SameUrl, SameLoads, SameWaits
  <2>2. LoadStateProfile(p, s) = q
    BY <1>2 DEF LoadStateProfile
  <2> HIDE DEF a
  <2>3. PageCore(a)
    BY <2>1, CoreStays DEF SameView, SameWaits
  <2>4. /\ PageCore(o) /\ o.waiting = PageReleases(a) /\ o.cache = a.cache /\ o.serial = a.serial
        /\ SameView(a, o) /\ SameUrl(a, o) /\ SameLoads(a, o) /\ SamePanel(a, o)
    BY <2>3, OvertakeIs
  <2> HIDE DEF o
  <2>5. o \in PageFields /\ o.overtaken = FALSE
    BY <2>1, <2>4 DEF PageCore, PageTyped, SamePanel
  <2>6. /\ q \in PageFields /\ q.profile = "empty" /\ q.overtaken = FALSE
        /\ SameView(o, q) /\ SameUrl(o, q) /\ SameLoads(o, q) /\ SameWaits(o, q)
    BY <2>5 DEF PageFields, SameView, SameUrl, SameLoads, SameWaits
  <2> HIDE DEF q
  <2>7. PageCore(q)
    BY <2>4, <2>6, CoreStays DEF SameView, SameWaits
  <2>8. SameView(p, q) /\ SameUrl(p, q) /\ SameLoads(p, q)
    BY <2>1, <2>4, <2>6 DEF SameView, SameUrl, SameLoads
  <2>9. q.waiting = PageReleases(p) /\ q.cache = p.cache
    BY <2>1, <2>4, <2>6 DEF SameWaits, PageReleases
  <2>10. QED
    BY <1>2, <2>2, <2>6, <2>7, <2>8, <2>9 DEF PageReleases
<1>3. CASE s # NoState
  <2> DEFINE a == [[p EXCEPT !.overtaken = FALSE] EXCEPT !.profile = "loading"]
             o == Overtake(a, "profile")
             q == Request(a, "profile", s, FALSE, Stay)
             new == [serial |-> a.serial, kind |-> "profile", of |-> s, share |-> FALSE, follow |-> Stay,
                     current |-> TRUE]
  <2>1. /\ a \in PageFields /\ a.overtaken = FALSE /\ a.profile = "loading"
        /\ SameView(p, a) /\ SameUrl(p, a) /\ SameLoads(p, a) /\ SameWaits(p, a)
    BY <1>1 DEF PageFields, SameView, SameUrl, SameLoads, SameWaits
  <2>2. LoadStateProfile(p, s) = q
    BY <1>3 DEF LoadStateProfile
  <2> HIDE DEF a
  <2>3. PageCore(a)
    BY <2>1, CoreStays DEF SameView, SameWaits
  <2>4. /\ PageCore(o) /\ o.waiting = PageReleases(a) /\ o.cache = a.cache /\ o.serial = a.serial
        /\ SameView(a, o) /\ SameUrl(a, o) /\ SameLoads(a, o) /\ SamePanel(a, o)
    BY <2>3, OvertakeIs
  <2>5. o \in PageFields
    BY <2>4 DEF PageCore, PageTyped
  <2>6. s \in PageYears \cup Jurisdictions /\ Stay \in Jurisdictions \cup {NoState, Stay} /\ s \in Jurisdictions
    BY <1>3
  <2>7. /\ q \in PageFields /\ new \in PageRequests
        /\ q.waiting = o.waiting \cup {new} /\ q.serial = o.serial + 1
        /\ q.cache = [y \in PageYears |-> IF o.cache[y] = "none" /\ ("profile" = "profile" \/ y = s)
                                           THEN "pending" ELSE o.cache[y]]
        /\ SameView(o, q) /\ SameUrl(o, q) /\ SameLoads(o, q) /\ SamePanel(o, q)
    BY <2>1, <2>5, <2>6, RequestIs
  <2>8. new.serial = p.serial /\ new.kind = "profile" /\ new.of = s /\ new.follow = Stay /\ new.current = TRUE
    BY <2>1 DEF SameWaits
  <2> HIDE DEF o, q, new
  <2>9. q.waiting = PageReleases(p) \cup {new} /\ q.serial = p.serial + 1 /\ p.serial \in Nat
    <3>1. p.serial \in Nat /\ o.serial = p.serial
      BY <1>1, <2>1, <2>4 DEF SameWaits, PageFields
    <3>2. o.waiting = PageReleases(p)
      BY <2>1, <2>4 DEF SameWaits, PageReleases
    <3>3. QED
      BY <2>7, <3>1, <3>2
  <2>10. q.cache = [y \in PageYears |-> IF p.cache[y] = "none" THEN "pending" ELSE p.cache[y]]
    BY <2>1, <2>4, <2>7 DEF SameWaits
  <2>11. SameView(p, q) /\ SameUrl(p, q) /\ SameLoads(p, q) /\ q.profile = "loading" /\ ~q.overtaken
    BY <2>1, <2>4, <2>7 DEF SameView, SameUrl, SameLoads, SamePanel
  <2>12. PageTyped(q)
    BY <2>7, <2>11 DEF PageCore, PageTyped, SameUrl
  <2>13. Numbered(q)
    <3>1. \A r \in PageReleases(p) : r \in p.waiting /\ r.serial \in Nat
      BY <1>1 DEF PageReleases, PageFields, PageRequests
    <3>2. Numbered(p)
      BY DEF PageCore
    <3>3. QED
      BY <2>8, <2>9, <3>1, <3>2 DEF Numbered
  <2>14. PageAsked(q)
    <3>1. PageAsked(p) /\ q.year = p.year
      BY <2>11 DEF PageCore, SameView
    <3>2. \A y \in PageYears : q.cache[y] # "none" 
      BY <2>10
    <3>3. QED
      BY <2>6, <2>8, <2>9, <3>1, <3>2 DEF PageAsked, PageReleases
  <2>15. PageReleases(q) = PageReleases(p)
    BY <2>8, <2>9 DEF PageReleases
  <2>16. \A y \in PageYears : q.cache[y] = "held" <=> p.cache[y] = "held"
    BY <2>10
  <2>17. QED
    BY <1>3, <2>2, <2>8, <2>9, <2>11, <2>12, <2>13, <2>14, <2>15, <2>16 DEF PageCore
<1>4. QED
  BY <1>2, <1>3

\* What asking for a release does: it alone is current, and what waits keeps its continuation.
Loaded(p, q, year, share, follow) ==
  /\ PageCore(q) /\ q.year = year /\ q.state = p.state /\ q.level = p.level
  /\ q.result = "loading" /\ q.failures = p.failures /\ q.refused = p.refused
  /\ \A y \in PageYears : q.cache[y] = "held" <=> p.cache[y] = "held"
  /\ \A r \in q.waiting : r.kind = "release" /\ r.current => r.share = share
  /\ \E r \in q.waiting : r.kind = "release" /\ r.current /\ r.follow = follow
  /\ \A r \in p.waiting : r.kind = "profile" => r \in q.waiting
  /\ \A r \in p.waiting : r.kind = "release" /\ r.follow # Stay =>
        \E x \in q.waiting : x.kind = "release" /\ x.follow = r.follow
  /\ SameUrl(p, q) /\ SamePanel(p, q)

LEMMA LoadReleaseIs ==
    ASSUME NEW p, PageCore(p), NEW year \in PageYears, NEW share \in BOOLEAN,
           NEW follow \in Jurisdictions \cup {NoState, Stay}
    PROVE  Loaded(p, LoadRelease(p, year, share, follow), year, share, follow)
<1> DEFINE a == [p EXCEPT !.year = year, !.result = "loading"]
           older(r) == IF r.kind = "release" THEN [r EXCEPT !.current = FALSE] ELSE r
           W == {r \in {older(x) : x \in p.waiting} : r.current \/ r.follow # Stay}
           o == Overtake(a, "release")
           q == Request(a, "release", year, share, follow)
           new == [serial |-> a.serial, kind |-> "release", of |-> year, share |-> share, follow |-> follow,
                   current |-> TRUE]
<1>1. p \in PageFields /\ p.waiting \in SUBSET PageRequests /\ p.serial \in Nat
  BY DEF PageCore, PageTyped, PageFields
<1>2. /\ a \in PageFields /\ a.year = year /\ a.result = "loading" /\ a.state = p.state /\ a.level = p.level
      /\ a.failures = p.failures /\ a.refused = p.refused
      /\ SameUrl(p, a) /\ SamePanel(p, a) /\ SameWaits(p, a)
  BY <1>1 DEF PageFields, SameUrl, SamePanel, SameWaits
<1>3. LoadRelease(p, year, share, follow) = q
  BY DEF LoadRelease
<1> HIDE DEF a
<1>4. o = [a EXCEPT !.waiting = W]
  BY <1>2 DEF Overtake, SameWaits
<1>5. ASSUME NEW r \in p.waiting
      PROVE  /\ older(r) \in PageRequests /\ older(r).serial = r.serial /\ older(r).kind = r.kind
             /\ older(r).of = r.of /\ older(r).follow = r.follow
             /\ r.kind = "release" => ~older(r).current
             /\ r.kind = "profile" => older(r) = r /\ r.current
             /\ r.kind \in {"release", "profile"} /\ r \in PageRequests
  <2>1. r \in PageRequests
    BY <1>1
  <2>2. r.kind = "profile" => r.current
    BY DEF PageCore, PageAsked
  <2>3. QED
    BY <2>1, <2>2 DEF PageRequests
<1> HIDE DEF older
<1>6. W \in SUBSET PageRequests
  BY <1>5
<1>7. \A r \in W : \E x \in p.waiting : r = older(x) /\ (r.current \/ r.follow # Stay)
  OBVIOUS
<1>8. \A x \in p.waiting : older(x).current \/ older(x).follow # Stay => older(x) \in W
  OBVIOUS
<1> HIDE DEF W
<1>9. /\ o \in PageFields /\ o.waiting = W
      /\ SameView(a, o) /\ SameUrl(a, o) /\ SameLoads(a, o) /\ SamePanel(a, o)
      /\ o.serial = a.serial /\ o.cache = a.cache
  BY <1>2, <1>4, <1>6 DEF PageFields, SameView, SameUrl, SameLoads, SamePanel
<1>10. /\ q \in PageFields /\ new \in PageRequests
       /\ q.waiting = o.waiting \cup {new} /\ q.serial = o.serial + 1
       /\ q.cache = [y \in PageYears |-> IF o.cache[y] = "none" /\ ("release" = "profile" \/ y = year)
                                          THEN "pending" ELSE o.cache[y]]
       /\ SameView(o, q) /\ SameUrl(o, q) /\ SameLoads(o, q) /\ SamePanel(o, q)
  <2>1. year \in PageYears \cup Jurisdictions
    OBVIOUS
  <2> HIDE DEF q, new
  <2>2. QED
    BY <1>2, <1>9, <2>1, RequestIs DEF q, new, o
<1>11. /\ new.serial = p.serial /\ new.kind = "release" /\ new.of = year /\ new.follow = follow
       /\ new.current = TRUE /\ new.share = share
  BY <1>2 DEF SameWaits
<1> HIDE DEF o, q, new
<1>12. q.waiting = W \cup {new} /\ q.serial = p.serial + 1
  BY <1>2, <1>9, <1>10 DEF SameWaits
<1>13. q.cache = [y \in PageYears |-> IF p.cache[y] = "none" /\ y = year THEN "pending" ELSE p.cache[y]]
  BY <1>2, <1>9, <1>10 DEF SameWaits
<1>14. /\ q.year = year /\ q.state = p.state /\ q.level = p.level /\ q.result = "loading"
       /\ q.failures = p.failures /\ q.refused = p.refused /\ SameUrl(p, q) /\ SamePanel(p, q)
  BY <1>2, <1>9, <1>10 DEF SameView, SameUrl, SameLoads, SamePanel
<1>15. PageTyped(q)
  BY <1>10, <1>14 DEF PageCore, PageTyped, SameUrl
<1>16. Numbered(q)
  <2>1. Numbered(p) /\ \A r \in p.waiting : r.serial \in Nat
    BY <1>5 DEF PageCore, PageRequests
  <2>2. \A r \in W : r.serial < p.serial /\ r.serial \in Nat
    BY <1>5, <1>7, <2>1 DEF Numbered
  <2>3. \A r, t \in W : r.serial = t.serial => r = t
    BY <1>5, <1>7, <2>1 DEF Numbered
  <2>4. QED
    BY <1>1, <1>11, <1>12, <2>2, <2>3 DEF Numbered
<1>17. PageAsked(q)
  <2>1. PageAsked(p)
    BY DEF PageCore
  <2>2. \A y \in PageYears : (p.cache[y] # "none" => q.cache[y] # "none") /\ q.cache[year] # "none"
    BY <1>13
  <2>3. \A r \in W : r.kind = "release" =>
          r.of \in PageYears /\ ~r.current /\ r.follow # Stay /\ q.cache[r.of] # "none"
    BY <1>5, <1>7, <2>1, <2>2 DEF PageAsked
  <2>4. \A r \in W : r.kind = "profile" => r \in p.waiting
    BY <1>5, <1>7
  <2>5. ASSUME NEW r \in q.waiting, r.kind = "release"
        PROVE  /\ r.of \in PageYears /\ (r.current \/ r.follow # Stay) /\ q.cache[r.of] # "none"
               /\ r.current => r.of = q.year /\ r = new
    BY <1>11, <1>12, <1>14, <2>2, <2>3, <2>5
  <2>6. ASSUME NEW r \in q.waiting, r.kind = "profile" PROVE r \in p.waiting
    BY <1>11, <1>12, <2>4, <2>6
  <2>7. \A r \in q.waiting : r.kind \in {"release", "profile"}
    BY <1>5, <1>7, <1>11, <1>12
  <2>8. \A r, t \in q.waiting : r.kind = t.kind /\ r.current /\ t.current => r = t
    BY <2>1, <2>5, <2>6, <2>7 DEF PageAsked
  <2>9. \A r \in q.waiting : r.kind = "profile" =>
          r.of \in Jurisdictions /\ r.follow = Stay /\ r.current /\ \A y \in PageYears : q.cache[y] # "none"
    BY <2>1, <2>2, <2>6 DEF PageAsked
  <2>10. QED
    BY <2>5, <2>8, <2>9 DEF PageAsked
<1>18. \A r \in q.waiting : r.kind = "release" /\ r.current => r = new
  BY <1>5, <1>7, <1>12
<1>19. \A r \in p.waiting : r.kind = "profile" => r \in q.waiting
  BY <1>5, <1>8, <1>12
<1>20. \A r \in p.waiting : r.kind = "release" /\ r.follow # Stay =>
         \E x \in q.waiting : x.kind = "release" /\ x.follow = r.follow
  BY <1>5, <1>8, <1>12
<1>21. \A y \in PageYears : q.cache[y] = "held" <=> p.cache[y] = "held"
  BY <1>13
<1>22. PageCore(q)
  BY <1>15, <1>16, <1>17 DEF PageCore
<1>23. QED
  BY <1>3, <1>11, <1>12, <1>14, <1>18, <1>19, <1>20, <1>21, <1>22 DEF Loaded
-----------------------------------------------------------------------------
NoReleaseDue(p) == \A r \in p.waiting : r.kind = "release" => ~Held(p, r)
NoProfileDue(p) == \A r \in p.waiting : r.kind = "profile" => ~Held(p, r)

\* Of the releases that are there only steps through the history wait, for their continuation.
Landed(p) ==
  \A r \in p.waiting :
    r.kind = "release" /\ Held(p, r) => r.follow # Stay /\ (r.current => p.result # "loading")

LEMMA ReleaseArrivesHolds ==
    ASSUME NEW p, PageReady(p)
    PROVE  LET q == ReleaseArrives(p) IN PageReady(q) /\ Landed(q)
<1> DEFINE D == {r \in Due(p, "release") : r.current}
           n == Newest(D)
           gone == {x \in D : x.follow = Stay}
           shown == [p EXCEPT !.result = n.of, !.waiting = p.waiting \ gone]
           a == IF n.share THEN SyncUrl(shown) ELSE shown
           q == RenderAll(a)
<1>1. p \in PageFields /\ p.waiting \in SUBSET PageRequests /\ p.serial \in Nat /\ PageCore(p) /\ PageAsked(p)
  BY DEF PageReady, PageCore, PageTyped, PageFields
<1>2. CASE D = {}
  <2>1. ReleaseArrives(p) = p
    BY <1>2 DEF ReleaseArrives
  <2>2. \A r \in p.waiting : r.kind = "release" /\ Held(p, r) => ~r.current /\ r.follow # Stay
    BY <1>1, <1>2 DEF Due, PageAsked
  <2>3. QED
    BY <2>1, <2>2 DEF Landed
<1>3. CASE D # {}
  <2>1. D \subseteq p.waiting /\ \A r \in D : r.kind = "release" /\ r.current /\ Held(p, r)
    BY DEF Due
  <2>2. \A r \in p.waiting : r.kind = "release" /\ r.current /\ Held(p, r) => r \in D
    BY DEF Due
  <2>3. ReleaseArrives(p) = q
    BY <1>1, <1>3 DEF ReleaseArrives, PageFields
  <2> HIDE DEF D
  <2>4. n \in D
    <3>1. D \in SUBSET PageRequests /\ \A r \in D : r.serial < p.serial
      BY <1>1, <2>1 DEF PageCore, Numbered
    <3>2. QED
      BY <1>1, <1>3, <3>1, NewestIs
  <2>5. n.kind = "release" /\ n.of \in PageYears /\ n.of = p.year /\ n \in p.waiting /\ n.current
    BY <1>1, <2>1, <2>4 DEF PageAsked
  <2> HIDE DEF n
  <2>6. \A r \in D : r = n
    BY <1>1, <2>1, <2>4, <2>5 DEF PageAsked
  <2>7. gone \subseteq D
    OBVIOUS
  <2>8. /\ shown \in PageFields /\ shown.result = p.year /\ shown.waiting = p.waiting \ gone
        /\ shown.cache = p.cache /\ shown.serial = p.serial
        /\ shown.failures = p.failures /\ shown.refused = p.refused
        /\ SameView(p, shown) /\ SameUrl(p, shown) /\ SamePanel(p, shown)
    <3> DEFINE w == p.waiting \ gone
    <3>1. w \in SUBSET PageRequests
      BY <1>1
    <3> HIDE DEF gone, w
    <3>2. QED
      BY <1>1, <2>5, <3>1 DEF PageFields, SameView, SameUrl, SamePanel, w
  <2> HIDE DEF shown
  <2>9. PageCore(shown)
    BY <1>1, <2>8, CoreStays DEF SameView
  <2>10. /\ PageCore(a) /\ InStep(a)
         /\ SameView(shown, a) /\ SameLoads(shown, a) /\ SamePanel(shown, a) /\ SameWaits(shown, a)
    <3>1. CASE n.share
      <4>1. a = SyncUrl(shown)
        BY <3>1
      <4> HIDE DEF a
      <4>2. QED
        BY <2>9, <4>1, SyncIs DEF InStep
    <3>2. CASE ~n.share
      <4>1. a = shown
        BY <3>2
      <4> HIDE DEF a
      <4>2. InStep(p)
        BY <2>5, <3>2 DEF PageReady, PageShared
      <4>3. InStep(a)
        BY <2>8, <4>1, <4>2 DEF InStep, Url, View, SameView, SameUrl
      <4>4. QED
        BY <2>9, <4>1, <4>3 DEF SameView, SameLoads, SamePanel, SameWaits
    <3>3. QED
      BY <3>1, <3>2
  <2> HIDE DEF a
  <2>11. /\ PageCore(q) /\ InStep(q) /\ q.year = a.year /\ q.state = a.state
         /\ SameUrl(a, q) /\ SameLoads(a, q) /\ SamePanel(a, q) /\ SameWaits(a, q)
    BY <2>10, RenderIs
  <2> HIDE DEF q
  <2>12. /\ q.year = p.year /\ q.state = p.state /\ q.result = p.year /\ q.waiting = p.waiting \ gone
         /\ q.cache = p.cache /\ q.failures = p.failures /\ q.refused = p.refused /\ SamePanel(p, q)
    BY <2>8, <2>10, <2>11 DEF SameView, SameLoads, SamePanel, SameWaits
  <2>13. p.year \in PageYears /\ p.year # "loading" /\ p.year # "error"
    BY <1>1, PageNamesAre DEF PageFields
  <2>14. PageLoads(q)
    BY <2>12, <2>13 DEF PageReady, PageLoads, SamePanel
  <2>15. PageShared(q)
    BY <2>11 DEF PageShared
  <2>16. \A r \in gone : r.kind = "release" /\ r.follow = Stay
    BY <2>1
  <2>17. PageProfiled(q)
    BY <2>12, <2>16 DEF PageReady, PageProfiled, AllHeld, SamePanel
  <2>18. PageProper(q)
    <3>1. PageProper(p) /\ p.state # Stay
      BY <1>1, PageNamesAre DEF PageReady, PageFields
    <3> HIDE DEF gone
    <3>2. QED
      BY <2>12, <2>16, <3>1 DEF PageProper, SamePanel
  <2>19. Landed(q)
    <3>1. \A r \in q.waiting : Held(q, r) <=> Held(p, r)
      BY <2>12 DEF Held
    <3>2. ASSUME NEW r \in q.waiting, r.kind = "release", Held(q, r) PROVE r.follow # Stay
      <4>1. r \in p.waiting /\ r \notin gone /\ Held(p, r)
        BY <2>12, <3>1, <3>2
      <4>2. r.current => r \in D
        BY <2>2, <3>2, <4>1
      <4>3. QED
        BY <1>1, <3>2, <4>1, <4>2 DEF PageAsked
    <3>3. QED
      BY <2>12, <2>13, <3>2 DEF Landed
  <2>20. QED
    BY <2>3, <2>11, <2>14, <2>15, <2>17, <2>18, <2>19 DEF PageReady
<1>4. QED
  BY <1>2, <1>3

LEMMA ProfileArrivesHolds ==
    ASSUME NEW p, PageReady(p)
    PROVE  LET q == ProfileArrives(p)
           IN /\ PageReady(q) /\ NoProfileDue(q)
              /\ Landed(p) => Landed(q)
              /\ NoReleaseDue(p) => NoReleaseDue(q)
<1> DEFINE D == Due(p, "profile")
           n == Newest(D)
           profile == IF n.of = p.state THEN n.of ELSE p.profile
           q == [p EXCEPT !.profile = profile, !.waiting = p.waiting \ D]
<1>1. p \in PageFields /\ p.waiting \in SUBSET PageRequests /\ p.serial \in Nat /\ PageCore(p) /\ PageAsked(p)
  BY DEF PageReady, PageCore, PageTyped, PageFields
<1>2. D \subseteq p.waiting /\ (\A r \in D : r.kind = "profile" /\ Held(p, r))
      /\ \A r \in p.waiting : r.kind = "profile" /\ Held(p, r) => r \in D
  BY DEF Due
<1>3. CASE D = {}
  <2>1. ProfileArrives(p) = p
    BY <1>3 DEF ProfileArrives
  <2> HIDE DEF D
  <2>2. QED
    BY <1>2, <1>3, <2>1 DEF NoProfileDue
<1>4. CASE D # {}
  <2>1. ProfileArrives(p) = q
    BY <1>1, <1>4 DEF ProfileArrives, PageFields
  <2> HIDE DEF D
  <2>2. n \in D
    <3>1. D \in SUBSET PageRequests /\ \A r \in D : r.serial < p.serial
      BY <1>1, <1>2 DEF PageCore, Numbered
    <3>2. QED
      BY <1>1, <1>4, <3>1, NewestIs
  <2>3. n.of \in Jurisdictions /\ n.kind = "profile" /\ n.current /\ AllHeld(p)
    BY <1>1, <1>2, <2>2 DEF PageAsked, Held, AllHeld
  <2>4. \A r \in D : r = n
    BY <1>1, <1>2, <2>2, <2>3 DEF PageAsked
  <2> HIDE DEF n
  <2>5. profile \in Jurisdictions \cup {"empty", "loading", "error"}
    BY <1>1, <2>3 DEF PageFields
  <2>6. (profile = p.state /\ n.of = p.state) \/ (profile = p.profile /\ n.of # p.state)
    OBVIOUS
  <2> HIDE DEF profile
  <2>7. /\ q \in PageFields /\ q.profile = profile /\ q.waiting = p.waiting \ D
        /\ q.cache = p.cache /\ q.serial = p.serial /\ q.overtaken = p.overtaken
        /\ SameView(p, q) /\ SameUrl(p, q) /\ SameLoads(p, q)
    BY <1>1, <2>5 DEF PageFields, SameView, SameUrl, SameLoads
  <2> HIDE DEF q
  <2>8. PageCore(q)
    BY <1>1, <2>7, CoreStays DEF SameView
  <2>9. \A r \in p.waiting : r.kind = "release" => r \in q.waiting
    BY <1>2, <2>7
  <2>10. q.year = p.year /\ q.state = p.state /\ q.level = p.level /\ q.result = p.result
         /\ q.failures = p.failures /\ q.refused = p.refused /\ q.history = p.history /\ q.at = p.at
    BY <2>7 DEF SameView, SameLoads, SameUrl
  <2>11. "error" = q.profile => "error" = p.profile
    BY <2>3, <2>6, <2>7, PageNamesAre
  <2>12. PageLoads(q)
    <3>1. PageLoads(p)
      BY DEF PageReady
    <3>2. Shows(q) => q.result = q.year
      BY <2>10, <3>1 DEF PageLoads, Shows
    <3>3. "error" \in {q.result, q.profile} => q.failures > 0 \/ q.refused
      BY <2>10, <2>11, <3>1 DEF PageLoads
    <3>4. q.result = "loading" => \E r \in q.waiting : r.kind = "release" /\ r.current
      BY <2>9, <2>10, <3>1 DEF PageLoads
    <3>5. QED
      BY <3>2, <3>3, <3>4 DEF PageLoads
  <2>13. PageShared(q)
    <3>1. InStep(p) => InStep(q)
      BY <2>10 DEF InStep, Url, View
    <3>2. (Shows(q) => Shows(p)) /\ q.waiting \subseteq p.waiting
      BY <2>7, <2>10 DEF Shows
    <3>3. QED
      BY <3>1, <3>2 DEF PageReady, PageShared
  <2>14. PageProfiled(q)
    BY <2>3, <2>6, <2>7, <2>9, <2>10 DEF PageReady, PageProfiled, AllHeld
  <2>15. PageProper(q)
    <3>1. PageProper(p)
      BY DEF PageReady
    <3>2. CASE n.of = p.state
      BY <2>3, <2>6, <2>7, <2>10, <3>2, PageNamesAre DEF PageProper
    <3>3. CASE n.of # p.state
      <4>1. \A r \in p.waiting : r.kind = "profile" /\ r.of = p.state => r \in q.waiting
        BY <2>4, <2>7, <3>3
      <4>2. q.profile = p.profile
        BY <2>6, <2>7, <3>3
      <4>3. QED
        BY <2>7, <2>9, <2>10, <3>1, <4>1, <4>2 DEF PageProper
    <3>4. QED
      BY <3>2, <3>3
  <2>16. \A r : Held(q, r) <=> Held(p, r)
    BY <2>7 DEF Held
  <2>17. q.waiting \subseteq p.waiting /\ NoProfileDue(q)
    BY <1>2, <2>7, <2>16 DEF NoProfileDue
  <2>18. (Landed(p) => Landed(q)) /\ (NoReleaseDue(p) => NoReleaseDue(q))
    BY <2>10, <2>16, <2>17 DEF Landed, NoReleaseDue
  <2>19. QED
    BY <2>1, <2>8, <2>12, <2>13, <2>14, <2>15, <2>17, <2>18 DEF PageReady
<1>5. QED
  BY <1>3, <1>4

\* After steps through the history the panel is about the selected state, or was overtaken.
LEMMA FollowIs ==
    ASSUME NEW p, PageCore(p), NEW steps \in SUBSET PageRequests, NEW n \in Nat, steps # {},
           \A r \in steps : r.serial < n /\ r.follow # Stay,
           \A r, t \in steps : r.serial = t.serial => r = t
    PROVE  LET q == Follow(p, steps)
           IN /\ PageCore(q) /\ PageProper(q) /\ PageReleases(q) = PageReleases(p)
              /\ \A y \in PageYears : q.cache[y] = "held" <=> p.cache[y] = "held"
              /\ q.profile \in {"empty", "loading"}
              /\ SameView(p, q) /\ SameUrl(p, q) /\ SameLoads(p, q)
<1> DEFINE last   == Newest(steps).follow
           asking == {r \in steps : r.follow # NoState}
           f == Newest(asking).follow
           asked == IF asking = {} THEN p ELSE LoadStateProfile(p, f)
           profile == IF last = NoState THEN "empty" ELSE asked.profile
           over == last # p.state
           q == [asked EXCEPT !.profile = profile, !.overtaken = over]
<1>1. Newest(steps) \in steps /\ \A r \in steps : r.serial <= Newest(steps).serial
  BY NewestIs
<1>2. last \in Jurisdictions \cup {NoState}
  BY <1>1 DEF PageRequests
<1>3. last # NoState => asking # {} /\ f = last
  <2> SUFFICES ASSUME last # NoState PROVE asking # {} /\ f = last
    OBVIOUS
  <2>1. Newest(steps) \in asking
    BY <1>1
  <2>2. asking \in SUBSET PageRequests /\ asking # {} /\ asking \subseteq steps
    BY <2>1
  <2> HIDE DEF asking
  <2>3. Newest(asking) \in asking /\ \A r \in asking : r.serial <= Newest(asking).serial
    BY <2>2, NewestIs
  <2>4. Newest(asking).serial = Newest(steps).serial
    <3>1. Newest(asking).serial \in Nat /\ Newest(steps).serial \in Nat
      BY <1>1, <2>2, <2>3 DEF PageRequests
    <3>2. Newest(asking).serial <= Newest(steps).serial /\ Newest(steps).serial <= Newest(asking).serial
      BY <1>1, <2>1, <2>2, <2>3
    <3>3. QED
      BY <3>1, <3>2
  <2>5. Newest(asking) = Newest(steps)
    BY <1>1, <2>2, <2>3, <2>4
  <2>6. QED
    BY <2>2, <2>5
<1>4. asking # {} => f \in Jurisdictions
  <2> SUFFICES ASSUME asking # {} PROVE f \in Jurisdictions
    OBVIOUS
  <2>1. asking \in SUBSET PageRequests /\ (\A r \in asking : r.follow \in Jurisdictions) /\ asking \subseteq steps
    BY DEF PageRequests
  <2> HIDE DEF asking
  <2>2. Newest(asking) \in asking
    BY <2>1, NewestIs
  <2>3. QED
    BY <2>1, <2>2
<1> HIDE DEF last, asking, f
<1>5. /\ PageCore(asked) /\ PageReleases(asked) = PageReleases(p)
      /\ \A y \in PageYears : asked.cache[y] = "held" <=> p.cache[y] = "held"
      /\ SameView(p, asked) /\ SameUrl(p, asked) /\ SameLoads(p, asked)
      /\ asking # {} => asked.profile = "loading" /\ \E r \in asked.waiting : r.kind = "profile" /\ r.of = f
  <2>1. CASE asking = {}
    <3>1. asked = p
      BY <2>1
    <3> HIDE DEF asked
    <3>2. QED
      BY <2>1, <3>1 DEF SameView, SameUrl, SameLoads
  <2>2. CASE asking # {}
    <3>1. asked = LoadStateProfile(p, f) /\ f \in Jurisdictions /\ f # NoState
      BY <1>4, <2>2, PageNamesAre
    <3> HIDE DEF asked
    <3>2. QED
      BY <3>1, LoadProfileIs
  <2>3. QED
    BY <2>1, <2>2
<1>6. Follow(p, steps) = q
  <2>1. p \in PageFields
    BY DEF PageCore, PageTyped
  <2>2. QED
    BY DEF Follow, last, asking, f
<1> HIDE DEF asked
<1>7. profile \in {"empty", "loading"} /\ (last = NoState => profile = "empty")
  BY <1>3, <1>5
<1>8. over \in BOOLEAN /\ (over <=> last # p.state)
  OBVIOUS
<1> HIDE DEF profile, over
<1>9. /\ PageCore(q) /\ q.profile = profile /\ q.overtaken = over
      /\ SameView(asked, q) /\ SameUrl(asked, q) /\ SameLoads(asked, q) /\ SameWaits(asked, q)
  <2>1. profile \in Jurisdictions \cup {"empty", "loading", "error"}
    BY <1>7
  <2>2. asked \in PageFields /\ PageCore(asked)
    BY <1>5 DEF PageCore, PageTyped
  <2>3. /\ q \in PageFields /\ q.profile = profile /\ q.overtaken = over
        /\ SameView(asked, q) /\ SameUrl(asked, q) /\ SameLoads(asked, q) /\ SameWaits(asked, q)
    BY <1>8, <2>1, <2>2 DEF PageFields, SameView, SameUrl, SameLoads, SameWaits
  <2> HIDE DEF q
  <2>4. PageCore(q)
    BY <2>2, <2>3, CoreStays DEF SameView, SameWaits
  <2>5. QED
    BY <2>3, <2>4
<1> HIDE DEF q
<1>10. SameView(p, q) /\ SameUrl(p, q) /\ SameLoads(p, q)
  BY <1>5, <1>9 DEF SameView, SameUrl, SameLoads
<1>11. PageProper(q)
  <2>1. CASE last # p.state
    BY <1>9, <1>8, <2>1 DEF PageProper
  <2>2. CASE last = p.state /\ last = NoState
    BY <1>7, <1>9, <1>10, <2>2 DEF PageProper, SameView
  <2>3. CASE last = p.state /\ last # NoState
    BY <1>3, <1>5, <1>9, <1>10, <2>3 DEF PageProper, SameView, SameWaits
  <2>4. QED
    BY <2>1, <2>2, <2>3
<1>12. QED
  BY <1>5, <1>6, <1>7, <1>9, <1>10, <1>11 DEF SameWaits, PageReleases

LEMMA FollowArrivedHolds ==
    ASSUME NEW p, PageReady(p), Landed(p)
    PROVE  LET q == FollowArrived(p) IN PageReady(q) /\ NoReleaseDue(q)
<1> DEFINE due == {r \in Due(p, "release") : r.follow # Stay}
           rest == [p EXCEPT !.waiting = p.waiting \ due]
           q == Follow(rest, due)
<1>1. p \in PageFields /\ p.waiting \in SUBSET PageRequests /\ p.serial \in Nat /\ PageCore(p)
      /\ Numbered(p)
  BY DEF PageReady, PageCore, PageTyped, PageFields
<1>2. /\ due \subseteq p.waiting /\ due \in SUBSET PageRequests
      /\ \A r \in due : r.kind = "release" /\ Held(p, r) /\ r.follow # Stay
      /\ \A r \in p.waiting : r.kind = "release" /\ Held(p, r) => r \in due
  BY <1>1 DEF Due, Landed
<1>3. FollowArrived(p) = q
  BY <1>1 DEF FollowArrived, PageFields
<1> HIDE DEF due
<1>4. /\ rest \in PageFields /\ rest.waiting = p.waiting \ due /\ rest.cache = p.cache /\ rest.serial = p.serial
      /\ SameView(p, rest) /\ SameUrl(p, rest) /\ SameLoads(p, rest) /\ SamePanel(p, rest)
  BY <1>1 DEF PageFields, SameView, SameUrl, SameLoads, SamePanel
<1>5. CASE due = {}
  <2>1. q = rest
    BY <1>5 DEF Follow
  <2>2. rest = p
    BY <1>1, <1>5 DEF PageFields
  <2> HIDE DEF q, rest
  <2>3. QED
    BY <1>2, <1>3, <1>5, <2>1, <2>2 DEF NoReleaseDue
<1>6. CASE due # {}
  <2> HIDE DEF rest
  <2>1. PageCore(rest)
    BY <1>1, <1>4, CoreStays DEF SameView
  <2>2. /\ \A r \in due : r.serial < p.serial /\ r.follow # Stay
        /\ \A r, t \in due : r.serial = t.serial => r = t
    BY <1>1, <1>2 DEF Numbered
  <2>3. /\ PageCore(q) /\ PageProper(q) /\ PageReleases(q) = PageReleases(rest)
        /\ \A y \in PageYears : q.cache[y] = "held" <=> rest.cache[y] = "held"
        /\ q.profile \in {"empty", "loading"}
        /\ SameView(rest, q) /\ SameUrl(rest, q) /\ SameLoads(rest, q)
    BY <1>1, <1>2, <1>6, <2>1, <2>2, FollowIs
  <2> HIDE DEF q
  <2>4. /\ q.year = p.year /\ q.state = p.state /\ q.level = p.level /\ q.result = p.result
        /\ q.failures = p.failures /\ q.refused = p.refused /\ q.history = p.history /\ q.at = p.at
    BY <1>4, <2>3 DEF SameView, SameUrl, SameLoads
  <2>5. q.profile \notin Jurisdictions /\ q.profile # "error"
    BY <2>3, PageNamesAre
  <2>6. \A r : r \in q.waiting /\ r.kind = "release" <=> r \in p.waiting \ due /\ r.kind = "release"
    BY <1>4, <2>3 DEF PageReleases
  <2>7. \A y \in PageYears : q.cache[y] = "held" <=> p.cache[y] = "held"
    BY <1>4, <2>3
  <2>8. PageLoads(q)
    <3>1. PageLoads(p)
      BY DEF PageReady
    <3>2. (Shows(q) => q.result = q.year) /\ ("error" \in {q.result, q.profile} => q.failures > 0 \/ q.refused)
      BY <2>4, <2>5, <3>1 DEF PageLoads, Shows
    <3>3. p.result = "loading" => \A r \in due : ~r.current
      BY <1>2 DEF Landed
    <3>4. q.result = "loading" => \E r \in q.waiting : r.kind = "release" /\ r.current
      BY <2>4, <2>6, <3>1, <3>3 DEF PageLoads
    <3>5. QED
      BY <3>2, <3>4 DEF PageLoads
  <2>9. PageShared(q)
    <3>1. InStep(p) => InStep(q)
      BY <2>4 DEF InStep, Url, View
    <3>2. PageShared(p) /\ (Shows(q) => Shows(p))
      BY <2>4 DEF PageReady, Shows
    <3>3. QED
      BY <2>6, <3>1, <3>2 DEF PageShared
  <2>10. PageProfiled(q)
    BY <2>5 DEF PageProfiled
  <2>11. NoReleaseDue(q)
    <3> SUFFICES ASSUME NEW r \in q.waiting, r.kind = "release", Held(q, r) PROVE FALSE
      BY DEF NoReleaseDue
    <3>1. r \in p.waiting \ due
      BY <2>6
    <3>2. Held(p, r)
      BY <2>7 DEF Held
    <3>3. QED
      BY <1>2, <3>1, <3>2
  <2>12. QED
    BY <1>3, <2>3, <2>8, <2>9, <2>10, <2>11 DEF PageReady
<1>7. QED
  BY <1>5, <1>6

LEMMA ReactHolds ==
    ASSUME NEW p, PageReady(p)
    PROVE  PageHolds(React(p))
<1> DEFINE a == ReleaseArrives(p)
           b == ProfileArrives(a)
           c == FollowArrived(b)
           q == ProfileArrives(c)
<1>1. PageReady(a) /\ Landed(a)
  BY ReleaseArrivesHolds
<1> HIDE DEF a
<1>2. PageReady(b) /\ Landed(b)
  BY <1>1, ProfileArrivesHolds
<1> HIDE DEF b
<1>3. PageReady(c) /\ NoReleaseDue(c)
  BY <1>2, FollowArrivedHolds
<1> HIDE DEF c
<1>4. PageReady(q) /\ NoReleaseDue(q) /\ NoProfileDue(q)
  BY <1>3, ProfileArrivesHolds
<1> HIDE DEF q
<1>5. \A r \in q.waiting : r.kind \in {"release", "profile"}
  BY <1>4 DEF PageReady, PageCore, PageTyped, PageFields, PageRequests
<1>6. PageQuiet(q)
  BY <1>4, <1>5 DEF PageQuiet, NoReleaseDue, NoProfileDue
<1>7. QED
  BY <1>4, <1>6 DEF PageHolds, React, q, c, b, a
-----------------------------------------------------------------------------
\* A page that only writes its URL or draws its view stays ready.
LEMMA ReadyStays ==
    ASSUME NEW p, PageReady(p), NEW q, PageCore(q), q.year = p.year, q.state = p.state,
           SameLoads(p, q), SamePanel(p, q), SameWaits(p, q), InStep(p) => InStep(q)
    PROVE  PageReady(q) /\ (PageQuiet(p) => PageQuiet(q))
<1>1. PageLoads(q)
  BY DEF PageReady, PageLoads, SameLoads, SamePanel, SameWaits, Shows
<1>2. PageShared(q)
  BY DEF PageReady, PageShared, SameLoads, SameWaits, Shows
<1>3. PageProfiled(q)
  BY DEF PageReady, PageProfiled, AllHeld, SamePanel, SameWaits
<1>4. PageProper(q)
  BY DEF PageReady, PageProper, SamePanel, SameWaits
<1>5. PageQuiet(p) => PageQuiet(q)
  BY DEF PageQuiet, Held, SameWaits
<1>6. QED
  BY <1>1, <1>2, <1>3, <1>4, <1>5 DEF PageReady

\* A page that selects a state and asks for its profile is ready.
LEMMA ProfileAsked ==
    ASSUME NEW p, PageReady(p), NEW s \in Jurisdictions \cup {NoState},
           NEW a, PageCore(a), a.year = p.year, SameLoads(p, a), SameWaits(p, a),
           NEW q, PageCore(q), q.year = a.year, q.state = s, InStep(q),
           SameLoads(LoadStateProfile(a, s), q), SamePanel(LoadStateProfile(a, s), q),
           SameWaits(LoadStateProfile(a, s), q)
    PROVE  PageReady(q)
<1> DEFINE l == LoadStateProfile(a, s)
<1>1. /\ PageReleases(l) = PageReleases(a)
      /\ s = NoState => l.profile = "empty"
      /\ s # NoState => l.profile = "loading" /\ \E r \in l.waiting : r.kind = "profile" /\ r.of = s
      /\ SameLoads(a, l)
  BY LoadProfileIs
<1>2. SameLoads(l, q) /\ SamePanel(l, q) /\ SameWaits(l, q)
  OBVIOUS
<1> HIDE DEF l
<1>3. /\ q.result = p.result /\ q.failures = p.failures /\ q.refused = p.refused /\ q.year = p.year
      /\ q.profile = l.profile /\ q.waiting = l.waiting
  BY <1>1, <1>2 DEF SameLoads, SamePanel, SameWaits
<1>4. q.profile \notin Jurisdictions /\ q.profile # "error"
  BY <1>1, <1>3, PageNamesAre
<1>5. \A r \in p.waiting : r.kind = "release" => r \in q.waiting
  BY <1>1, <1>3 DEF PageReleases, SameWaits
<1>6. PageLoads(q)
  <2>1. PageLoads(p)
    BY DEF PageReady
  <2>2. (Shows(q) => q.result = q.year) /\ ("error" \in {q.result, q.profile} => q.failures > 0 \/ q.refused)
    BY <1>3, <1>4, <2>1 DEF PageLoads, Shows
  <2>3. q.result = "loading" => \E r \in q.waiting : r.kind = "release" /\ r.current
    BY <1>3, <1>5, <2>1 DEF PageLoads
  <2>4. QED
    BY <2>2, <2>3 DEF PageLoads
<1>7. PageShared(q)
  BY DEF PageShared
<1>8. PageProfiled(q)
  BY <1>4 DEF PageProfiled
<1>9. PageProper(q)
  BY <1>1, <1>3 DEF PageProper
<1>10. QED
  BY <1>6, <1>7, <1>8, <1>9 DEF PageReady

LEMMA EventHolds ==
    ASSUME NEW p, PageReady(p), Event(p)
    PROVE  PageHolds(page')
<1> DEFINE n == p.events + 1
           q == [p EXCEPT !.events = n]
<1>1. p \in PageFields /\ PageCore(p) /\ n \in Nat
  <2>1. p \in PageFields /\ PageCore(p)
    BY DEF PageReady, PageCore, PageTyped
  <2>2. p.events \in Nat
    BY <2>1 DEF PageFields
  <2>3. QED
    BY <2>1, <2>2
<1>2. page' = React(q)
  BY <1>1 DEF Event, PageFields
<1> HIDE DEF n
<1>3. /\ q \in PageFields /\ SameView(p, q) /\ SameUrl(p, q) /\ SameLoads(p, q) /\ SamePanel(p, q)
      /\ SameWaits(p, q)
  BY <1>1 DEF PageFields, SameView, SameUrl, SameLoads, SamePanel, SameWaits
<1> HIDE DEF q
<1>4. PageCore(q)
  BY <1>1, <1>3, CoreStays DEF SameView, SameWaits
<1>5. InStep(p) => InStep(q)
  BY <1>3 DEF InStep, Url, View, SameView, SameUrl
<1>6. PageReady(q)
  BY <1>3, <1>4, <1>5, ReadyStays DEF SameView
<1>7. QED
  BY <1>2, <1>6, ReactHolds

LEMMA StartedHolds ==
    ASSUME NEW p, PageHolds(p), NEW year \in PageYears, NEW arrived \in BOOLEAN
    PROVE  PageHolds(Started(p, year, arrived))
<1> DEFINE release == IF p.start.release = year THEN "" ELSE p.start.release
           profile == p.start.profile /\ arrived /\ \E y \in PageYears : p.cache[y] # "held"
           rest == [release |-> release, profile |-> profile]
           q == [p EXCEPT !.start = rest]
<1>1. p \in PageFields /\ PageCore(p) /\ PageReady(p) /\ PageQuiet(p)
  BY DEF PageHolds, PageReady, PageCore, PageTyped
<1>2. Started(p, year, arrived) \in {SyncUrl(q), q}
  BY DEF Started
<1>3. rest \in [release : PageYears \cup {""}, profile : BOOLEAN]
  <2>1. release \in PageYears \cup {""}
    BY <1>1 DEF PageFields
  <2>2. profile \in BOOLEAN
    OBVIOUS
  <2> HIDE DEF release, profile
  <2>3. QED
    BY <2>1, <2>2
<1> HIDE DEF rest
<1>4. /\ q \in PageFields /\ SameView(p, q) /\ SameUrl(p, q) /\ SameLoads(p, q) /\ SamePanel(p, q)
      /\ SameWaits(p, q)
  BY <1>1, <1>3 DEF PageFields, SameView, SameUrl, SameLoads, SamePanel, SameWaits
<1> HIDE DEF q
<1>5. PageCore(q)
  BY <1>1, <1>4, CoreStays DEF SameView, SameWaits
<1>6. InStep(p) => InStep(q)
  BY <1>4 DEF InStep, Url, View, SameView, SameUrl
<1>7. PageReady(q) /\ PageQuiet(q)
  BY <1>1, <1>4, <1>5, <1>6, ReadyStays DEF SameView
<1>8. PageReady(SyncUrl(q)) /\ PageQuiet(SyncUrl(q))
  <2> DEFINE t == SyncUrl(q)
  <2>1. /\ PageCore(t) /\ Url(t) = View(t)
        /\ SameView(q, t) /\ SameLoads(q, t) /\ SamePanel(q, t) /\ SameWaits(q, t)
    BY <1>5, SyncIs
  <2> HIDE DEF t
  <2>2. PageReady(t) /\ PageQuiet(t)
    BY <1>7, <2>1, ReadyStays DEF SameView, InStep
  <2>3. QED
    BY <2>2 DEF t
<1>9. QED
  BY <1>2, <1>7, <1>8 DEF PageHolds

LEMMA ArrivalHolds ==
    ASSUME PageHolds(page), NEW year \in PageYears, ArtifactArrives(year)
    PROVE  PageHolds(page')
<1> DEFINE p == page
           c == [p.cache EXCEPT ![year] = "held"]
           q == [p EXCEPT !.cache = c]
<1>1. p \in PageFields /\ PageCore(p) /\ PageReady(p)
  BY DEF PageHolds, PageReady, PageCore, PageTyped
<1>2. c \in [PageYears -> {"none", "pending", "held"}] /\ \A y \in PageYears : c[y] \in {p.cache[y], "held"}
  BY <1>1 DEF PageFields
<1>3. page' = Started(React(q), year, TRUE)
  BY <1>1 DEF ArtifactArrives, PageFields
<1> HIDE DEF c, p
<1>4. /\ q \in PageFields /\ q.cache = c /\ q.waiting = p.waiting /\ q.serial = p.serial
      /\ SameView(p, q) /\ SameUrl(p, q) /\ SameLoads(p, q) /\ SamePanel(p, q)
  BY <1>1, <1>2 DEF PageFields, SameView, SameUrl, SameLoads, SamePanel
<1> HIDE DEF q
<1>5. \A y \in PageYears : (q.cache[y] = "none" => p.cache[y] = "none") /\ (p.cache[y] = "held" => q.cache[y] = "held")
  BY <1>2, <1>4
<1>6. PageCore(q)
  BY <1>1, <1>4, <1>5 DEF PageCore, PageTyped, Numbered, PageAsked, SameView, SameUrl
<1>7. PageLoads(q) /\ PageShared(q)
  <2>1. InStep(p) => InStep(q)
    BY <1>4 DEF InStep, Url, View, SameView, SameUrl
  <2>2. QED
    BY <1>1, <1>4, <2>1 DEF PageReady, PageLoads, PageShared, Shows, SameView, SameLoads, SamePanel
<1>8. PageProfiled(q) /\ PageProper(q)
  BY <1>1, <1>4, <1>5 DEF PageReady, PageProfiled, PageProper, AllHeld, SameView, SamePanel
<1>9. PageReady(q)
  BY <1>6, <1>7, <1>8 DEF PageReady
<1>10. QED
  BY <1>3, <1>9, ReactHolds, StartedHolds

\* The settled requests are gone with the artifact, and what they leave says so.
LEMMA FailureHolds ==
    ASSUME PageHolds(page), NEW year \in PageYears, ArtifactFails(year)
    PROVE  PageHolds(page')
<1> DEFINE p == page
           settled == {r \in p.waiting : r.kind = "profile" \/ r.of = year}
           steps == {r \in settled : r.kind = "release" /\ r.follow # Stay}
           before == {r \in steps : \A q \in settled : q.kind = "profile" => r.serial < q.serial}
           after == steps \ before
           n == p.failures + 1
           c == [p.cache EXCEPT ![year] = "none"]
           w == p.waiting \ settled
           a == [p EXCEPT !.cache = c, !.failures = n, !.waiting = w]
           b == ReleaseFails(a, settled)
           d == Follow(b, before)
           e == ProfileFails(d, settled)
           f == Follow(e, after)
<1>1. p \in PageFields /\ PageCore(p) /\ PageReady(p) /\ PageQuiet(p)
  BY DEF PageHolds, PageReady, PageCore, PageTyped
<1>2. /\ p.waiting \in SUBSET PageRequests /\ p.serial \in Nat /\ p.failures \in Nat
      /\ p.cache \in [PageYears -> {"none", "pending", "held"}] /\ p.cache[year] = "pending"
  BY <1>1 DEF PageFields, ArtifactFails
<1>3. page' = Started(f, year, FALSE)
  <2>1. a = [p EXCEPT !.cache[year] = "none", !.failures = p.failures + 1, !.waiting = p.waiting \ settled]
    BY <1>1 DEF PageFields
  <2>2. QED
    BY <2>1, Zenon DEF ArtifactFails
<1>4. /\ settled \subseteq p.waiting /\ steps \subseteq settled /\ before \subseteq steps /\ after \subseteq steps
      /\ before \cup after = steps /\ w \subseteq p.waiting
      /\ \A r \in p.waiting : r \in settled \/ r \in w
      /\ \A r \in w : r.kind # "profile" /\ r.of # year
      /\ \A r \in p.waiting : r.kind = "profile" => r \in settled
      /\ \A r \in steps : r.kind = "release" /\ r.follow # Stay
      /\ \A r \in settled : r.kind = "release" /\ r.follow # Stay => r \in steps
  OBVIOUS
<1>5. /\ c \in [PageYears -> {"none", "pending", "held"}] /\ c[year] # "held"
      /\ \A y \in PageYears : (c[y] = "held" <=> p.cache[y] = "held") /\ (y # year => c[y] = p.cache[y])
  BY <1>2
<1>6. n \in Nat /\ n > 0 /\ w \in SUBSET PageRequests
  BY <1>2, <1>4
<1> HIDE DEF p, settled, steps, before, after, n, c, w
<1>7. /\ a \in PageFields /\ a.cache = c /\ a.failures = n /\ a.waiting = w /\ a.serial = p.serial
      /\ a.result = p.result /\ a.refused = p.refused /\ SameView(p, a) /\ SameUrl(p, a) /\ SamePanel(p, a)
  BY <1>1, <1>5, <1>6 DEF PageFields, SameView, SameUrl, SamePanel
<1>8. PageCore(a)
  <2>1. PageTyped(a)
    BY <1>1, <1>7 DEF PageCore, PageTyped, SameUrl
  <2>2. Numbered(a)
    BY <1>1, <1>4, <1>7 DEF PageCore, Numbered
  <2>3. PageAsked(a)
    BY <1>1, <1>4, <1>5, <1>7 DEF PageCore, PageAsked, SameView
  <2>4. QED
    BY <2>1, <2>2, <2>3 DEF PageCore
<1> HIDE DEF a
<1>9. p.profile \notin Jurisdictions
  BY <1>1, <1>2 DEF PageReady, PageProfiled, AllHeld
<1>10. /\ PageCore(b) /\ SameView(a, b) /\ SameUrl(a, b) /\ SameWaits(a, b)
       /\ b.failures = a.failures /\ b.refused = a.refused /\ b.overtaken = a.overtaken
       /\ b.result \in {a.result, "error"} /\ b.profile \in {a.profile, "error"}
       /\ (\E r \in settled : r.kind = "release" /\ r.current) => b.result = "error"
  <2> DEFINE profile == IF a.state = NoState THEN a.profile ELSE "error"
             t == [a EXCEPT !.result = "error", !.profile = profile]
  <2>1. CASE \A r \in settled : r.kind # "release" \/ ~r.current
    <3>1. b = a
      BY <2>1 DEF ReleaseFails
    <3> HIDE DEF b
    <3>2. QED
      BY <1>8, <2>1, <3>1 DEF SameView, SameUrl, SameWaits
  <2>2. CASE ~\A r \in settled : r.kind # "release" \/ ~r.current
    <3>1. b = t
      BY <1>7, <2>2 DEF ReleaseFails, PageFields
    <3>2. profile \in {a.profile, "error"} /\ profile \in Jurisdictions \cup {"empty", "loading", "error"}
      BY <1>7 DEF PageFields
    <3> HIDE DEF profile
    <3>3. /\ t \in PageFields /\ SameView(a, t) /\ SameUrl(a, t) /\ SameWaits(a, t)
          /\ t.failures = a.failures /\ t.refused = a.refused /\ t.overtaken = a.overtaken
          /\ t.result = "error" /\ t.profile = profile
      BY <1>7, <3>2 DEF PageFields, SameView, SameUrl, SameWaits
    <3> HIDE DEF b, t
    <3>4. PageCore(t)
      BY <1>8, <3>3, CoreStays DEF SameView, SameWaits
    <3>5. QED
      BY <3>1, <3>2, <3>3, <3>4
  <2>3. QED
    BY <2>1, <2>2
<1> HIDE DEF b
<1>11. ASSUME NEW x, PageCore(x), NEW some \in SUBSET steps
       PROVE  LET q == Follow(x, some)
              IN /\ PageCore(q) /\ PageReleases(q) = PageReleases(x)
                 /\ \A y \in PageYears : q.cache[y] = "held" <=> x.cache[y] = "held"
                 /\ SameView(x, q) /\ SameUrl(x, q) /\ SameLoads(x, q)
                 /\ some = {} => q = x
                 /\ some # {} => PageProper(q) /\ q.profile \in {"empty", "loading"}
  <2>1. CASE some = {}
    <3>1. Follow(x, some) = x
      BY <2>1 DEF Follow
    <3>2. QED
      BY <1>11, <2>1, <3>1 DEF SameView, SameUrl, SameLoads
  <2>2. CASE some # {}
    <3>1. /\ some \in SUBSET PageRequests
          /\ \A r \in some : r.serial < p.serial /\ r.follow # Stay
          /\ \A r, t \in some : r.serial = t.serial => r = t
      BY <1>1, <1>2, <1>4 DEF PageCore, Numbered
    <3>2. QED
      BY <1>2, <1>11, <2>2, <3>1, FollowIs
  <2>3. QED
    BY <2>1, <2>2
<1>12. /\ PageCore(d) /\ PageReleases(d) = PageReleases(b)
       /\ \A y \in PageYears : d.cache[y] = "held" <=> b.cache[y] = "held"
       /\ SameView(b, d) /\ SameUrl(b, d) /\ SameLoads(b, d)
       /\ before = {} => d = b
       /\ before # {} => PageProper(d) /\ d.profile \in {"empty", "loading"}
  BY <1>4, <1>10, <1>11
<1> HIDE DEF d
<1>13. /\ PageCore(e) /\ SameView(d, e) /\ SameUrl(d, e) /\ SameLoads(d, e) /\ SameWaits(d, e)
       /\ e.overtaken = d.overtaken /\ e.profile \in {d.profile, "error"}
       /\ (\E r \in settled : r.kind = "profile" /\ r.of = d.state) /\ (\A r \in d.waiting : r.kind # "profile")
          => e.profile = "error"
  <2> DEFINE t == [d EXCEPT !.profile = "error"]
             fails == /\ \E r \in settled : r.kind = "profile" /\ r.of = d.state
                      /\ \A r \in d.waiting : r.kind # "profile"
  <2>1. e = IF fails THEN t ELSE d
    BY DEF ProfileFails
  <2>2. d \in PageFields
    BY <1>12 DEF PageCore, PageTyped
  <2>3. /\ t \in PageFields /\ SameView(d, t) /\ SameUrl(d, t) /\ SameLoads(d, t) /\ SameWaits(d, t)
        /\ t.overtaken = d.overtaken /\ t.profile = "error"
    BY <2>2 DEF PageFields, SameView, SameUrl, SameLoads, SameWaits
  <2> HIDE DEF t, e
  <2>4. PageCore(t)
    BY <1>12, <2>3, CoreStays DEF SameView, SameWaits
  <2>5. CASE fails
    BY <2>1, <2>3, <2>4, <2>5
  <2>6. CASE ~fails
    <3>1. e = d
      BY <2>1, <2>6
    <3>2. QED
      BY <1>12, <2>6, <3>1 DEF SameView, SameUrl, SameLoads, SameWaits
  <2>7. QED
    BY <2>5, <2>6
<1> HIDE DEF e
<1>14. /\ PageCore(f) /\ PageReleases(f) = PageReleases(e)
       /\ \A y \in PageYears : f.cache[y] = "held" <=> e.cache[y] = "held"
       /\ SameView(e, f) /\ SameUrl(e, f) /\ SameLoads(e, f)
       /\ after = {} => f = e
       /\ after # {} => PageProper(f) /\ f.profile \in {"empty", "loading"}
  BY <1>4, <1>11, <1>13
<1> HIDE DEF f
<1>15. PageReleases(f) = w
  <2>1. \A r \in w : r.kind = "release"
    BY <1>4, <1>6 DEF PageRequests
  <2>2. PageReleases(a) = w
    BY <1>7, <2>1 DEF PageReleases
  <2>3. PageReleases(b) = PageReleases(a) /\ PageReleases(e) = PageReleases(d)
    BY <1>10, <1>13 DEF PageReleases, SameWaits
  <2>4. QED
    BY <1>12, <1>14, <2>2, <2>3
<1>16. \A y \in PageYears : f.cache[y] = "held" <=> p.cache[y] = "held"
  <2>1. a.cache = c /\ b.cache = a.cache /\ e.cache = d.cache
    BY <1>7, <1>10, <1>13 DEF SameWaits
  <2>2. \A y \in PageYears : d.cache[y] = "held" <=> b.cache[y] = "held"
    BY <1>12
  <2>3. \A y \in PageYears : f.cache[y] = "held" <=> e.cache[y] = "held"
    BY <1>14
  <2>4. \A y \in PageYears : c[y] = "held" <=> p.cache[y] = "held"
    BY <1>5
  <2>5. QED
    BY <2>1, <2>2, <2>3, <2>4
<1>17. /\ f.year = p.year /\ f.state = p.state /\ f.level = p.level /\ f.history = p.history /\ f.at = p.at
       /\ f.failures = n /\ f.refused = p.refused /\ f.result = b.result
  BY <1>7, <1>10, <1>12, <1>13, <1>14 DEF SameView, SameUrl, SameLoads
<1>18. f.profile \notin Jurisdictions
  BY <1>7, <1>9, <1>10, <1>12, <1>13, <1>14, PageNamesAre DEF SamePanel
<1>19. f.result \in {p.result, "error"}
       /\ ((\E r \in settled : r.kind = "release" /\ r.current) => f.result = "error")
  BY <1>7, <1>10, <1>17
<1>20. PageLoads(f)
  <2>1. PageLoads(p)
    BY <1>1 DEF PageReady
  <2>2. Shows(f) => f.result = f.year
    BY <1>17, <1>19, <2>1, PageNamesAre DEF PageLoads, Shows
  <2>3. ASSUME f.result = "loading" PROVE \E r \in f.waiting : r.kind = "release" /\ r.current
    <3>1. p.result = "loading"
      BY <1>19, <2>3
    <3>2. PICK r \in p.waiting : r.kind = "release" /\ r.current
      BY <2>1, <3>1 DEF PageLoads
    <3>3. r \notin settled
      BY <1>19, <2>3, <3>2
    <3>4. r \in PageReleases(f)
      BY <1>4, <1>15, <3>3
    <3>5. QED
      BY <3>2, <3>4 DEF PageReleases
  <2>4. QED
    BY <1>6, <1>17, <2>2, <2>3 DEF PageLoads
<1>21. \A r \in f.waiting : r.kind = "release" => r \in p.waiting
  BY <1>4, <1>15 DEF PageReleases
<1>22. PageShared(f)
  <2>1. InStep(p) => InStep(f)
    BY <1>17 DEF InStep, Url, View
  <2>2. Shows(f) => Shows(p)
    BY <1>19, PageNamesAre DEF Shows
  <2>3. PageShared(p)
    BY <1>1 DEF PageReady
  <2>4. QED
    BY <1>21, <2>1, <2>2, <2>3 DEF PageShared
<1>23. PageProper(f)
  <2>1. CASE after # {}
    BY <1>14, <2>1
  <2>2. CASE after = {} /\ before # {}
    <3>1. f = e /\ PageProper(d)
      BY <1>12, <1>14, <2>2
    <3>2. QED
      BY <1>13, <3>1 DEF PageProper, SameView, SameWaits
  <2>3. CASE after = {} /\ before = {}
    <3>1. f = e /\ d = b /\ steps = {}
      BY <1>4, <1>12, <1>14, <2>3
    <3>2. d.state = p.state /\ d.waiting = w /\ d.overtaken = p.overtaken /\ e.overtaken = p.overtaken
          /\ e.waiting = w /\ e.state = p.state /\ e.profile \in {p.profile, "error"}
      BY <1>7, <1>10, <1>13, <3>1 DEF SameView, SameWaits, SamePanel
    <3>3. CASE \E r \in p.waiting : r.kind = "profile" /\ r.of = p.state
      <4>1. e.profile = "error"
        BY <1>4, <1>13, <3>2, <3>3
      <4>2. QED
        BY <3>1, <4>1 DEF PageProper
    <3>4. CASE \E r \in p.waiting : r.kind = "release" /\ r.follow = p.state
      <4>1. PICK r \in p.waiting : r.kind = "release" /\ r.follow = p.state
        BY <3>4
      <4>2. p.state # Stay
        BY <1>1, PageNamesAre DEF PageFields
      <4>3. r \in w
        BY <1>4, <3>1, <4>1, <4>2
      <4>4. QED
        BY <3>1, <3>2, <4>1, <4>3 DEF PageProper
    <3>5. CASE p.overtaken \/ p.profile \in {"error", IF p.state = NoState THEN "empty" ELSE p.state}
      BY <3>1, <3>2, <3>5 DEF PageProper
    <3>6. PageProper(p)
      BY <1>1 DEF PageReady
    <3>7. QED
      BY <3>3, <3>4, <3>5, <3>6 DEF PageProper
  <2>4. QED
    BY <2>1, <2>2, <2>3
<1>24. PageQuiet(f)
  <2> SUFFICES ASSUME NEW r \in f.waiting PROVE ~Held(f, r)
    BY DEF PageQuiet
  <2>1. CASE r.kind = "profile"
    BY <1>2, <1>16, <2>1 DEF Held
  <2>2. CASE r.kind # "profile"
    <3>1. r \in PageRequests
      BY <1>14 DEF PageCore, PageTyped, PageFields
    <3>2. r \in p.waiting /\ ~Held(p, r)
      BY <1>1, <1>21, <2>2, <3>1 DEF PageQuiet, PageRequests
    <3>3. QED
      BY <1>16, <3>2 DEF Held
  <2>3. QED
    BY <2>1, <2>2
<1>25. PageHolds(f)
  BY <1>14, <1>18, <1>20, <1>22, <1>23, <1>24 DEF PageHolds, PageReady, PageProfiled
<1>26. QED
  BY <1>3, <1>25, StartedHolds
-----------------------------------------------------------------------------
\* A page whose view or place in the history is changed is in order.
LEMMA MovedIs ==
    ASSUME NEW p, PageCore(p), NEW q \in PageFields, q.history = p.history, q.at \in 1 .. Len(p.history),
           q.year = p.year, SameWaits(p, q)
    PROVE  PageCore(q)
BY DEF PageCore, PageTyped, Numbered, PageAsked, SameWaits

LEMMA ChooseYearHolds ==
    ASSUME PageHolds(page), NEW year \in PageYears, ChooseYear(year)
    PROVE  PageHolds(page')
<1> DEFINE p == page
           q == LoadRelease(p, year, TRUE, Stay)
<1>1. PageReady(p) /\ PageCore(p) /\ p \in PageFields
  BY DEF PageHolds, PageReady, PageCore, PageTyped
<1>2. Event(q)
  BY DEF ChooseYear
<1> HIDE DEF p
<1>3. Loaded(p, q, year, TRUE, Stay)
  BY <1>1, LoadReleaseIs
<1> HIDE DEF q
<1>4. PageLoads(q)
  BY <1>1, <1>3, PageNamesAre DEF Loaded, PageReady, PageLoads, Shows, SamePanel
<1>5. PageShared(q)
  BY <1>3, PageNamesAre DEF Loaded, PageShared, Shows
<1>6. PageProfiled(q)
  <2>1. AllHeld(p) => AllHeld(q)
    BY <1>3 DEF Loaded, AllHeld
  <2>2. PageProfiled(p) /\ q.profile = p.profile
    BY <1>1, <1>3 DEF Loaded, PageReady, SamePanel
  <2>3. QED
    BY <1>3, <2>1, <2>2 DEF Loaded, PageProfiled
<1>7. PageProper(q)
  <2>1. p.state # Stay /\ PageProper(p)
    BY <1>1, PageNamesAre DEF PageReady, PageFields
  <2>2. q.profile = p.profile /\ q.overtaken = p.overtaken
    BY <1>3 DEF Loaded, SamePanel
  <2>3. QED
    BY <1>3, <2>1, <2>2 DEF Loaded, PageProper
<1>8. PageReady(q)
  BY <1>3, <1>4, <1>5, <1>6, <1>7 DEF Loaded, PageReady
<1>9. QED
  BY <1>2, <1>8, EventHolds

LEMMA ChooseStateHolds ==
    ASSUME PageHolds(page), NEW state \in Jurisdictions \cup {NoState}, ChooseState(state)
    PROVE  PageHolds(page')
<1> DEFINE p == page
           level == IF state = NoState THEN "national" ELSE p.level
           b == [p EXCEPT !.state = state, !.level = level]
           c == SyncUrl(b)
           a == RenderAll(c)
           q == LoadStateProfile(a, state)
<1>1. PageReady(p) /\ PageCore(p) /\ p \in PageFields /\ p.at \in 1 .. Len(p.history)
  BY DEF PageHolds, PageReady, PageCore, PageTyped
<1>2. Event(q)
  BY <1>1 DEF ChooseState, PageFields
<1>3. level \in {"national", "state"}
  BY <1>1 DEF PageFields
<1> HIDE DEF p, level
<1>4. /\ b \in PageFields /\ b.state = state /\ b.year = p.year /\ b.history = p.history /\ b.at = p.at
      /\ SameLoads(p, b) /\ SameWaits(p, b)
  BY <1>1, <1>3 DEF PageFields, SameLoads, SameWaits
<1> HIDE DEF b
<1>5. PageCore(b)
  BY <1>1, <1>4, MovedIs
<1>6. /\ PageCore(c) /\ Url(c) = View(c)
      /\ SameView(b, c) /\ SameLoads(b, c) /\ SameWaits(b, c)
  BY <1>5, SyncIs
<1> HIDE DEF c
<1>7. InStep(c)
  BY <1>6 DEF InStep
<1>8. /\ PageCore(a) /\ a.year = c.year /\ a.state = c.state /\ InStep(a)
      /\ SameLoads(c, a) /\ SameWaits(c, a)
  BY <1>6, <1>7, RenderIs
<1> HIDE DEF a
<1>9. a.year = p.year /\ a.state = state /\ SameLoads(p, a) /\ SameWaits(p, a)
  BY <1>4, <1>6, <1>8 DEF SameView, SameLoads, SameWaits
<1>10. PageCore(q) /\ SameView(a, q) /\ SameUrl(a, q)
  BY <1>8, LoadProfileIs
<1>11. InStep(q) /\ q.state = state /\ q.year = a.year
  BY <1>8, <1>9, <1>10 DEF InStep, Url, View, SameView, SameUrl
<1>12. SameLoads(q, q) /\ SamePanel(q, q) /\ SameWaits(q, q)
  BY DEF SameLoads, SamePanel, SameWaits
<1>13. PageReady(q)
  BY <1>1, <1>8, <1>9, <1>10, <1>11, <1>12, ProfileAsked
<1>14. QED
  BY <1>2, <1>13, EventHolds

\* Selecting a state by any other control ends with the URL.
LEMMA SelectionReady ==
    ASSUME NEW p, PageReady(p), NEW state \in Jurisdictions \cup {NoState},
           NEW b \in PageFields, b.state = state, b.year = p.year, SameUrl(p, b), SameLoads(p, b), SameWaits(p, b),
           NEW q, q \in {SyncUrl(LoadStateProfile(RenderAll(b), state)), PushUrl(LoadStateProfile(RenderAll(b), state))}
    PROVE  PageReady(q)
<1> DEFINE a == RenderAll(b)
           l == LoadStateProfile(a, state)
<1>1. PageCore(p) /\ p.at \in 1 .. Len(p.history)
  BY DEF PageReady, PageCore, PageTyped
<1>2. PageCore(b)
  BY <1>1, MovedIs DEF SameUrl
<1>3. /\ PageCore(a) /\ a.year = b.year /\ a.state = b.state
      /\ SameLoads(b, a) /\ SameWaits(b, a)
  BY <1>2, RenderIs
<1>4. q \in {SyncUrl(l), PushUrl(l)}
  OBVIOUS
<1> HIDE DEF a
<1>5. a.year = p.year /\ a.state = state /\ SameLoads(p, a) /\ SameWaits(p, a)
  BY <1>3 DEF SameLoads, SameWaits
<1>6. PageCore(l) /\ SameView(a, l)
  BY <1>3, LoadProfileIs
<1>7. /\ PageCore(q) /\ Url(q) = View(q)
      /\ SameView(l, q) /\ SameLoads(l, q) /\ SamePanel(l, q) /\ SameWaits(l, q)
  <2> HIDE DEF l
  <2>1. QED
    BY <1>4, <1>6, SyncIs, PushIs
<1>8. InStep(q) /\ q.state = state /\ q.year = a.year
  BY <1>5, <1>6, <1>7 DEF InStep, SameView
<1>9. QED
  BY <1>3, <1>5, <1>7, <1>8, ProfileAsked

LEMMA SelectStateHolds ==
    ASSUME PageHolds(page), NEW state \in Jurisdictions, NEW openLens \in BOOLEAN, SelectState(state, openLens)
    PROVE  PageHolds(page')
<1> DEFINE p == page
           level == IF openLens THEN "state" ELSE p.level
           b == [p EXCEPT !.state = state, !.level = level]
           l == LoadStateProfile(RenderAll(b), state)
           q == IF openLens THEN PushUrl(l) ELSE SyncUrl(l)
<1>1. PageReady(p) /\ p \in PageFields
  BY DEF PageHolds, PageReady, PageCore, PageTyped
<1>2. Event(q)
  BY <1>1 DEF SelectState, PageFields
<1>3. level \in {"national", "state"} /\ state \in Jurisdictions \cup {NoState}
  BY <1>1 DEF PageFields
<1> HIDE DEF p, level
<1>4. /\ b \in PageFields /\ b.state = state /\ b.year = p.year
      /\ SameUrl(p, b) /\ SameLoads(p, b) /\ SameWaits(p, b)
  BY <1>1, <1>3 DEF PageFields, SameUrl, SameLoads, SameWaits
<1>5. q \in {SyncUrl(l), PushUrl(l)}
  OBVIOUS
<1> HIDE DEF b, q
<1>6. PageReady(q)
  BY <1>1, <1>3, <1>4, <1>5, SelectionReady
<1>7. QED
  BY <1>2, <1>6, EventHolds

LEMMA CompareStateHolds ==
    ASSUME PageHolds(page), NEW state \in Jurisdictions \cup {NoState}, CompareState(state)
    PROVE  PageHolds(page')
<1> DEFINE p == page
           b == [p EXCEPT !.state = state]
           q == SyncUrl(LoadStateProfile(RenderAll(b), state))
<1>1. PageReady(p) /\ p \in PageFields
  BY DEF PageHolds, PageReady, PageCore, PageTyped
<1>2. Event(q)
  BY DEF CompareState
<1> HIDE DEF p
<1>3. /\ b \in PageFields /\ b.state = state /\ b.year = p.year
      /\ SameUrl(p, b) /\ SameLoads(p, b) /\ SameWaits(p, b)
  BY <1>1 DEF PageFields, SameUrl, SameLoads, SameWaits
<1> HIDE DEF b
<1>4. PageReady(q)
  BY <1>1, <1>3, SelectionReady
<1>5. QED
  BY <1>2, <1>4, EventHolds

LEMMA LeaveStateLensHolds ==
    ASSUME PageHolds(page), LeaveStateLens
    PROVE  PageHolds(page')
<1> DEFINE p == page
           b == [p EXCEPT !.level = "national"]
           a == RenderAll(b)
           q == PushUrl(a)
<1>1. PageReady(p) /\ PageCore(p) /\ p \in PageFields /\ p.at \in 1 .. Len(p.history)
  BY DEF PageHolds, PageReady, PageCore, PageTyped
<1>2. Event(q)
  BY DEF LeaveStateLens
<1> HIDE DEF p
<1>3. /\ b \in PageFields /\ b.state = p.state /\ b.year = p.year /\ b.history = p.history /\ b.at = p.at
      /\ SameLoads(p, b) /\ SamePanel(p, b) /\ SameWaits(p, b)
  BY <1>1 DEF PageFields, SameLoads, SamePanel, SameWaits
<1> HIDE DEF b
<1>5. PageCore(b)
  BY <1>1, <1>3, MovedIs
<1>6. /\ PageCore(a) /\ a.year = b.year /\ a.state = b.state
      /\ SameLoads(b, a) /\ SamePanel(b, a) /\ SameWaits(b, a)
  BY <1>5, RenderIs
<1> HIDE DEF a
<1>7. /\ PageCore(q) /\ Url(q) = View(q)
      /\ SameView(a, q) /\ SameLoads(a, q) /\ SamePanel(a, q) /\ SameWaits(a, q)
  BY <1>6, PushIs
<1> HIDE DEF q
<1>8. /\ q.year = p.year /\ q.state = p.state /\ InStep(q)
      /\ SameLoads(p, q) /\ SamePanel(p, q) /\ SameWaits(p, q)
  BY <1>3, <1>6, <1>7 DEF SameView, SameLoads, SamePanel, SameWaits, InStep
<1>9. PageReady(q)
  BY <1>1, <1>7, <1>8, ReadyStays
<1>10. QED
  BY <1>2, <1>9, EventHolds

LEMMA RefineHolds ==
    ASSUME PageHolds(page), Refine
    PROVE  PageHolds(page')
<1> DEFINE p == page
           a == RenderAll(p)
           q == SyncUrl(a)
<1>1. PageReady(p) /\ PageCore(p)
  BY DEF PageHolds, PageReady
<1>2. Event(q)
  BY DEF Refine
<1> HIDE DEF p
<1>3. /\ PageCore(a) /\ a.year = p.year /\ a.state = p.state
      /\ SameLoads(p, a) /\ SamePanel(p, a) /\ SameWaits(p, a)
  BY <1>1, RenderIs
<1> HIDE DEF a
<1>4. /\ PageCore(q) /\ Url(q) = View(q)
      /\ SameView(a, q) /\ SameLoads(a, q) /\ SamePanel(a, q) /\ SameWaits(a, q)
  BY <1>3, SyncIs
<1> HIDE DEF q
<1>5. /\ q.year = p.year /\ q.state = p.state /\ InStep(q)
      /\ SameLoads(p, q) /\ SamePanel(p, q) /\ SameWaits(p, q)
  BY <1>3, <1>4 DEF SameView, SameLoads, SamePanel, SameWaits, InStep
<1>6. PageReady(q)
  BY <1>1, <1>4, <1>5, ReadyStays
<1>7. QED
  BY <1>2, <1>6, EventHolds

LEMMA ResetHolds ==
    ASSUME PageHolds(page), Reset
    PROVE  PageHolds(page')
<1> DEFINE p == page
           b == [p EXCEPT !.state = NoState, !.level = "national"]
           a == SyncUrl(b)
           l == LoadStateProfile(a, NoState)
           q == LoadRelease(l, DefaultYear, TRUE, Stay)
<1>1. PageReady(p) /\ PageLoads(p) /\ PageCore(p) /\ p \in PageFields /\ p.at \in 1 .. Len(p.history)
  BY DEF PageHolds, PageReady, PageCore, PageTyped
<1>2. Event(q)
  BY DEF Reset
<1> HIDE DEF p
<1>3. /\ b \in PageFields /\ b.state = NoState /\ b.year = p.year /\ b.history = p.history /\ b.at = p.at
      /\ SameLoads(p, b) /\ SameWaits(p, b)
  BY <1>1 DEF PageFields, SameLoads, SameWaits
<1> HIDE DEF b
<1>4. PageCore(b)
  BY <1>1, <1>3, MovedIs
<1>5. PageCore(a) /\ SameView(b, a) /\ SameLoads(b, a)
  BY <1>4, SyncIs
<1> HIDE DEF a
<1>6. PageCore(l) /\ SameView(a, l) /\ SameLoads(a, l) /\ l.profile = "empty"
  BY <1>5, LoadProfileIs
<1> HIDE DEF l
<1>7. Loaded(l, q, DefaultYear, TRUE, Stay)
  BY <1>6, CoveragePageAssumption, LoadReleaseIs
<1> HIDE DEF q
<1>8. q.state = NoState /\ q.profile = "empty" /\ q.failures = p.failures /\ q.refused = p.refused
  BY <1>3, <1>5, <1>6, <1>7 DEF Loaded, SameView, SameLoads, SamePanel
<1>9. PageLoads(q)
  BY <1>7, <1>8, PageNamesAre DEF Loaded, PageLoads, Shows
<1>10. PageShared(q)
  BY <1>7, PageNamesAre DEF Loaded, PageShared, Shows
<1>11. PageProfiled(q) /\ PageProper(q)
  BY <1>8, PageNamesAre DEF PageProfiled, PageProper
<1>12. PageReady(q)
  BY <1>7, <1>9, <1>10, <1>11 DEF Loaded, PageReady
<1>13. QED
  BY <1>2, <1>12, EventHolds

LEMMA RestoreHolds ==
    ASSUME PageHolds(page), NEW at \in DOMAIN page.history, RestoreLocation(at)
    PROVE  PageHolds(page')
<1> DEFINE p == page
           url == p.history[at]
           moved == [p EXCEPT !.at = at]
           viewed == [moved EXCEPT !.state = url.state, !.level = url.level]
           drawn == RenderAll(viewed)
           over == Overtake(moved, "profile")
           wrong == [over EXCEPT !.result = "error", !.profile = "error", !.refused = TRUE]
           other == LoadRelease(viewed, url.year, FALSE, url.state)
           plain == [drawn EXCEPT !.profile = "empty"]
           lens == LoadStateProfile(drawn, url.state)
<1>1. PageReady(p) /\ PageLoads(p) /\ PageCore(p) /\ p \in PageFields /\ p.at \in 1 .. Len(p.history)
  BY DEF PageHolds, PageReady, PageCore, PageTyped
<1>2. Event(IF ~Readable(url) THEN wrong ELSE IF url.year # p.year THEN other
            ELSE IF url.state = NoState THEN plain ELSE lens)
  BY DEF RestoreLocation
<1>3. p.history \in Seq(PageEntries) /\ at \in 1 .. Len(p.history) /\ at \in Nat
  <2>1. p.history \in Seq(PageEntries)
    BY <1>1 DEF PageFields
  <2>2. QED
    BY <2>1
<1>4. url \in PageEntries
  <2> HIDE DEF p
  <2>1. QED
    BY <1>3
<1>5. url.year \in PageYears /\ url.state \in Jurisdictions \cup {NoState} /\ url.level \in {"national", "state"}
      /\ url = [year |-> url.year, state |-> url.state, level |-> url.level]
  BY <1>4 DEF PageEntries
<1>6. p.state \in Jurisdictions \cup {NoState} /\ p.level \in {"national", "state"} /\ p.year \in PageYears
  BY <1>1 DEF PageFields
<1> DEFINE u == url
<1>7. u = p.history[at]
  OBVIOUS
<1> HIDE DEF p, url
<1>8. /\ moved \in PageFields /\ moved.at = at /\ moved.year = p.year /\ moved.history = p.history
      /\ SameWaits(p, moved)
  BY <1>1, <1>3 DEF PageFields, SameWaits
<1>9. /\ viewed \in PageFields /\ viewed.at = at /\ viewed.state = url.state /\ viewed.level = url.level
      /\ viewed.year = p.year /\ viewed.history = p.history
      /\ SameLoads(p, viewed) /\ SamePanel(p, viewed) /\ SameWaits(p, viewed)
  BY <1>1, <1>3, <1>5 DEF PageFields, SameLoads, SamePanel, SameWaits
<1> HIDE DEF moved, viewed
<1>10. PageCore(moved) /\ PageCore(viewed)
  BY <1>1, <1>3, <1>8, <1>9, MovedIs
<1>11. Url(moved) = url /\ Url(viewed) = url
  BY <1>7, <1>8, <1>9 DEF Url
<1>12. CASE ~Readable(url)
  <2>1. /\ PageCore(over) /\ over.waiting = PageReleases(moved) /\ SameView(moved, over) /\ SameUrl(moved, over)
        /\ over.cache = moved.cache /\ over.serial = moved.serial
    BY <1>10, OvertakeIs
  <2> HIDE DEF over
  <2>2. over \in PageFields
    BY <2>1 DEF PageCore, PageTyped
  <2>3. /\ wrong \in PageFields /\ wrong.result = "error" /\ wrong.profile = "error" /\ wrong.refused = TRUE
        /\ SameView(over, wrong) /\ SameUrl(over, wrong) /\ SameWaits(over, wrong)
    BY <2>2 DEF PageFields, SameView, SameUrl, SameWaits
  <2> DEFINE q == wrong
  <2>4. Event(q)
    BY <1>2, <1>12
  <2> HIDE DEF wrong
  <2>5. PageCore(q)
    BY <2>1, <2>3, CoreStays DEF SameView, SameWaits
  <2>6. Url(q) = url
    BY <1>11, <2>1, <2>3 DEF Url, SameUrl
  <2>7. PageLoads(q) /\ PageShared(q)
    BY <1>12, <2>3, <2>6, PageNamesAre DEF PageLoads, PageShared, InStep, Shows
  <2>8. PageProfiled(q) /\ PageProper(q)
    BY <2>3, PageNamesAre DEF PageProfiled, PageProper
  <2>9. PageReady(q)
    BY <2>5, <2>7, <2>8 DEF PageReady
  <2>10. QED
    BY <2>4, <2>9, EventHolds
<1>13. CASE Readable(url) /\ url.year # p.year
  <2> DEFINE q == other
  <2>1. Event(q)
    BY <1>2, <1>13
  <2>2. Loaded(viewed, q, url.year, FALSE, url.state)
    <3>1. url.year \in PageYears /\ url.state \in Jurisdictions \cup {NoState, Stay}
      BY <1>5
    <3>2. QED
      BY <1>10, <3>1, LoadReleaseIs
  <2> HIDE DEF other
  <2>3. InStep(q)
    <3>1. Url(q) = url
      BY <1>11, <2>2 DEF Loaded, Url, SameUrl
    <3>2. View(q) = url
      BY <1>5, <1>9, <2>2 DEF Loaded, View
    <3>3. QED
      BY <3>1, <3>2 DEF InStep
  <2>4. q.state = url.state /\ q.profile = p.profile /\ q.failures = p.failures /\ q.refused = p.refused
    BY <1>9, <2>2 DEF Loaded, SamePanel, SameLoads
  <2>5. PageLoads(q) /\ PageShared(q)
    BY <1>1, <2>2, <2>3, <2>4, PageNamesAre DEF Loaded, PageLoads, PageShared, Shows
  <2>6. PageProfiled(q)
    <3>1. PageProfiled(p) /\ url.state # Stay
      BY <1>1, <1>5, PageNamesAre DEF PageReady
    <3>2. AllHeld(p) => AllHeld(q)
      BY <1>9, <2>2 DEF Loaded, AllHeld, SameWaits
    <3>3. QED
      BY <2>2, <2>4, <3>1, <3>2 DEF Loaded, PageProfiled
  <2>7. PageProper(q)
    BY <2>2, <2>4 DEF Loaded, PageProper
  <2>8. PageReady(q)
    BY <2>2, <2>5, <2>6, <2>7 DEF Loaded, PageReady
  <2>9. QED
    BY <2>1, <2>8, EventHolds
<1>14. CASE Readable(url) /\ url.year = p.year
  <2>1. View(viewed) = url
    BY <1>5, <1>9, <1>14 DEF View
  <2>2. /\ PageCore(drawn) /\ drawn.year = viewed.year /\ drawn.state = viewed.state
        /\ SameUrl(viewed, drawn) /\ SameLoads(viewed, drawn) /\ SamePanel(viewed, drawn)
        /\ SameWaits(viewed, drawn)
        /\ InStep(drawn)
    BY <1>10, <1>11, <2>1, RenderIs DEF InStep
  <2> HIDE DEF drawn
  <2>3. /\ drawn.year = p.year /\ drawn.state = url.state /\ SameLoads(p, drawn) /\ SameWaits(p, drawn)
        /\ SamePanel(p, drawn)
    BY <1>9, <2>2 DEF SameLoads, SameWaits, SamePanel
  <2>4. CASE url.state = NoState
    <3> DEFINE q == plain
    <3>1. Event(q)
      BY <1>2, <1>14, <2>4
    <3>2. drawn \in PageFields
      BY <2>2 DEF PageCore, PageTyped
    <3>3. /\ q \in PageFields /\ q.profile = "empty" /\ SameView(drawn, q) /\ SameUrl(drawn, q)
          /\ SameLoads(drawn, q) /\ SameWaits(drawn, q)
      BY <3>2 DEF PageFields, SameView, SameUrl, SameLoads, SameWaits
    <3> HIDE DEF plain
    <3>4. PageCore(q)
      BY <2>2, <3>3, CoreStays DEF SameView, SameWaits
    <3>5. InStep(q)
      BY <2>2, <3>3 DEF InStep, Url, View, SameView, SameUrl
    <3>6. /\ q.year = p.year /\ q.state = url.state /\ q.result = p.result /\ q.failures = p.failures
          /\ q.refused = p.refused /\ q.waiting = p.waiting
      BY <2>3, <3>3 DEF SameView, SameLoads, SameWaits
    <3>7. PageLoads(q) /\ PageShared(q)
      BY <1>1, <3>3, <3>5, <3>6 DEF PageLoads, PageShared, Shows
    <3>8. PageProfiled(q) /\ PageProper(q)
      BY <2>4, <3>3, <3>6, PageNamesAre DEF PageProfiled, PageProper
    <3>9. PageReady(q)
      BY <3>4, <3>7, <3>8 DEF PageReady
    <3>10. QED
      BY <3>1, <3>9, EventHolds
  <2>5. CASE url.state # NoState
    <3> DEFINE q == lens
    <3>1. Event(q)
      BY <1>2, <1>14, <2>5
    <3>2. PageCore(q) /\ SameView(drawn, q) /\ SameUrl(drawn, q)
      BY <1>5, <2>2, LoadProfileIs
    <3>3. SameLoads(q, q) /\ SamePanel(q, q) /\ SameWaits(q, q)
      BY DEF SameLoads, SamePanel, SameWaits
    <3>4. InStep(q) /\ q.year = drawn.year /\ q.state = url.state
      <4> HIDE DEF lens
      <4>1. QED
        BY <2>2, <2>3, <3>2 DEF InStep, Url, View, SameView, SameUrl
    <3>5. PageReady(q)
      BY <1>1, <1>5, <2>2, <2>3, <3>2, <3>3, <3>4, ProfileAsked
    <3>6. QED
      BY <3>1, <3>5, EventHolds
  <2>6. QED
    BY <2>4, <2>5
<1>15. QED
  BY <1>12, <1>13, <1>14

LEMMA PageStarts ==
    ASSUME PageInit
    PROVE  PageHolds(page)
<1>1. PICK first, last \in Urls :
        LET fresh  == [year |-> last.year, state |-> last.state, level |-> last.level,
                       history |-> <<first, last>>, at |-> 2, result |-> "loading", drawn |-> "nothing",
                       profile |-> "empty", cache |-> [y \in PageYears |-> "none"], waiting |-> {}, serial |-> 0,
                       start |-> [release |-> last.year, profile |-> last.state # NoState],
                       overtaken |-> FALSE, refused |-> FALSE, events |-> 0, failures |-> 0]
            loaded == LoadRelease(fresh, last.year, FALSE, Stay)
        IN page = IF last.state = NoState THEN loaded ELSE LoadStateProfile(loaded, last.state)
  BY DEF PageInit
<1> DEFINE begun == [release |-> last.year, profile |-> last.state # NoState]
           two   == <<first, last>>
           none  == [y \in PageYears |-> "none"]
           fresh == [year |-> last.year, state |-> last.state, level |-> last.level,
                     history |-> two, at |-> 2, result |-> "loading", drawn |-> "nothing",
                     profile |-> "empty", cache |-> none, waiting |-> {}, serial |-> 0,
                     start |-> begun,
                     overtaken |-> FALSE, refused |-> FALSE, events |-> 0, failures |-> 0]
           loaded == LoadRelease(fresh, last.year, FALSE, Stay)
           q == LoadStateProfile(loaded, last.state)
<1>2. page = IF last.state = NoState THEN loaded ELSE q
  BY <1>1
<1>3. first \in PageEntries /\ last \in PageEntries
  BY DEF Urls, PageEntries
<1>4. /\ last.year \in PageYears /\ last.state \in Jurisdictions \cup {NoState} /\ last.level \in {"national", "state"}
      /\ last = [year |-> last.year, state |-> last.state, level |-> last.level]
  BY <1>3 DEF PageEntries
<1>5. begun \in [release : PageYears \cup {""}, profile : BOOLEAN]
  <2> DEFINE asks == last.state # NoState
  <2>1. asks \in BOOLEAN
    OBVIOUS
  <2> HIDE DEF asks
  <2>2. [release |-> last.year, profile |-> asks] \in [release : PageYears \cup {""}, profile : BOOLEAN]
    BY <1>4, <2>1
  <2>3. QED
    BY <2>2 DEF asks
<1>6. two \in Seq(PageEntries) /\ Len(two) = 2 /\ two[2] = last
  BY <1>3
<1>7. none \in [PageYears -> {"none", "pending", "held"}] /\ \A y \in PageYears : none[y] = "none"
  OBVIOUS
<1> HIDE DEF begun, two, none
<1>8. fresh \in PageFields
  BY <1>4, <1>5, <1>6, <1>7 DEF PageFields
<1>9. /\ fresh.year = last.year /\ fresh.state = last.state /\ fresh.level = last.level /\ fresh.history = two
      /\ fresh.at = 2 /\ fresh.result = "loading" /\ fresh.profile = "empty" /\ fresh.cache = none
      /\ fresh.waiting = {} /\ fresh.serial = 0
  OBVIOUS
<1> HIDE DEF fresh
<1>10. PageCore(fresh)
  <2>1. PageTyped(fresh)
    <3>1. 2 \in 1 .. Len(two)
      BY <1>6
    <3>2. QED
      BY <1>8, <1>9, <3>1 DEF PageTyped
  <2>2. Numbered(fresh) /\ PageAsked(fresh)
    BY <1>9 DEF Numbered, PageAsked
  <2>3. QED
    BY <2>1, <2>2 DEF PageCore
<1>11. Loaded(fresh, loaded, last.year, FALSE, Stay)
  BY <1>4, <1>10, LoadReleaseIs
<1> HIDE DEF loaded
<1>12. loaded.state = last.state /\ loaded.profile = "empty" /\ \A y \in PageYears : loaded.cache[y] # "held"
  BY <1>7, <1>9, <1>11 DEF Loaded, SamePanel
<1>13. Url(loaded) = last /\ View(loaded) = last
  BY <1>4, <1>6, <1>9, <1>11 DEF Loaded, Url, View, SameUrl
<1>14. PageLoads(loaded) /\ PageShared(loaded) /\ PageProfiled(loaded)
  BY <1>11, <1>12, <1>13, PageNamesAre DEF Loaded, PageLoads, PageShared, PageProfiled, InStep, Shows
<1>15. ASSUME NEW p, PageCore(p), \A y \in PageYears : p.cache[y] # "held" PROVE PageQuiet(p)
  BY <1>15, CoveragePageAssumption
     DEF PageQuiet, Held, PageCore, PageTyped, PageFields, PageRequests, PageAsked
<1>16. CASE last.state = NoState
  <2>1. PageProper(loaded)
    BY <1>12, <1>16 DEF PageProper
  <2>2. QED
    BY <1>2, <1>11, <1>12, <1>14, <1>15, <1>16, <2>1 DEF Loaded, PageHolds, PageReady
<1>17. CASE last.state # NoState
  <2>1. /\ PageCore(q) /\ PageReleases(q) = PageReleases(loaded)
        /\ \A y \in PageYears : q.cache[y] = "held" <=> loaded.cache[y] = "held"
        /\ q.profile = "loading" /\ \E r \in q.waiting : r.kind = "profile" /\ r.of = last.state
        /\ SameView(loaded, q) /\ SameUrl(loaded, q) /\ SameLoads(loaded, q)
    BY <1>4, <1>11, <1>17, LoadProfileIs DEF Loaded
  <2> HIDE DEF q
  <2>2. q.state = last.state /\ q.result = "loading" /\ q.year = loaded.year
    BY <1>11, <1>12, <2>1 DEF Loaded, SameView, SameLoads
  <2>3. InStep(q)
    BY <1>13, <2>1 DEF InStep, Url, View, SameView, SameUrl
  <2>4. \E r \in q.waiting : r.kind = "release" /\ r.current
    BY <1>11, <2>1 DEF Loaded, PageReleases
  <2>5. PageLoads(q) /\ PageShared(q)
    BY <2>1, <2>2, <2>3, <2>4, PageNamesAre DEF PageLoads, PageShared, Shows
  <2>6. PageProfiled(q) /\ PageProper(q)
    BY <2>1, <2>2, PageNamesAre DEF PageProfiled, PageProper
  <2>7. PageQuiet(q)
    BY <1>12, <1>15, <2>1
  <2>8. QED
    BY <1>2, <1>17, <2>1, <2>5, <2>6, <2>7 DEF PageHolds, PageReady
<1>18. QED
  BY <1>16, <1>17

LEMMA PageStep ==
    ASSUME PageHolds(page), PageNext \/ UNCHANGED page
    PROVE  PageHolds(page')
<1>1. ASSUME NEW y \in PageYears, ArtifactArrives(y) \/ ArtifactFails(y) \/ ChooseYear(y) PROVE PageHolds(page')
  BY <1>1, ArrivalHolds, FailureHolds, ChooseYearHolds
<1>2. ASSUME NEW s \in Jurisdictions, SelectState(s, TRUE) \/ SelectState(s, FALSE) PROVE PageHolds(page')
  <2>1. PICK openLens \in BOOLEAN : SelectState(s, openLens)
    BY <1>2
  <2>2. QED
    BY <2>1, SelectStateHolds
<1>3. ASSUME NEW s \in Jurisdictions \cup {NoState}, ChooseState(s) \/ CompareState(s) PROVE PageHolds(page')
  BY <1>3, ChooseStateHolds, CompareStateHolds
<1>4. ASSUME NEW at \in DOMAIN page.history, RestoreLocation(at) PROVE PageHolds(page')
  BY <1>4, RestoreHolds
<1>5. CASE LeaveStateLens \/ Refine \/ Reset
  BY <1>5, LeaveStateLensHolds, RefineHolds, ResetHolds
<1>6. CASE UNCHANGED page
  BY <1>6 DEF PageHolds, PageReady, PageCore, PageTyped, Numbered, PageAsked, PageLoads, PageShared,
     PageProfiled, PageProper, PageQuiet, InStep, Url, View, Shows, Held, AllHeld
<1>7. QED
  BY <1>1, <1>2, <1>3, <1>4, <1>5, <1>6 DEF PageNext

\* A page that has reacted shows what is selected.
LEMMA PageShows ==
    ASSUME PageHolds(page)
    PROVE  SelectionShown /\ PageSettled
<1>1. PageReady(page) /\ PageQuiet(page) /\ PageAsked(page) /\ page \in PageFields
  BY DEF PageHolds, PageReady, PageCore, PageTyped
<1>2. Shows(page) => page.result = page.year
  BY <1>1 DEF PageReady, PageLoads
<1>3. page.profile \in Jurisdictions => page.profile = page.state
  <2> SUFFICES ASSUME page.profile \in Jurisdictions, page.profile # page.state PROVE FALSE
    OBVIOUS
  <2>1. AllHeld(page) /\ \E r \in page.waiting : r.kind = "release" /\ r.follow # Stay
    BY <1>1 DEF PageReady, PageProfiled
  <2>2. PICK r \in page.waiting : r.kind = "release"
    BY <2>1
  <2>3. QED
    BY <1>1, <2>1, <2>2 DEF PageQuiet, PageAsked, Held, AllHeld
<1>4. Shows(page) /\ Readable(Url(page)) => Url(page) = View(page)
  BY <1>1 DEF PageReady, PageShared, InStep
<1>5. page.waiting = {} =>
        /\ page.result # "loading"
        /\ ~page.overtaken => page.profile \in {"error", IF page.state = NoState THEN "empty" ELSE page.state}
        /\ "error" \in {page.result, page.profile} => page.failures > 0 \/ page.refused
  BY <1>1 DEF PageReady, PageLoads, PageProper
<1>6. QED
  BY <1>2, <1>3, <1>4, <1>5 DEF SelectionShown, PageSettled

-----------------------------------------------------------------------------
(* The city page: the order of its lists.                                  *)

\* What the streets of a dataset are.
StreetSet(S) == /\ IsFiniteSet(S) /\ S \subseteq CityStreets
                /\ \A r, s \in S : r.id = s.id => r = s

CityOrders == CitySorts \X BOOLEAN \X CitySorts \X BOOLEAN

LEMMA StreetKeys ==
    ASSUME NEW r \in CityStreets, NEW key \in CitySorts
    PROVE  r[key] \in Int /\ r.id \in Int /\ r.rate \in Int /\ r.n \in Int
BY DEF CityStreets, CitySorts

LEMMA AheadIs ==
    ASSUME NEW r \in CityStreets, NEW s \in CityStreets, NEW sort \in CityOrders
    PROVE  /\ r[sort[1]] \in Int /\ s[sort[1]] \in Int /\ r[sort[3]] \in Int /\ s[sort[3]] \in Int
           /\ r.id \in Int /\ s.id \in Int
           /\ Ahead(sort, r, s) <=>
                \/ IF sort[2] THEN r[sort[1]] < s[sort[1]] ELSE r[sort[1]] > s[sort[1]]
                \/ /\ r[sort[1]] = s[sort[1]]
                   /\ IF sort[4] THEN r[sort[3]] < s[sort[3]] ELSE r[sort[3]] > s[sort[3]]
                \/ r[sort[1]] = s[sort[1]] /\ r[sort[3]] = s[sort[3]] /\ r.id < s.id
<1>1. sort[1] \in CitySorts /\ sort[3] \in CitySorts
  BY DEF CityOrders
<1>2. /\ r[sort[1]] \in Int /\ s[sort[1]] \in Int /\ r.id \in Int /\ s.id \in Int
      /\ r[sort[3]] \in Int /\ s[sort[3]] \in Int
  BY <1>1, StreetKeys
<1>3. QED
  BY <1>2, Zenon DEF Ahead, Lower

\* The order is strict and total.
LEMMA AheadOrders ==
    ASSUME NEW S, StreetSet(S), NEW sort \in CityOrders
    PROVE  /\ \A r \in S : ~Ahead(sort, r, r)
           /\ \A r, s \in S : r = s \/ Ahead(sort, r, s) \/ Ahead(sort, s, r)
           /\ \A r, s, t \in S : Ahead(sort, r, s) /\ Ahead(sort, s, t) => Ahead(sort, r, t)
<1> DEFINE first(r)  == r[sort[1]]
           second(r) == r[sort[3]]
           up == sort[2]
           again == sort[4]
<1>1. /\ up \in BOOLEAN /\ again \in BOOLEAN
      /\ \A r, s \in S : r.id = s.id => r = s
  BY DEF CityOrders, StreetSet
<1>2. ASSUME NEW r \in S, NEW s \in S
      PROVE  /\ first(r) \in Int /\ second(r) \in Int /\ r.id \in Int
             /\ Ahead(sort, r, s) <=>
                  \/ IF up THEN first(r) < first(s) ELSE first(r) > first(s)
                  \/ first(r) = first(s) /\ IF again THEN second(r) < second(s) ELSE second(r) > second(s)
                  \/ first(r) = first(s) /\ second(r) = second(s) /\ r.id < s.id
  <2>1. r \in CityStreets /\ s \in CityStreets
    BY DEF StreetSet
  <2>2. QED
    BY <2>1, AheadIs
<1> HIDE DEF first, second, up, again
<1>3. ASSUME NEW r \in S PROVE ~Ahead(sort, r, r)
  BY <1>1, <1>2
<1>4. ASSUME NEW r \in S, NEW s \in S PROVE r = s \/ Ahead(sort, r, s) \/ Ahead(sort, s, r)
  BY <1>1, <1>2
<1>5. ASSUME NEW r \in S, NEW s \in S, NEW t \in S, Ahead(sort, r, s), Ahead(sort, s, t)
      PROVE  Ahead(sort, r, t)
  BY <1>1, <1>2, <1>5
<1>6. QED
  BY <1>3, <1>4, <1>5

LEMMA SortedIs ==
    ASSUME NEW S, StreetSet(S), NEW sort \in CityOrders
    PROVE  /\ Enumerates(Sorted(S, sort), S)
           /\ \A i, j \in 1 .. Cardinality(S) :
                i < j => IF sort[2] THEN Sorted(S, sort)[i][sort[1]] <= Sorted(S, sort)[j][sort[1]]
                         ELSE Sorted(S, sort)[i][sort[1]] >= Sorted(S, sort)[j][sort[1]]
<1> DEFINE before == {p \in S \X S : Ahead(sort, p[1], p[2])}
           L == Sorted(S, sort)
           n == Cardinality(S)
<1>1. \A r, s \in S : <<r, s>> \in before <=> Ahead(sort, r, s)
  OBVIOUS
<1>2. L = InOrder(S, before)
  BY DEF Sorted
<1>3. IsFiniteSet(S) /\ S \subseteq CityStreets
  BY DEF StreetSet
<1> HIDE DEF before, L
<1>4. /\ \A x \in S : <<x, x>> \notin before
      /\ \A x \in S, y \in S : x = y \/ <<x, y>> \in before \/ <<y, x>> \in before
      /\ \A x \in S, y \in S, z \in S : <<x, y>> \in before /\ <<y, z>> \in before => <<x, z>> \in before
  BY <1>1, AheadOrders
<1>5. /\ n \in Nat /\ L \in [1 .. n -> S]
      /\ \A x \in S : \E i \in 1 .. n : L[i] = x
      /\ \A i, j \in 1 .. n : i < j <=> <<L[i], L[j]>> \in before
  BY <1>2, <1>3, <1>4, Enumerated
<1>6. \A i, j \in 1 .. n : L[i] = L[j] => i = j
  <2> SUFFICES ASSUME NEW i \in 1 .. n, NEW j \in 1 .. n, L[i] = L[j] PROVE i = j
    OBVIOUS
  <2>1. <<L[i], L[j]>> \notin before /\ <<L[j], L[i]>> \notin before
    BY <1>4, <1>5
  <2>2. ~(i < j) /\ ~(j < i)
    BY <1>5, <2>1
  <2>3. QED
    BY <1>5, <2>2
<1>7. ASSUME NEW i \in 1 .. n, NEW j \in 1 .. n, i < j
      PROVE  IF sort[2] THEN L[i][sort[1]] <= L[j][sort[1]] ELSE L[i][sort[1]] >= L[j][sort[1]]
  <2>1. L[i] \in S /\ L[j] \in S /\ Ahead(sort, L[i], L[j])
    BY <1>1, <1>5, <1>7
  <2>2. sort[2] = TRUE \/ sort[2] = FALSE
    BY DEF CityOrders
  <2> DEFINE a == L[i][sort[1]]
             b == L[j][sort[1]]
  <2>3. /\ a \in Int /\ b \in Int
        /\ a = b \/ IF sort[2] THEN a < b ELSE a > b
    BY <1>3, <2>1, AheadIs
  <2> HIDE DEF a, b
  <2>4. IF sort[2] THEN a <= b ELSE a >= b
    BY <2>2, <2>3
  <2>5. QED
    BY <2>4 DEF a, b
<1>8. Enumerates(L, S)
  BY <1>5, <1>6 DEF Enumerates
<1>9. QED
  BY <1>7, <1>8 DEF L

LEMMA ByRateIs ==
    ASSUME NEW S, StreetSet(S), NEW sort \in CityOrders
    PROVE  /\ Enumerates(ByRate(S, sort), S)
           /\ \A i, j \in 1 .. Cardinality(S) : i < j => ByRate(S, sort)[i].rate >= ByRate(S, sort)[j].rate
<1> DEFINE Worse(r, s) == IF r.rate = s.rate THEN Ahead(sort, r, s) ELSE r.rate > s.rate
           before == {p \in S \X S : Worse(p[1], p[2])}
           L == ByRate(S, sort)
           n == Cardinality(S)
<1>1. \A r, s \in S : <<r, s>> \in before <=> Worse(r, s)
  OBVIOUS
<1>2. L = InOrder(S, before)
  BY DEF ByRate
<1>3. IsFiniteSet(S) /\ S \subseteq CityStreets /\ \A r \in S : r.rate \in Int
  BY StreetKeys DEF StreetSet, CitySorts
<1>4. /\ \A x \in S : ~Worse(x, x)
      /\ \A x \in S, y \in S : x = y \/ Worse(x, y) \/ Worse(y, x)
      /\ \A x \in S, y \in S, z \in S : Worse(x, y) /\ Worse(y, z) => Worse(x, z)
  <2>1. \A x \in S : ~Ahead(sort, x, x)
    BY AheadOrders
  <2>2. \A x, y \in S : x = y \/ Ahead(sort, x, y) \/ Ahead(sort, y, x)
    BY AheadOrders
  <2>3. \A x, y, z \in S : Ahead(sort, x, y) /\ Ahead(sort, y, z) => Ahead(sort, x, z)
    BY AheadOrders
  <2>4. \A x \in S : ~Worse(x, x)
    BY <2>1
  <2>5. \A x, y \in S : x = y \/ Worse(x, y) \/ Worse(y, x)
    BY <1>3, <2>2
  <2>6. \A x, y, z \in S : Worse(x, y) /\ Worse(y, z) => Worse(x, z)
    BY <1>3, <2>3
  <2>7. QED
    BY <2>4, <2>5, <2>6
<1> HIDE DEF before, L, Worse
<1>5. /\ \A x \in S : <<x, x>> \notin before
      /\ \A x \in S, y \in S : x = y \/ <<x, y>> \in before \/ <<y, x>> \in before
      /\ \A x \in S, y \in S, z \in S : <<x, y>> \in before /\ <<y, z>> \in before => <<x, z>> \in before
  BY <1>1, <1>4
<1>6. /\ n \in Nat /\ L \in [1 .. n -> S]
      /\ \A x \in S : \E i \in 1 .. n : L[i] = x
      /\ \A i, j \in 1 .. n : i < j <=> <<L[i], L[j]>> \in before
  BY <1>2, <1>3, <1>5, Enumerated
<1>7. \A i, j \in 1 .. n : L[i] = L[j] => i = j
  <2> SUFFICES ASSUME NEW i \in 1 .. n, NEW j \in 1 .. n, L[i] = L[j] PROVE i = j
    OBVIOUS
  <2>1. <<L[i], L[j]>> \notin before /\ <<L[j], L[i]>> \notin before
    BY <1>5, <1>6
  <2>2. ~(i < j) /\ ~(j < i)
    BY <1>6, <2>1
  <2>3. QED
    BY <1>6, <2>2
<1>8. ASSUME NEW i \in 1 .. n, NEW j \in 1 .. n, i < j PROVE L[i].rate >= L[j].rate
  <2>1. L[i] \in S /\ L[j] \in S /\ Worse(L[i], L[j])
    BY <1>1, <1>6, <1>8
  <2>2. QED
    BY <1>3, <2>1 DEF Worse
<1>9. Enumerates(L, S)
  BY <1>6, <1>7 DEF Enumerates
<1>10. QED
  BY <1>8, <1>9 DEF L

LEMMA TopIs ==
    ASSUME NEW S, StreetSet(S), NEW sort \in CityOrders
    PROVE  Worst(Top(ByRate(S, sort), 3), S)
<1> DEFINE L == ByRate(S, sort)
           n == Cardinality(S)
           m == IF Len(L) < 3 THEN Len(L) ELSE 3
           top == SubSeq(L, 1, m)
<1>1. Enumerates(L, S) /\ \A i, j \in 1 .. n : i < j => L[i].rate >= L[j].rate
  BY ByRateIs
<1>2. /\ n \in Nat /\ Len(L) = n /\ L \in Seq(S) /\ \A x \in S : \E i \in 1 .. n : L[i] = x
      /\ \A i \in 1 .. n : L[i] \in S
  BY <1>1, ListIs DEF Enumerates
<1>3. \A r \in S : r.rate \in Int
  BY StreetKeys DEF StreetSet, CitySorts
<1> HIDE DEF L, n
<1>4. m \in 0 .. n
  BY <1>2
<1> HIDE DEF m
<1>5. top \in Seq(S) /\ Len(top) = m /\ \A i \in 1 .. m : top[i] = L[i]
  BY <1>2, <1>4, SubSeqProperties
<1>6. DOMAIN top = 1 .. m
  BY <1>5
<1> HIDE DEF top
<1>7. ToSet(top) = {L[i] : i \in 1 .. m}
  BY <1>5, <1>6 DEF ToSet
<1>8. ASSUME NEW i \in 1 .. m, NEW r \in S \ ToSet(top) PROVE r.rate <= top[i].rate
  <2>1. PICK j \in 1 .. n : L[j] = r
    BY <1>2
  <2>2. j \notin 1 .. m
    BY <1>7, <2>1
  <2>3. i \in 1 .. n /\ i < j
    BY <1>2, <1>4, <2>2
  <2>4. L[i].rate >= r.rate /\ L[i] \in S
    BY <1>1, <1>2, <2>1, <2>3
  <2>5. QED
    BY <1>3, <1>5, <2>4
<1>9. ToSet(top) \subseteq S
  BY <1>2, <1>4, <1>7
<1>10. Worst(top, S)
  BY <1>6, <1>8, <1>9 DEF Worst
<1>11. QED
  BY <1>10 DEF Top, top, m, L

LEMMA BusiestIs ==
    ASSUME NEW c, StreetSet(c.rows), c.sort \in CityOrders, RatedStreets(c) # {}
    PROVE  Busiest(c) \in RatedStreets(c) /\ \A r \in RatedStreets(c) : r.n <= Busiest(c).n
<1> DEFINE S == RatedStreets(c)
           n == Cardinality(S)
           Over(b, r) == r.n < b.n \/ (r.n = b.n /\ Ahead(c.sort, b, r))
           before == {p \in S \X S : Over(p[1], p[2])}
           L == InOrder(S, before)
<1>1. StreetSet(S)
  BY FS_Subset DEF StreetSet, RatedStreets
<1>2. IsFiniteSet(S) /\ \A r \in S : r.n \in Int
  BY <1>1, StreetKeys DEF StreetSet, CitySorts
<1>3. \A r, s \in S : <<r, s>> \in before <=> Over(r, s)
  OBVIOUS
<1>4. /\ \A x \in S : ~Over(x, x)
      /\ \A x \in S, y \in S : x = y \/ Over(x, y) \/ Over(y, x)
      /\ \A x \in S, y \in S, z \in S : Over(x, y) /\ Over(y, z) => Over(x, z)
  <2>1. \A x \in S : ~Ahead(c.sort, x, x)
    BY <1>1, AheadOrders
  <2>2. \A x, y \in S : x = y \/ Ahead(c.sort, x, y) \/ Ahead(c.sort, y, x)
    BY <1>1, AheadOrders
  <2>3. \A x, y, z \in S : Ahead(c.sort, x, y) /\ Ahead(c.sort, y, z) => Ahead(c.sort, x, z)
    BY <1>1, AheadOrders
  <2> HIDE DEF S
  <2>4. \A x \in S : ~Over(x, x)
    BY <1>2, <2>1
  <2>5. \A x, y \in S : x = y \/ Over(x, y) \/ Over(y, x)
    BY <1>2, <2>2
  <2>6. \A x, y, z \in S : Over(x, y) /\ Over(y, z) => Over(x, z)
    BY <1>2, <2>3
  <2>7. QED
    BY <2>4, <2>5, <2>6
<1> HIDE DEF before
<1>5. /\ \A x \in S : <<x, x>> \notin before
      /\ \A x \in S, y \in S : x = y \/ <<x, y>> \in before \/ <<y, x>> \in before
      /\ \A x \in S, y \in S, z \in S : <<x, y>> \in before /\ <<y, z>> \in before => <<x, z>> \in before
  <2> HIDE DEF Over, S
  <2>1. QED
    BY <1>3, <1>4
<1>6. /\ n \in Nat /\ L \in [1 .. n -> S]
      /\ \A x \in S : \E i \in 1 .. n : L[i] = x
      /\ \A i, j \in 1 .. n : i < j <=> <<L[i], L[j]>> \in before
  <2> HIDE DEF S
  <2>1. QED
    BY <1>2, <1>5, Enumerated
<1> HIDE DEF L
<1>7. 1 \in 1 .. n
  <2>1. PICK x \in S : TRUE
    OBVIOUS
  <2> HIDE DEF S, n
  <2>2. PICK i \in 1 .. n : L[i] = x
    BY <1>6
  <2>3. QED
    BY <1>6, <2>2
<1> DEFINE b == L[1]
<1>8. b \in S
  BY <1>6, <1>7
<1>9. ASSUME NEW r \in S \ {b} PROVE Over(b, r)
  <2>1. PICK i \in 1 .. n : L[i] = r
    BY <1>6
  <2>2. i # 1
    BY <2>1
  <2>3. 1 < i
    BY <1>6, <2>2
  <2>4. <<b, r>> \in before
    BY <1>6, <1>7, <2>1, <2>3
  <2>5. QED
    BY <1>3, <1>8, <2>4
<1>10. /\ Busiest(c) \in S
       /\ \A r \in S \ {Busiest(c)} : Over(Busiest(c), r)
  <2> HIDE DEF b
  <2>1. \E x \in S : \A r \in S \ {x} : Over(x, r)
    BY <1>8, <1>9
  <2>2. QED
    BY <2>1 DEF Busiest
<1>11. ASSUME NEW r \in S PROVE r.n <= Busiest(c).n
  <2>1. CASE r = Busiest(c)
    BY <1>2, <2>1
  <2>2. CASE r # Busiest(c)
    BY <1>2, <1>10, <2>2
  <2>3. QED
    BY <2>1, <2>2
<1>12. QED
  BY <1>10, <1>11

-----------------------------------------------------------------------------
(* The marks of a translation.                                             *)

MarkTags == STRING \cup {"a"}
OpenMarks == [open : Seq(MarkTags), failed : BOOLEAN]

\* A walk that goes on has opened or closed the mark that it read.
Walked(w, piece, v) ==
  /\ v \in OpenMarks
  /\ ~v.failed =>
       /\ ~w.failed
       /\ Len(v.open) = IF piece.kind = "text" THEN Len(w.open)
                        ELSE IF piece.kind = "close" THEN Len(w.open) - 1 ELSE Len(w.open) + 1

LEMMA WalkStep ==
    ASSUME NEW w \in OpenMarks, NEW piece \in [kind : {"text", "open", "link", "close"}, tag : STRING]
    PROVE  Walked(w, piece, Walk(w, piece))
<1> DEFINE v == Walk(w, piece)
<1> SUFFICES Walked(w, piece, v)
  OBVIOUS
<1> USE DEF Walked
<1>1. /\ w.open \in Seq(MarkTags) /\ w.failed \in BOOLEAN /\ Len(w.open) \in Nat
      /\ piece.kind \in {"text", "open", "link", "close"} /\ piece.tag \in STRING
  BY LenProperties DEF OpenMarks
<1>2. CASE w.failed \/ piece.kind = "text"
  <2>1. v = w
    BY <1>2 DEF Walk
  <2>2. QED
    BY <1>1, <1>2, <2>1
<1>3. CASE ~w.failed /\ piece.kind # "text" /\ v = [w EXCEPT !.failed = TRUE]
  <2>1. v \in OpenMarks /\ v.failed
    BY <1>1, <1>3 DEF OpenMarks
  <2>2. QED
    BY <2>1
<1>4. CASE ~w.failed /\ piece.kind = "close" /\ w.open # <<>> /\ v = [w EXCEPT !.open = Front(@)]
  <2> DEFINE f == Front(w.open)
  <2>1. f \in Seq(MarkTags) /\ Len(f) = Len(w.open) - 1
    <3>1. Len(w.open) > 0
      BY <1>1, <1>4, EmptySeq
    <3>2. f = SubSeq(w.open, 1, Len(w.open) - 1)
      BY DEF Front
    <3>3. QED
      BY <1>1, <3>1, <3>2, SubSeqProperties
  <2> HIDE DEF f
  <2>2. v \in OpenMarks /\ v.open = f
    BY <1>4, <2>1 DEF OpenMarks, f
  <2>3. QED
    BY <1>4, <2>1, <2>2
<1>5. ASSUME ~w.failed, piece.kind \in {"open", "link"}, NEW tag \in MarkTags,
             v = [w EXCEPT !.open = Append(@, tag)]
      PROVE  Walked(w, piece, v)
  <2> DEFINE f == Append(w.open, tag)
  <2>1. f \in Seq(MarkTags) /\ Len(f) = Len(w.open) + 1
    BY <1>1, AppendProperties
  <2> HIDE DEF f
  <2>2. v \in OpenMarks /\ v.open = f
    BY <1>5, <2>1 DEF OpenMarks, f
  <2>3. QED
    BY <1>5, <2>1, <2>2
<1>6. \/ w.failed \/ piece.kind = "text"
      \/ ~w.failed /\ piece.kind # "text" /\ v = [w EXCEPT !.failed = TRUE]
      \/ ~w.failed /\ piece.kind = "close" /\ w.open # <<>> /\ v = [w EXCEPT !.open = Front(@)]
      \/ ~w.failed /\ piece.kind = "open" /\ v = [w EXCEPT !.open = Append(@, piece.tag)]
      \/ ~w.failed /\ piece.kind = "link" /\ v = [w EXCEPT !.open = Append(@, "a")]
  BY <1>1 DEF Walk
<1> HIDE DEF v, Walked
<1>7. QED
  <2>1. "a" \in MarkTags /\ piece.tag \in MarkTags
    BY <1>1 DEF MarkTags
  <2>2. CASE ~w.failed /\ piece.kind = "open" /\ v = [w EXCEPT !.open = Append(@, piece.tag)]
    BY <2>1, <1>5, <2>2
  <2>3. CASE ~w.failed /\ piece.kind = "link" /\ v = [w EXCEPT !.open = Append(@, "a")]
    BY <2>1, <1>5, <2>3
  <2>4. QED
    BY <1>2, <1>3, <1>4, <1>6, <2>2, <2>3

\* A walk over a prefix.
Walks(pieces, k, g) ==
  /\ g = [i \in 0 .. k |-> g[i]]
  /\ g[0] = [open |-> <<>>, failed |-> FALSE]
  /\ \A i \in 1 .. k : g[i] = Walk(g[i - 1], pieces[i])

LEMMA WalksExist ==
    ASSUME NEW pieces \in Pieces
    PROVE  \E g : Walks(pieces, Len(pieces), g)
<1> DEFINE n == Len(pieces)
           T == {k \in 0 .. n : \E g : Walks(pieces, k, g)}
           start == [open |-> <<>>, failed |-> FALSE]
<1>1. n \in Nat
  BY LenProperties DEF Pieces
<1>2. 0 \in T
  <2> DEFINE g == [i \in 0 .. 0 |-> start]
  <2>1. Walks(pieces, 0, g)
    BY DEF Walks
  <2>2. QED
    BY <1>1, <2>1
<1>3. ASSUME NEW k \in 1 .. n, k - 1 \in T PROVE k \in T
  <2>1. PICK g : Walks(pieces, k - 1, g)
    BY <1>3
  <2> DEFINE last == Walk(g[k - 1], pieces[k])
             h == [i \in 0 .. k |-> IF i = k THEN last ELSE g[i]]
  <2>2. k \in Nat /\ k # 0
    BY <1>1
  <2> HIDE DEF last
  <2>3. h[0] = start /\ \A i \in 1 .. k : h[i] = IF i = k THEN last ELSE g[i]
    BY <2>1, <2>2 DEF Walks
  <2>4. \A i \in 1 .. k : h[i - 1] = g[i - 1]
    BY <2>2
  <2>5. \A i \in 1 .. k : i # k => g[i] = Walk(g[i - 1], pieces[i])
    <3>1. \A i \in 1 .. k - 1 : g[i] = Walk(g[i - 1], pieces[i])
      BY <2>1 DEF Walks
    <3>2. \A i \in 1 .. k : i # k => i \in 1 .. k - 1
      BY <2>2
    <3>3. QED
      BY <3>1, <3>2
  <2>6. \A i \in 1 .. k : h[i] = Walk(h[i - 1], pieces[i])
    <3> SUFFICES ASSUME NEW i \in 1 .. k PROVE h[i] = Walk(h[i - 1], pieces[i])
      OBVIOUS
    <3> HIDE DEF h
    <3>1. CASE i = k
      BY <2>3, <2>4, <3>1 DEF last
    <3>2. CASE i # k
      BY <2>3, <2>4, <2>5, <3>2
    <3>3. QED
      BY <3>1, <3>2
  <2>7. h = [i \in 0 .. k |-> h[i]]
    OBVIOUS
  <2> HIDE DEF h
  <2>8. Walks(pieces, k, h)
    BY <2>3, <2>6, <2>7 DEF Walks
  <2>9. QED
    BY <1>1, <2>8
<1> HIDE DEF T
<1>4. \A k \in 0 .. n : k \in T
  BY <1>1, <1>2, <1>3, StepByStep
<1>5. QED
  BY <1>1, <1>4 DEF T

\* How many pieces up to a place are of some kinds.
KindsUpTo(pieces, i, kinds) == Cardinality({j \in 1 .. i : pieces[j].kind \in kinds})

LEMMA KindsStep ==
    ASSUME NEW pieces, NEW kinds
    PROVE  /\ KindsUpTo(pieces, 0, kinds) = 0
           /\ \A i \in Nat \ {0} :
                /\ KindsUpTo(pieces, i, kinds) \in Nat /\ KindsUpTo(pieces, i - 1, kinds) \in Nat
                /\ KindsUpTo(pieces, i, kinds) =
                     KindsUpTo(pieces, i - 1, kinds) + IF pieces[i].kind \in kinds THEN 1 ELSE 0
<1> DEFINE at(i) == {j \in 1 .. i : pieces[j].kind \in kinds}
<1>1. \A i \in Nat : IsFiniteSet(at(i)) /\ Cardinality(at(i)) \in Nat
  <2> SUFFICES ASSUME NEW i \in Nat PROVE IsFiniteSet(at(i)) /\ Cardinality(at(i)) \in Nat
    OBVIOUS
  <2>1. IsFiniteSet(1 .. i)
    BY FS_Interval
  <2>2. at(i) \in SUBSET (1 .. i)
    OBVIOUS
  <2> HIDE DEF at
  <2>3. QED
    BY <2>1, <2>2, FS_Subset, FS_CardinalityType
<1>2. KindsUpTo(pieces, 0, kinds) = 0
  <2>1. at(0) = {}
    OBVIOUS
  <2>2. QED
    BY <2>1, FS_EmptySet DEF KindsUpTo
<1>3. ASSUME NEW i \in Nat \ {0}
      PROVE  /\ KindsUpTo(pieces, i, kinds) \in Nat /\ KindsUpTo(pieces, i - 1, kinds) \in Nat
             /\ KindsUpTo(pieces, i, kinds) =
                  KindsUpTo(pieces, i - 1, kinds) + IF pieces[i].kind \in kinds THEN 1 ELSE 0
  <2>1. KindsUpTo(pieces, i, kinds) = Cardinality(at(i)) /\ KindsUpTo(pieces, i - 1, kinds) = Cardinality(at(i - 1))
    BY DEF KindsUpTo
  <2>2. IF pieces[i].kind \in kinds THEN at(i) = at(i - 1) \cup {i} ELSE at(i) = at(i - 1)
    <3>1. 1 .. i = (1 .. i - 1) \cup {i}
      OBVIOUS
    <3>2. QED
      BY <3>1
  <2>3. i \notin at(i - 1) /\ i - 1 \in Nat
    OBVIOUS
  <2>4. IsFiniteSet(at(i - 1)) /\ Cardinality(at(i - 1)) \in Nat
    BY <1>1, <2>3
  <2> HIDE DEF at
  <2>5. Cardinality(at(i - 1) \cup {i}) = Cardinality(at(i - 1)) + 1
    BY <2>3, <2>4, FS_AddElement
  <2>6. CASE pieces[i].kind \in kinds
    <3>1. Cardinality(at(i)) = Cardinality(at(i - 1)) + 1
      BY <2>2, <2>5, <2>6, Zenon
    <3>2. QED
      BY <2>1, <2>4, <2>6, <3>1
  <2>7. CASE pieces[i].kind \notin kinds
    BY <2>1, <2>2, <2>4, <2>7
  <2>8. QED
    BY <2>6, <2>7
<1>4. QED
  BY <1>2, <1>3

\* In a marked translation no mark is closed that is not open.
LEMMA MarksNest ==
    ASSUME NEW pieces \in Pieces
    PROVE  LET text == RenderTranslation(pieces)
           IN  "marked" \in DOMAIN text =>
                 /\ text.marked = pieces
                 /\ \A i \in DOMAIN pieces :
                      KindsUpTo(pieces, i, {"close"}) <= KindsUpTo(pieces, i, {"open", "link"})
<1> DEFINE n == Len(pieces)
           start == [open |-> <<>>, failed |-> FALSE]
           walk == CHOOSE g : g = [i \in 0 .. n |-> IF i = 0 THEN start ELSE Walk(g[i - 1], pieces[i])]
           closed(i) == KindsUpTo(pieces, i, {"close"})
           opened(i) == KindsUpTo(pieces, i, {"open", "link"})
           deep(i) == walk[i].failed = FALSE => Len(walk[i].open) = opened(i) - closed(i)
           T == {k \in 0 .. n : /\ walk[k] \in OpenMarks
                                /\ walk[k].failed = FALSE => \A i \in 0 .. k : opened(i) - closed(i) \in Nat
                                /\ deep(k)}
<1>1. n \in Nat /\ DOMAIN pieces = 1 .. n
      /\ \A i \in 1 .. n : pieces[i] \in [kind : {"text", "open", "link", "close"}, tag : STRING]
  BY LenProperties DEF Pieces
<1>2. RenderTranslation(pieces) =
        IF walk[n].failed \/ walk[n].open # <<>> THEN [plain |-> pieces] ELSE [marked |-> pieces]
  BY DEF RenderTranslation
<1>3. Walks(pieces, n, walk)
  <2>1. PICK g : Walks(pieces, n, g)
    BY WalksExist
  <2> DEFINE h == [i \in 0 .. n |-> IF i = 0 THEN start ELSE Walk(g[i - 1], pieces[i])]
  <2>2. ASSUME NEW i \in 0 .. n PROVE g[i] = h[i]
    <3>1. g[0] = start /\ \A k \in 1 .. n : g[k] = Walk(g[k - 1], pieces[k])
      BY <2>1 DEF Walks
    <3>2. h[i] = IF i = 0 THEN start ELSE Walk(g[i - 1], pieces[i])
      OBVIOUS
    <3> HIDE DEF h, start
    <3>3. CASE i = 0
      BY <3>1, <3>2, <3>3
    <3>4. CASE i # 0
      <4>1. i \in 1 .. n
        BY <1>1, <3>4
      <4>2. g[i] = Walk(g[i - 1], pieces[i])
        BY <3>1, <4>1
      <4>3. QED
        BY <3>2, <3>4, <4>2
    <3>5. QED
      BY <3>3, <3>4
  <2>3. g = [i \in 0 .. n |-> g[i]]
    BY <2>1 DEF Walks
  <2>4. g = h
    <3>1. h = [i \in 0 .. n |-> h[i]]
      OBVIOUS
    <3> HIDE DEF h
    <3>2. QED
      BY <2>2, <2>3, <3>1
  <2>5. walk = [i \in 0 .. n |-> IF i = 0 THEN start ELSE Walk(walk[i - 1], pieces[i])]
    BY <2>4
  <2> HIDE DEF walk
  <2>6. \A i \in 0 .. n : walk[i] = IF i = 0 THEN start ELSE Walk(walk[i - 1], pieces[i])
    BY <2>5, Zenon
  <2>7. walk = [i \in 0 .. n |-> walk[i]]
    BY <2>5
  <2>8. walk[0] = start /\ \A i \in 1 .. n : walk[i] = Walk(walk[i - 1], pieces[i])
    BY <1>1, <2>6
  <2>9. QED
    BY <2>7, <2>8 DEF Walks
<1> HIDE DEF walk, n
<1>4. /\ closed(0) = 0 /\ opened(0) = 0
      /\ \A i \in Nat \ {0} :
           /\ closed(i) \in Nat /\ closed(i - 1) \in Nat /\ opened(i) \in Nat /\ opened(i - 1) \in Nat
           /\ closed(i) = closed(i - 1) + IF pieces[i].kind \in {"close"} THEN 1 ELSE 0
           /\ opened(i) = opened(i - 1) + IF pieces[i].kind \in {"open", "link"} THEN 1 ELSE 0
  <2>1. /\ closed(0) = 0
        /\ \A i \in Nat \ {0} :
             /\ closed(i) \in Nat /\ closed(i - 1) \in Nat
             /\ closed(i) = closed(i - 1) + IF pieces[i].kind \in {"close"} THEN 1 ELSE 0
    BY KindsStep
  <2>2. /\ opened(0) = 0
        /\ \A i \in Nat \ {0} :
             /\ opened(i) \in Nat /\ opened(i - 1) \in Nat
             /\ opened(i) = opened(i - 1) + IF pieces[i].kind \in {"open", "link"} THEN 1 ELSE 0
    BY KindsStep
  <2> HIDE DEF closed, opened
  <2>3. QED
    BY <2>1, <2>2
<1> HIDE DEF closed, opened
<1>5. 0 \in T
  <2>1. walk[0] = start
    BY <1>3 DEF Walks
  <2>2. start \in OpenMarks /\ Len(start.open) = 0 /\ start.failed = FALSE
    BY EmptySeq DEF OpenMarks
  <2> HIDE DEF start
  <2>3. \A i \in 0 .. 0 : opened(i) - closed(i) \in Nat
    BY <1>4
  <2>4. QED
    BY <1>1, <1>4, <2>1, <2>2, <2>3
<1>6. ASSUME NEW k \in 1 .. n, k - 1 \in T PROVE k \in T
  <2> DEFINE w == walk[k - 1]
             v == walk[k]
  <2>1. v = Walk(w, pieces[k])
    BY <1>3 DEF Walks
  <2>2. /\ w \in OpenMarks
        /\ w.failed = FALSE => \A i \in 0 .. k - 1 : opened(i) - closed(i) \in Nat
        /\ w.failed = FALSE => Len(w.open) = opened(k - 1) - closed(k - 1)
    BY <1>6
  <2>3. pieces[k] \in [kind : {"text", "open", "link", "close"}, tag : STRING]
    BY <1>1
  <2>4. Walked(w, pieces[k], v)
    BY <2>1, <2>2, <2>3, WalkStep
  <2> HIDE DEF w, v
  <2>5. w.failed \in BOOLEAN /\ v.failed \in BOOLEAN /\ Len(v.open) \in Nat /\ Len(w.open) \in Nat
    <3>1. v \in OpenMarks /\ w \in OpenMarks
      BY <2>2, <2>4 DEF Walked
    <3>2. v.open \in Seq(MarkTags) /\ w.open \in Seq(MarkTags) /\ w.failed \in BOOLEAN /\ v.failed \in BOOLEAN
      BY <3>1 DEF OpenMarks
    <3>3. QED
      BY <3>2, LenProperties
  <2>6. ASSUME v.failed = FALSE
        PROVE  /\ Len(v.open) = opened(k) - closed(k)
               /\ \A i \in 0 .. k : opened(i) - closed(i) \in Nat
    <3>1. /\ w.failed = FALSE
          /\ Len(v.open) = IF pieces[k].kind = "text" THEN Len(w.open)
                           ELSE IF pieces[k].kind = "close" THEN Len(w.open) - 1 ELSE Len(w.open) + 1
      BY <2>4, <2>5, <2>6 DEF Walked
    <3>2. Len(w.open) = opened(k - 1) - closed(k - 1)
      BY <2>2, <3>1
    <3>3. /\ closed(k) \in Nat /\ closed(k - 1) \in Nat /\ opened(k) \in Nat /\ opened(k - 1) \in Nat
          /\ closed(k) = closed(k - 1) + IF pieces[k].kind \in {"close"} THEN 1 ELSE 0
          /\ opened(k) = opened(k - 1) + IF pieces[k].kind \in {"open", "link"} THEN 1 ELSE 0
      BY <1>1, <1>4
    <3>4. pieces[k].kind \in {"text", "open", "link", "close"}
      BY <2>3
    <3>5. Len(v.open) = opened(k) - closed(k)
      <4> DEFINE kind == pieces[k].kind
                 a    == closed(k)
                 b    == opened(k)
                 x    == closed(k - 1)
                 y    == opened(k - 1)
      <4>1. /\ a \in Nat /\ b \in Nat /\ x \in Nat /\ y \in Nat /\ Len(w.open) = y - x
            /\ a = x + IF kind \in {"close"} THEN 1 ELSE 0
            /\ b = y + IF kind \in {"open", "link"} THEN 1 ELSE 0
        BY <3>2, <3>3
      <4>2. Len(v.open) = IF kind = "text" THEN Len(w.open)
                          ELSE IF kind = "close" THEN Len(w.open) - 1 ELSE Len(w.open) + 1
        BY <3>1
      <4> HIDE DEF a, b, x, y, kind
      <4>3. kind = "text" \/ kind = "close" \/ kind \in {"open", "link"}
        BY <3>4 DEF kind
      <4> DEFINE m == Len(v.open)
                 o == Len(w.open)
      <4> SUFFICES m = b - a
        BY DEF a, b
      <4> HIDE DEF m, o
      <4>4. ASSUME kind = "text" PROVE m = b - a
        <5>1. m = o /\ a = x /\ b = y
          BY <4>1, <4>2, <4>4 DEF m, o
        <5>2. QED
          BY <4>1, <5>1 DEF o
      <4>5. ASSUME kind = "close" PROVE m = b - a
        <5>1. m = o - 1 /\ a = x + 1 /\ b = y
          BY <4>1, <4>2, <4>5 DEF m, o
        <5>2. QED
          BY <4>1, <5>1 DEF o
      <4>6. ASSUME kind \in {"open", "link"} PROVE m = b - a
        <5>1. m = o + 1 /\ a = x /\ b = y + 1
          BY <4>1, <4>2, <4>6 DEF m, o
        <5>2. QED
          BY <4>1, <5>1 DEF o
      <4>7. QED
        BY <4>3, <4>4, <4>5, <4>6 DEF a, b
    <3>6. \A i \in 0 .. k : i \in 0 .. k - 1 \/ i = k
      BY <1>1
    <3>7. opened(k) - closed(k) \in Nat
      BY <2>5, <3>5
    <3>8. \A i \in 0 .. k - 1 : opened(i) - closed(i) \in Nat
      BY <2>2, <3>1
    <3>9. QED
      BY <3>5, <3>6, <3>7, <3>8
  <2>7. QED
    <3>1. walk[k] \in OpenMarks
      BY <2>4 DEF Walked, v
    <3>2. walk[k].failed = FALSE => Len(walk[k].open) = opened(k) - closed(k)
      BY <2>6 DEF v
    <3>3. walk[k].failed = FALSE => \A i \in 0 .. k : opened(i) - closed(i) \in Nat
      BY <2>6 DEF v
    <3>4. k \in 0 .. n
      BY <1>1
    <3>5. QED
      BY <3>1, <3>2, <3>3, <3>4
<1> HIDE DEF T
<1>7. \A k \in 0 .. n : k \in T
  BY <1>1, <1>5, <1>6, StepByStep
<1>8. ASSUME "marked" \in DOMAIN RenderTranslation(pieces)
      PROVE  /\ RenderTranslation(pieces).marked = pieces
             /\ \A i \in DOMAIN pieces : closed(i) <= opened(i)
  <2>1. walk[n].failed # TRUE /\ RenderTranslation(pieces) = [marked |-> pieces]
    <3>1. CASE walk[n].failed \/ walk[n].open # <<>>
      <4>1. RenderTranslation(pieces) = [plain |-> pieces]
        BY <1>2, <3>1
      <4>2. DOMAIN RenderTranslation(pieces) = {"plain"}
        BY <4>1
      <4>3. QED
        BY <1>8, <4>2
    <3>2. CASE ~(walk[n].failed \/ walk[n].open # <<>>)
      BY <1>2, <3>2
    <3>3. QED
      BY <3>1, <3>2
  <2>2. n \in T
    BY <1>1, <1>7
  <2>3. walk[n].failed \in BOOLEAN
    BY <2>2 DEF T, OpenMarks
  <2>4. \A i \in 0 .. n : opened(i) - closed(i) \in Nat
    BY <2>1, <2>2, <2>3 DEF T
  <2>5. \A i \in 1 .. n : opened(i) \in Nat /\ closed(i) \in Nat
    BY <1>1, <1>4
  <2>6. \A i \in 1 .. n : closed(i) <= opened(i)
    BY <1>1, <2>4, <2>5
  <2>7. QED
    BY <1>1, <2>1, <2>6
<1>9. QED
  BY <1>8 DEF closed, opened

-----------------------------------------------------------------------------
(* The page of a city.                                                     *)

CityNames ==
  {"stage", "url", "link", "lang", "current", "asked", "catalog", "reply", "rows", "filter", "input",
   "sort", "view", "pressed", "saved", "began", "ended", "static", "table", "maps", "summary", "bottom",
   "bias", "download", "events"}

\* What an operation leaves alone.
SamePlace(c, q)   == q.stage = c.stage /\ q.link = c.link /\ q.url = c.url /\ q.lang = c.lang
SameSpeech(c, q)  == q.current = c.current /\ q.catalog = c.catalog
SameStreets(c, q) == q.reply = c.reply /\ q.rows = c.rows
SameOrder(c, q)   == q.sort = c.sort /\ q.filter = c.filter
SameScreen(c, q)  == /\ q.input = c.input /\ q.view = c.view /\ q.pressed = c.pressed /\ q.saved = c.saved
                     /\ q.began = c.began
SamePanels(c, q)  == /\ q.summary = c.summary /\ q.bottom = c.bottom /\ q.bias = c.bias
                     /\ q.download = c.download
SameAnswers(c, q) == SamePlace(c, q) /\ SameStreets(c, q) /\ SameOrder(c, q) /\ SameScreen(c, q)

LEMMA TabledIs ==
    ASSUME NEW c, DOMAIN c = CityNames
    PROVE  LET q == Tabled(c)
           IN  /\ DOMAIN q = CityNames /\ q.table = TableDrawn(c) /\ q.static = c.static /\ q.maps = c.maps
               /\ SameAnswers(c, q) /\ SameSpeech(c, q) /\ SamePanels(c, q)
<1> DEFINE t == TableDrawn(c)
           q == [c EXCEPT !.table = t]
<1>1. Tabled(c) = q
  BY DEF Tabled
<1> HIDE DEF t
<1>2. DOMAIN q = CityNames /\ q.table = t /\ q.static = c.static /\ q.maps = c.maps
  BY DEF CityNames
<1>3. SameAnswers(c, q) /\ SameSpeech(c, q) /\ SamePanels(c, q)
  BY DEF CityNames, SameAnswers, SamePlace, SameStreets, SameOrder, SameScreen, SameSpeech, SamePanels
<1> HIDE DEF q
<1>4. QED
  BY <1>1, <1>2, <1>3 DEF t

LEMMA SummarizedIs ==
    ASSUME NEW c, DOMAIN c = CityNames
    PROVE  LET q == Summarized(c)
           IN  /\ DOMAIN q = CityNames /\ q.table = c.table /\ q.static = c.static /\ q.maps = c.maps
               /\ q.summary = HotspotSummary(c) /\ q.bottom = BottomLine(c) /\ q.bias = BiasPanel(c)
               /\ q.download = Download(c)
               /\ SameAnswers(c, q) /\ SameSpeech(c, q)
<1> DEFINE a == HotspotSummary(c)
           b == BottomLine(c)
           d == BiasPanel(c)
           e == Download(c)
           q == [c EXCEPT !.summary = a, !.bottom = b, !.bias = d, !.download = e]
<1>1. Summarized(c) = q
  BY DEF Summarized
<1> HIDE DEF a, b, d, e
<1>2. /\ DOMAIN q = CityNames /\ q.table = c.table /\ q.static = c.static /\ q.maps = c.maps
      /\ q.summary = a /\ q.bottom = b /\ q.bias = d /\ q.download = e
  BY DEF CityNames
<1>3. SameAnswers(c, q) /\ SameSpeech(c, q)
  BY DEF CityNames, SameAnswers, SamePlace, SameStreets, SameOrder, SameScreen, SameSpeech
<1> HIDE DEF q
<1>4. QED
  BY <1>1, <1>2, <1>3 DEF a, b, d, e

LEMMA TranslatedIs ==
    ASSUME NEW c, DOMAIN c = CityNames
    PROVE  LET q == Translated(c)
           IN  /\ DOMAIN q = CityNames /\ q.table = c.table /\ q.maps = c.maps
               /\ q.static = [text |-> RenderTranslation(CityMessage[Words(q)]), words |-> Words(q)]
               /\ q.current = c.lang /\ q.catalog = c.catalog
               /\ SameAnswers(c, q) /\ SamePanels(c, q)
<1> DEFINE s == [c EXCEPT !.current = c.lang]
           t == [text |-> RenderTranslation(CityMessage[Words(s)]), words |-> Words(s)]
           q == [s EXCEPT !.static = t]
<1>1. Translated(c) = q
  BY DEF Translated
<1>2. /\ DOMAIN s = CityNames /\ s.table = c.table /\ s.maps = c.maps /\ s.current = c.lang /\ s.catalog = c.catalog
      /\ SameAnswers(c, s) /\ SamePanels(c, s)
  BY DEF CityNames, SameAnswers, SamePlace, SameStreets, SameOrder, SameScreen, SamePanels
<1> HIDE DEF s, t
<1>3. /\ DOMAIN q = CityNames /\ q.table = s.table /\ q.maps = s.maps /\ q.current = s.current
      /\ q.catalog = s.catalog /\ q.static = t
  BY <1>2 DEF CityNames
<1>4. SameAnswers(s, q) /\ SamePanels(s, q)
  BY <1>2 DEF CityNames, SameAnswers, SamePlace, SameStreets, SameOrder, SameScreen, SamePanels
<1> HIDE DEF q
<1>5. Words(q) = Words(s)
  BY <1>3 DEF Words
<1>6. SameAnswers(c, q) /\ SamePanels(c, q)
  BY <1>2, <1>4 DEF SameAnswers, SamePlace, SameStreets, SameOrder, SameScreen, SamePanels
<1>7. QED
  BY <1>1, <1>2, <1>3, <1>5, <1>6 DEF t

\* What a panel is drawn from.
SameBasis(c, q) == SameStreets(c, q) /\ SameSpeech(c, q) /\ q.url = c.url

LEMMA DrawnFrom ==
    ASSUME NEW c, NEW q, SameBasis(c, q), q.sort = c.sort
    PROVE  /\ MapsDrawn(q) = MapsDrawn(c) /\ BottomLine(q) = (IF c.rows = {} THEN q.bottom ELSE BottomLine(c))
           /\ HotspotSummary(q) = IF c.rows = {} THEN q.summary ELSE HotspotSummary(c)
           /\ BiasPanel(q) = BiasPanel(c) /\ Download(q) = Download(c)
           /\ q.filter = c.filter => TableDrawn(q) = TableDrawn(c)
<1>1. /\ Words(q) = Words(c) /\ RatedStreets(q) = RatedStreets(c) /\ HotRows(q) = HotRows(c)
      /\ q.rows = c.rows /\ q.reply = c.reply /\ q.url = c.url
  BY DEF SameBasis, SameStreets, SameSpeech, Words, RatedStreets, HotRows
<1>2. Busiest(q) = Busiest(c)
  BY <1>1 DEF Busiest
<1>3. MapsDrawn(q) = MapsDrawn(c)
  BY <1>1, <1>2, Zenon DEF MapsDrawn
<1>4. BottomLine(q) = IF c.rows = {} THEN q.bottom ELSE BottomLine(c)
  BY <1>1, Zenon DEF BottomLine
<1>5. HotspotSummary(q) = IF c.rows = {} THEN q.summary ELSE HotspotSummary(c)
  BY <1>1, Zenon DEF HotspotSummary
<1>6. BiasPanel(q) = BiasPanel(c)
  BY <1>1, Zenon DEF BiasPanel
<1>7. Download(q) = Download(c)
  BY <1>1, Zenon DEF Download
<1>8. ASSUME q.filter = c.filter PROVE TableDrawn(q) = TableDrawn(c)
  <2>1. {row \in RatedStreets(q) : MatchesFilter(q, row)} = {row \in RatedStreets(c) : MatchesFilter(c, row)}
    BY <1>1, <1>8 DEF MatchesFilter
  <2>2. QED
    BY <1>1, <2>1 DEF TableDrawn
<1>9. QED
  BY <1>3, <1>4, <1>5, <1>6, <1>7, <1>8

\* The words of the page are those of its language, once it is started.
Translation(c, words) == [text |-> RenderTranslation(CityMessage[words]), words |-> words]

CityWords(c) ==
  /\ c.lang \in CityLanguages /\ c.current \in CityLanguages
  /\ c.static # Undrawn => \E w \in CityLanguages \cup {"keys"} : c.static = Translation(c, w)
  /\ c.stage \in {"data", "shown"} => c.current = c.lang /\ c.static.words = Words(c)

CityData(c) ==
  c.stage = "shown" => c.reply \in CityReplies /\ c.rows = c.reply.rows /\ c.sort \in CityOrders

CityTable(c) ==
  c.stage = "shown" =>
    /\ c.table.rows = TableDrawn(c).rows /\ c.table.of = TableDrawn(c).of
    /\ c.rows # {} => c.table.words = Words(c)

\* Each panel tells of the streets of the dataset, whatever order it was drawn in.
CityPanels(c) ==
  c.stage = "shown" /\ c.rows # {} =>
    /\ c.maps.words = Words(c) /\ c.maps.hot = {row.id : row \in HotRows(c)}
    /\ RatedStreets(c) # {} =>
         \E row \in RatedStreets(c) : row.id = c.maps.busiest /\ \A r \in RatedStreets(c) : r.n <= row.n
    /\ c.summary.words = Words(c) /\ Enumerates(c.summary.links, HotRows(c))
    /\ c.bottom.words = Words(c) /\ Worst(c.bottom.top, RatedStreets(c))
    /\ c.bottom.hot = Cardinality(HotRows(c)) /\ c.bottom.of = Cardinality(RatedStreets(c))
    /\ "hidden" \in DOMAIN c.bias \/ c.bias.words = Words(c)
    /\ c.download.words = Words(c)

\* While a print is under way the page shows everything, and remembers what the reader had.
CityPrint(c) ==
  /\ c.filter = c.input
  /\ c.saved = {} => c.view = c.pressed
  /\ c.saved # {} => c.view = "both" /\ c.filter = "" /\ c.began # {}
  /\ \A s \in c.saved : s.view = c.pressed

CityOpened(c) == c.link \in CityLinks /\ c.url = DatasetUrl(c.link)

CityHolds(c) == /\ DOMAIN c = CityNames
                /\ CityWords(c) /\ CityData(c) /\ CityTable(c) /\ CityPanels(c) /\ CityPrint(c) /\ CityOpened(c)

LEMMA WordsAre ==
    ASSUME NEW c, c.current \in CityLanguages
    PROVE  Words(c) \in CityLanguages \cup {"keys"}
BY DEF Words, MessageIn, CityLanguages

LEMMA StreetsOf ==
    ASSUME NEW c, c.reply \in CityReplies, c.rows = c.reply.rows
    PROVE  /\ StreetSet(c.rows) /\ StreetSet(RatedStreets(c)) /\ StreetSet(HotRows(c))
           /\ {row \in c.rows : row.hot} = HotRows(c)
           /\ StreetSet({row \in RatedStreets(c) : MatchesFilter(c, row)})
<1>1. /\ IsFiniteSet(c.rows) /\ c.rows \subseteq CityStreets
      /\ \A r, s \in c.rows : r.id = s.id => r = s
      /\ \A r \in c.rows : r.hot => r.rate # Rateless
  BY CityPageAssumption DEF CityPageAssumption
<1>2. \A S \in SUBSET c.rows : StreetSet(S)
  <2> SUFFICES ASSUME NEW S \in SUBSET c.rows PROVE StreetSet(S)
    OBVIOUS
  <2>1. IsFiniteSet(S)
    BY <1>1, FS_Subset
  <2>2. QED
    BY <1>1, <2>1 DEF StreetSet
<1>3. /\ RatedStreets(c) \in SUBSET c.rows /\ HotRows(c) \in SUBSET c.rows /\ c.rows \in SUBSET c.rows
      /\ {row \in RatedStreets(c) : MatchesFilter(c, row)} \in SUBSET c.rows
  BY DEF RatedStreets, HotRows
<1>4. {row \in c.rows : row.hot} = HotRows(c)
  BY <1>1 DEF RatedStreets, HotRows, HasRate
<1>5. QED
  BY <1>2, <1>3, <1>4

LEMMA PanelsKept ==
    ASSUME NEW c, NEW q, CityPanels(c), q.stage = c.stage, SameStreets(c, q), SameSpeech(c, q),
           SamePanels(c, q), q.maps = c.maps
    PROVE  CityPanels(q)
<1>1. /\ Words(q) = Words(c) /\ RatedStreets(q) = RatedStreets(c) /\ HotRows(q) = HotRows(c)
      /\ q.rows = c.rows
  BY DEF SameStreets, SameSpeech, Words, RatedStreets, HotRows
<1>2. q.summary = c.summary /\ q.bottom = c.bottom /\ q.bias = c.bias /\ q.download = c.download
  BY DEF SamePanels
<1>3. QED
  BY <1>1, <1>2, Zenon DEF CityPanels

LEMMA PanelsDrawn ==
    ASSUME NEW q, q.reply \in CityReplies, q.rows = q.reply.rows, q.sort \in CityOrders,
           q.rows # {} => /\ q.maps = MapsDrawn(q) /\ q.summary = HotspotSummary(q)
                          /\ q.bottom = BottomLine(q) /\ q.bias = BiasPanel(q) /\ q.download = Download(q)
    PROVE  CityPanels(q)
<1> SUFFICES ASSUME q.rows # {}
             PROVE  CityPanels(q)
  BY DEF CityPanels
<1>1. StreetSet(q.rows) /\ StreetSet(RatedStreets(q)) /\ StreetSet(HotRows(q))
  BY StreetsOf
<1>2. q.maps.words = Words(q) /\ q.maps.hot = {row.id : row \in HotRows(q)}
  <2>1. CASE RatedStreets(q) = {}
    <3>1. {row.id : row \in HotRows(q)} = {}
      BY <2>1 DEF HotRows
    <3>2. q.maps = [streets |-> 0, busiest |-> 0, hot |-> {}, words |-> Words(q)]
      BY <2>1 DEF MapsDrawn
    <3>3. QED
      BY <3>1, <3>2
  <2>2. CASE RatedStreets(q) # {}
    <3>1. q.maps = [streets |-> Cardinality(q.rows), busiest |-> Busiest(q).id,
                    hot |-> {row.id : row \in HotRows(q)}, words |-> Words(q)]
      BY <2>2 DEF MapsDrawn
    <3>2. QED
      BY <3>1
  <2>3. QED
    BY <2>1, <2>2
<1>3. ASSUME RatedStreets(q) # {}
      PROVE  \E row \in RatedStreets(q) : row.id = q.maps.busiest /\ \A r \in RatedStreets(q) : r.n <= row.n
  <2>1. q.maps.busiest = Busiest(q).id
    BY <1>3 DEF MapsDrawn
  <2>2. Busiest(q) \in RatedStreets(q) /\ \A r \in RatedStreets(q) : r.n <= Busiest(q).n
    BY <1>1, <1>3, BusiestIs
  <2>3. QED
    BY <2>1, <2>2
<1>4. q.summary.words = Words(q) /\ Enumerates(q.summary.links, HotRows(q))
  <2>1. q.summary = [links |-> ByRate(HotRows(q), q.sort), words |-> Words(q)]
    BY DEF HotspotSummary
  <2>2. Enumerates(ByRate(HotRows(q), q.sort), HotRows(q))
    BY <1>1, ByRateIs
  <2>3. QED
    BY <2>1, <2>2
<1>5. /\ q.bottom.words = Words(q) /\ Worst(q.bottom.top, RatedStreets(q))
      /\ q.bottom.hot = Cardinality(HotRows(q)) /\ q.bottom.of = Cardinality(RatedStreets(q))
  <2> DEFINE top == IF HotRows(q) = {} THEN <<>> ELSE Top(ByRate(RatedStreets(q), q.sort), 3)
  <2>1. q.bottom = [hot |-> Cardinality(HotRows(q)), of |-> Cardinality(RatedStreets(q)), top |-> top,
                    words |-> Words(q)]
    BY DEF BottomLine
  <2>2. Worst(top, RatedStreets(q))
    <3>1. CASE HotRows(q) = {}
      <4>1. Worst(<<>>, RatedStreets(q))
        BY DEF Worst, ToSet
      <4>2. QED
        BY <3>1, <4>1
    <3>2. CASE HotRows(q) # {}
      <4>1. Worst(Top(ByRate(RatedStreets(q), q.sort), 3), RatedStreets(q))
        BY <1>1, TopIs
      <4>2. QED
        BY <3>2, <4>1
    <3>3. QED
      BY <3>1, <3>2
  <2> HIDE DEF top
  <2>3. QED
    BY <2>1, <2>2
<1>6. "hidden" \in DOMAIN q.bias \/ q.bias.words = Words(q)
  <2>1. CASE q.reply.over \cup q.reply.under = {}
    <3>1. q.bias = [hidden |-> TRUE]
      BY <2>1 DEF BiasPanel
    <3>2. QED
      BY <3>1
  <2>2. CASE q.reply.over \cup q.reply.under # {}
    <3>1. q.bias = [over |-> q.reply.over, under |-> q.reply.under, words |-> Words(q)]
      BY <2>2 DEF BiasPanel
    <3>2. QED
      BY <3>1
  <2>3. QED
    BY <2>1, <2>2
<1>7. q.download.words = Words(q)
  <2> DEFINE k == IF q.reply.counted = {} THEN Cardinality(RatedStreets(q)) ELSE CHOOSE n \in q.reply.counted : TRUE
  <2>1. q.download = [from |-> q.url, words |-> Words(q), counted |-> k]
    BY DEF Download
  <2> HIDE DEF k
  <2>2. QED
    BY <2>1
<1>8. QED
  BY <1>2, <1>3, <1>4, <1>5, <1>6, <1>7 DEF CityPanels

\* A step that redraws nothing but the table.
LEMMA QuietCity ==
    ASSUME NEW c, NEW q, CityHolds(c), DOMAIN q = CityNames,
           SamePlace(c, q), SameSpeech(c, q), SameStreets(c, q), SamePanels(c, q),
           q.static = c.static, q.maps = c.maps,
           \/ q.table = c.table /\ SameOrder(c, q)
           \/ q.table = TableDrawn(q) /\ (q.sort = c.sort \/ q.sort \in CityOrders),
           CityPrint(q)
    PROVE  CityHolds(q)
<1>1. /\ q.stage = c.stage /\ q.link = c.link /\ q.url = c.url /\ q.lang = c.lang
      /\ q.current = c.current /\ q.catalog = c.catalog /\ q.reply = c.reply /\ q.rows = c.rows
      /\ Words(q) = Words(c)
  BY DEF SamePlace, SameSpeech, SameStreets, Words
<1>2. CityWords(q)
  BY <1>1, Zenon DEF CityHolds, CityWords, Translation
<1>3. CityData(q)
  BY <1>1 DEF CityHolds, CityData, SameOrder
<1>4. CityTable(q)
  <2>1. CASE q.table = c.table /\ SameOrder(c, q)
    <3>1. TableDrawn(q) = TableDrawn(c)
      BY <1>1, <2>1, DrawnFrom DEF SameBasis, SameOrder
    <3>2. QED
      BY <1>1, <2>1, <3>1, Zenon DEF CityHolds, CityTable
  <2>2. CASE q.table = TableDrawn(q)
    <3>1. TableDrawn(q).words = Words(q)
      BY DEF TableDrawn
    <3>2. QED
      BY <2>2, <3>1, Zenon DEF CityTable
  <2>3. QED
    BY <2>1, <2>2
<1>5. CityPanels(q)
  BY <1>1, PanelsKept DEF CityHolds
<1>6. CityOpened(q)
  BY <1>1 DEF CityHolds, CityOpened
<1>7. QED
  BY <1>2, <1>3, <1>4, <1>5, <1>6 DEF CityHolds

CityRows(c) ==
  c.stage = "shown" => c.table.rows = TableDrawn(c).rows /\ c.table.of = TableDrawn(c).of

LEMMA RowsKept ==
    ASSUME NEW c, NEW q, CityRows(c), q.stage = c.stage, q.table = c.table, q.rows = c.rows, SameOrder(c, q)
    PROVE  CityRows(q)
<1>1. RatedStreets(q) = RatedStreets(c) /\ q.sort = c.sort /\ q.filter = c.filter
  BY DEF RatedStreets, SameOrder
<1>2. {row \in RatedStreets(q) : MatchesFilter(q, row)} = {row \in RatedStreets(c) : MatchesFilter(c, row)}
  BY <1>1 DEF MatchesFilter
<1>3. TableDrawn(q).rows = TableDrawn(c).rows /\ TableDrawn(q).of = TableDrawn(c).of
  BY <1>1, <1>2 DEF TableDrawn
<1>4. QED
  BY <1>3, Zenon DEF CityRows

LEMMA SwitchedHolds ==
    ASSUME NEW c, DOMAIN c = CityNames, NEW l \in CityLanguages,
           CityData(c), CityRows(c), CityPrint(c), CityOpened(c)
    PROVE  CityHolds(Switched(c, l))
<1> DEFINE a == [c EXCEPT !.lang = l]
           t == Translated(a)
           s == Summarized(t)
           d == Tabled(s)
           m == MapsDrawn(s)
           e == [d EXCEPT !.maps = m]
           q == IF c.rows = {} THEN s ELSE e
<1>1. /\ DOMAIN a = CityNames /\ a.lang = l /\ a.catalog = c.catalog /\ a.table = c.table
      /\ a.stage = c.stage /\ a.link = c.link /\ a.url = c.url
      /\ SameStreets(c, a) /\ SameOrder(c, a) /\ SameScreen(c, a)
  BY DEF CityNames, SameStreets, SameOrder, SameScreen
<1> HIDE DEF a
<1>2. /\ DOMAIN t = CityNames /\ t.table = a.table
      /\ t.static = [text |-> RenderTranslation(CityMessage[Words(t)]), words |-> Words(t)]
      /\ t.current = a.lang /\ t.catalog = a.catalog
      /\ SameAnswers(a, t)
  BY <1>1, TranslatedIs
<1> HIDE DEF t
<1>3. /\ DOMAIN s = CityNames /\ s.table = t.table /\ s.static = t.static
      /\ s.summary = HotspotSummary(t) /\ s.bottom = BottomLine(t) /\ s.bias = BiasPanel(t)
      /\ s.download = Download(t)
      /\ SameAnswers(t, s) /\ SameSpeech(t, s)
  BY <1>2, SummarizedIs
<1> HIDE DEF s
<1>4. /\ DOMAIN d = CityNames /\ d.table = TableDrawn(s) /\ d.static = s.static
      /\ SameAnswers(s, d) /\ SameSpeech(s, d) /\ SamePanels(s, d)
  BY <1>3, TabledIs
<1> HIDE DEF d, m
<1>5. /\ DOMAIN e = CityNames /\ e.maps = m /\ e.table = d.table /\ e.static = d.static
      /\ SameAnswers(d, e) /\ SameSpeech(d, e) /\ SamePanels(d, e)
  BY <1>4 DEF CityNames, SameAnswers, SamePlace, SameStreets, SameOrder, SameScreen, SameSpeech, SamePanels
<1> HIDE DEF e
<1>6. /\ s.lang = l /\ s.stage = c.stage /\ s.link = c.link /\ s.url = c.url
      /\ SameStreets(c, s) /\ SameOrder(c, s) /\ SameScreen(c, s)
  BY <1>1, <1>2, <1>3 DEF SameAnswers, SamePlace, SameStreets, SameOrder, SameScreen
<1>7. /\ e.lang = l /\ e.stage = c.stage /\ e.link = c.link /\ e.url = c.url
      /\ SameStreets(c, e) /\ SameOrder(c, e) /\ SameScreen(c, e)
  BY <1>4, <1>5, <1>6 DEF SameAnswers, SamePlace, SameStreets, SameOrder, SameScreen
<1>8. s.current = l /\ s.static = Translation(s, Words(s))
  <2>1. Words(s) = Words(t)
    BY <1>3 DEF SameSpeech, Words
  <2>2. QED
    BY <1>1, <1>2, <1>3, <2>1 DEF SameSpeech, Translation
<1>9. e.current = l /\ e.static = Translation(e, Words(e)) /\ Words(e) = Words(s)
  <2>1. Words(e) = Words(s)
    BY <1>4, <1>5 DEF SameSpeech, Words
  <2>2. QED
    BY <1>4, <1>5, <1>8, <2>1 DEF SameSpeech, Translation
<1>10. q \in {s, e}
  OBVIOUS
<1>11. /\ DOMAIN q = CityNames /\ q.lang = l /\ q.stage = c.stage /\ q.link = c.link /\ q.url = c.url
       /\ SameStreets(c, q) /\ SameOrder(c, q) /\ SameScreen(c, q)
       /\ q.current = l /\ q.static = Translation(q, Words(q))
  BY <1>3, <1>5, <1>6, <1>7, <1>8, <1>9, <1>10
<1>12. c.rows = {} => q.table = c.table
  BY <1>1, <1>2, <1>3
<1>13. ASSUME c.rows # {}
       PROVE  /\ q.maps = MapsDrawn(q) /\ q.summary = HotspotSummary(q) /\ q.bottom = BottomLine(q)
              /\ q.bias = BiasPanel(q) /\ q.download = Download(q) /\ q.table = TableDrawn(q)
  <2>1. q = e /\ e.rows = c.rows /\ t.rows = c.rows /\ s.rows = c.rows
    BY <1>1, <1>2, <1>7, <1>6, <1>13 DEF SameStreets, SameAnswers
  <2>2. SameBasis(t, e) /\ e.sort = t.sort
    BY <1>3, <1>4, <1>5 DEF SameAnswers, SamePlace, SameStreets, SameOrder, SameSpeech, SameBasis
  <2>3. SameBasis(s, e) /\ e.sort = s.sort /\ e.filter = s.filter
    BY <1>4, <1>5 DEF SameAnswers, SamePlace, SameStreets, SameOrder, SameSpeech, SameBasis
  <2>4. MapsDrawn(e) = MapsDrawn(s) /\ TableDrawn(e) = TableDrawn(s)
    BY <2>3, DrawnFrom
  <2>5. /\ BottomLine(e) = IF t.rows = {} THEN e.bottom ELSE BottomLine(t)
        /\ HotspotSummary(e) = IF t.rows = {} THEN e.summary ELSE HotspotSummary(t)
        /\ BiasPanel(e) = BiasPanel(t) /\ Download(e) = Download(t)
    BY <2>2, DrawnFrom
  <2>6. /\ e.summary = s.summary /\ e.bottom = s.bottom /\ e.bias = s.bias /\ e.download = s.download
    BY <1>4, <1>5 DEF SamePanels
  <2>7. e.maps = MapsDrawn(s) /\ e.table = TableDrawn(s)
    BY <1>4, <1>5 DEF m
  <2>8. QED
    BY <1>3, <1>13, <2>1, <2>4, <2>5, <2>6, <2>7
<1>14. Switched(c, l) = q
  BY DEF Switched, q, e, d, m, s, t, a
<1> HIDE DEF q
<1>15. CityWords(q)
  <2>1. Words(q) \in CityLanguages \cup {"keys"}
    BY <1>11, WordsAre
  <2>2. q.static.words = Words(q)
    BY <1>11 DEF Translation
  <2>3. QED
    BY <1>11, <2>1, <2>2 DEF CityWords
<1>16. CityData(q)
  BY <1>11 DEF CityData, SameStreets, SameOrder
<1>17. CityTable(q)
  <2>1. q.rows = c.rows
    BY <1>11 DEF SameStreets
  <2>2. CASE c.rows = {}
    <3>1. CityRows(q)
      BY <1>11, <1>12, <2>1, <2>2, RowsKept
    <3>2. QED
      BY <2>1, <2>2, <3>1, Zenon DEF CityRows, CityTable
  <2>3. CASE c.rows # {}
    <3>1. q.table = TableDrawn(q) /\ TableDrawn(q).words = Words(q)
      BY <1>13, <2>3 DEF TableDrawn
    <3>2. QED
      BY <3>1, Zenon DEF CityTable
  <2>4. QED
    BY <2>2, <2>3
<1>18. CityPanels(q)
  <2> SUFFICES ASSUME q.stage = "shown" PROVE CityPanels(q)
    BY DEF CityPanels
  <2>1. q.reply \in CityReplies /\ q.rows = q.reply.rows /\ q.sort \in CityOrders
    BY <1>16 DEF CityData
  <2>2. q.rows = c.rows
    BY <1>11 DEF SameStreets
  <2>3. QED
    BY <1>13, <2>1, <2>2, PanelsDrawn
<1>19. CityPrint(q)
  BY <1>11 DEF CityPrint, SameScreen, SameOrder
<1>20. CityOpened(q)
  BY <1>11 DEF CityOpened
<1>21. CityHolds(q)
  BY <1>11, <1>15, <1>16, <1>17, <1>18, <1>19, <1>20 DEF CityHolds
<1>22. QED
  BY <1>14, <1>21

LEMMA BootHolds ==
    ASSUME NEW c, DOMAIN c = CityNames, c.lang \in CityLanguages, CityPrint(c), CityOpened(c)
    PROVE  CityHolds(Booted(c))
<1> DEFINE t == Translated(c)
           q == [t EXCEPT !.stage = "data"]
<1>1. /\ DOMAIN t = CityNames /\ t.static = Translation(t, Words(t)) /\ t.current = c.lang
      /\ t.lang = c.lang /\ t.link = c.link /\ t.url = c.url /\ t.filter = c.filter /\ SameScreen(c, t)
  BY TranslatedIs DEF SameAnswers, SamePlace, SameOrder, Translation
<1> HIDE DEF t
<1>2. /\ DOMAIN q = CityNames /\ q.stage = "data" /\ q.static = t.static /\ q.current = t.current
      /\ q.catalog = t.catalog /\ q.lang = t.lang /\ q.link = t.link /\ q.url = t.url /\ q.filter = t.filter
      /\ SameScreen(t, q)
  BY <1>1 DEF CityNames, SameScreen
<1>3. Booted(c) = q
  BY DEF Booted, t
<1> HIDE DEF q
<1>4. q.static = Translation(q, Words(q)) /\ Words(q) \in CityLanguages \cup {"keys"}
      /\ q.static.words = Words(q)
  <2>1. Words(q) = Words(t)
    BY <1>2 DEF Words
  <2>2. q.static = Translation(q, Words(q))
    BY <1>1, <1>2, <2>1 DEF Translation
  <2>3. q.static.words = Words(q)
    BY <2>2 DEF Translation
  <2>4. QED
    BY <1>1, <1>2, <2>2, <2>3, WordsAre
<1>5. CityWords(q)
  BY <1>1, <1>2, <1>4 DEF CityWords
<1>6. CityData(q) /\ CityTable(q) /\ CityPanels(q)
  BY <1>2 DEF CityData, CityTable, CityPanels
<1>7. CityPrint(q)
  BY <1>1, <1>2 DEF CityPrint, SameScreen
<1>8. CityOpened(q)
  BY <1>1, <1>2 DEF CityOpened
<1>9. QED
  BY <1>2, <1>3, <1>5, <1>6, <1>7, <1>8 DEF CityHolds

LEMMA LoadHolds ==
    ASSUME CityHolds(city), NEW reply \in CityReplies, LoadDataset(reply)
    PROVE  CityHolds(city')
<1> DEFINE worst == <<"rate", FALSE, "rate", FALSE>>
           c == [city EXCEPT !.stage = "shown", !.reply = reply, !.sort = Resort(city, "rate", FALSE), !.rows = reply.rows]
           d == Tabled(c)
           m == MapsDrawn(c)
           e == [d EXCEPT !.maps = m]
           q == Summarized(e)
<1>1. /\ DOMAIN c = CityNames /\ c.stage = "shown" /\ c.reply = reply /\ c.sort = worst
      /\ c.rows = reply.rows /\ c.link = city.link /\ c.url = city.url /\ c.lang = city.lang
      /\ c.static = city.static /\ c.filter = city.filter /\ SameSpeech(city, c) /\ SameScreen(city, c)
  BY DEF CityHolds, CityNames, SameSpeech, SameScreen, Resort
<1>2. city.stage = "data" /\ city' = q
  BY DEF LoadDataset
<1> HIDE DEF c
<1>3. /\ DOMAIN d = CityNames /\ d.table = TableDrawn(c) /\ d.static = c.static
      /\ SameAnswers(c, d) /\ SameSpeech(c, d)
  BY <1>1, TabledIs
<1> HIDE DEF d, m
<1>4. /\ DOMAIN e = CityNames /\ e.maps = m /\ e.table = d.table /\ e.static = d.static
      /\ SameAnswers(d, e) /\ SameSpeech(d, e)
  BY <1>3 DEF CityNames, SameAnswers, SamePlace, SameStreets, SameOrder, SameScreen, SameSpeech
<1> HIDE DEF e
<1>5. /\ DOMAIN q = CityNames /\ q.table = e.table /\ q.static = e.static /\ q.maps = e.maps
      /\ q.summary = HotspotSummary(e) /\ q.bottom = BottomLine(e) /\ q.bias = BiasPanel(e)
      /\ q.download = Download(e)
      /\ SameAnswers(e, q) /\ SameSpeech(e, q)
  BY <1>4, SummarizedIs
<1> HIDE DEF q
<1>6. /\ q.stage = "shown" /\ q.reply = reply /\ q.sort = worst /\ q.rows = reply.rows
      /\ q.link = city.link /\ q.url = city.url /\ q.lang = city.lang /\ q.static = city.static
      /\ q.filter = city.filter /\ SameSpeech(city, q) /\ SameScreen(city, q)
  BY <1>1, <1>3, <1>4, <1>5 DEF SameAnswers, SamePlace, SameStreets, SameOrder, SameScreen, SameSpeech
<1>7. SameBasis(c, q) /\ q.sort = c.sort /\ q.filter = c.filter
  BY <1>3, <1>4, <1>5 DEF SameAnswers, SamePlace, SameStreets, SameOrder, SameSpeech, SameBasis
<1>8. SameBasis(e, q) /\ q.sort = e.sort /\ q.rows = e.rows
  BY <1>5 DEF SameAnswers, SamePlace, SameStreets, SameOrder, SameSpeech, SameBasis
<1>9. q.table = TableDrawn(q) /\ q.maps = MapsDrawn(q)
  <2>1. TableDrawn(q) = TableDrawn(c) /\ MapsDrawn(q) = MapsDrawn(c)
    BY <1>7, DrawnFrom
  <2>2. QED
    BY <1>3, <1>4, <1>5, <2>1 DEF m
<1>10. q.rows # {} => /\ q.summary = HotspotSummary(q) /\ q.bottom = BottomLine(q)
                      /\ q.bias = BiasPanel(q) /\ q.download = Download(q)
  <2>1. /\ BottomLine(q) = IF e.rows = {} THEN q.bottom ELSE BottomLine(e)
        /\ HotspotSummary(q) = IF e.rows = {} THEN q.summary ELSE HotspotSummary(e)
        /\ BiasPanel(q) = BiasPanel(e) /\ Download(q) = Download(e)
    BY <1>8, DrawnFrom
  <2>2. QED
    BY <1>5, <1>8, <2>1
<1>11. q.sort \in CityOrders
  <2>1. "rate" \in CitySorts
    BY DEF CitySorts
  <2>2. worst \in CitySorts \X BOOLEAN \X CitySorts \X BOOLEAN
    BY <2>1
  <2>3. QED
    BY <1>6, <2>2 DEF CityOrders
<1>12. CityWords(q)
  <2>1. Words(q) = Words(city) /\ q.current = city.current
    BY <1>6 DEF SameSpeech, Words
  <2>2. QED
    BY <1>2, <1>6, <2>1 DEF CityHolds, CityWords, Translation
<1>13. CityData(q)
  BY <1>6, <1>11 DEF CityData
<1>14. CityTable(q)
  <2>1. TableDrawn(q).words = Words(q)
    BY DEF TableDrawn
  <2>2. QED
    BY <1>9, <2>1, Zenon DEF CityTable
<1>15. CityPanels(q)
  BY <1>6, <1>9, <1>10, <1>11, PanelsDrawn
<1>16. CityPrint(q)
  BY <1>6 DEF CityHolds, CityPrint, SameScreen
<1>17. CityOpened(q)
  BY <1>6 DEF CityHolds, CityOpened
<1>18. QED
  BY <1>2, <1>5, <1>12, <1>13, <1>14, <1>15, <1>16, <1>17 DEF CityHolds

LEMMA FailHolds ==
    ASSUME CityHolds(city), FailDataset
    PROVE  CityHolds(city')
<1> DEFINE f == [failed |-> Words(city)]
           q == [city EXCEPT !.stage = "failed", !.table = f, !.maps = f]
<1>1. city' = q
  BY DEF FailDataset
<1> HIDE DEF f
<1>2. /\ DOMAIN q = CityNames /\ q.stage = "failed" /\ q.static = city.static /\ q.current = city.current
      /\ q.lang = city.lang /\ q.link = city.link /\ q.url = city.url /\ q.filter = city.filter
      /\ SameScreen(city, q)
  BY DEF CityHolds, CityNames, SameScreen
<1> HIDE DEF q
<1>3. CityWords(q)
  BY <1>2 DEF CityHolds, CityWords, Translation
<1>4. CityData(q) /\ CityTable(q) /\ CityPanels(q)
  BY <1>2 DEF CityData, CityTable, CityPanels
<1>5. CityPrint(q)
  BY <1>2 DEF CityHolds, CityPrint, SameScreen
<1>6. CityOpened(q)
  BY <1>2 DEF CityHolds, CityOpened
<1>7. QED
  BY <1>1, <1>2, <1>3, <1>4, <1>5, <1>6 DEF CityHolds

LEMMA BootsHold ==
    ASSUME CityHolds(city), NEW answer, NEW l \in CityLanguages,
           BootEnglish(answer) \/ BootLanguage(l, answer)
    PROVE  CityHolds(city')
<1> DEFINE F(x) == [city EXCEPT !.catalog = [city.catalog EXCEPT ![x] = answer]]
<1>1. ASSUME NEW x
      PROVE  /\ Fetched(city, x, answer) = F(x) /\ DOMAIN F(x) = CityNames /\ F(x).lang = city.lang
             /\ F(x).lang \in CityLanguages /\ CityPrint(F(x)) /\ CityOpened(F(x))
  <2> DEFINE k == [city.catalog EXCEPT ![x] = answer]
             q == [city EXCEPT !.catalog = k]
  <2>1. Fetched(city, x, answer) = q
    BY DEF Fetched
  <2> HIDE DEF k
  <2>2. /\ DOMAIN q = CityNames /\ q.lang = city.lang /\ q.link = city.link /\ q.url = city.url
        /\ q.filter = city.filter /\ SameScreen(city, q)
    BY DEF CityHolds, CityNames, SameScreen
  <2>3. q = F(x)
    BY DEF k
  <2> HIDE DEF q, F
  <2>4. CityPrint(q)
    BY <2>2 DEF CityHolds, CityPrint, SameScreen
  <2>5. CityOpened(q)
    BY <2>2 DEF CityHolds, CityOpened
  <2>6. QED
    BY <2>1, <2>2, <2>3, <2>4, <2>5 DEF CityHolds, CityWords
<1>2. CASE BootLanguage(l, answer)
  BY <1>1, <1>2, BootHolds DEF BootLanguage
<1>3. CASE BootEnglish(answer)
  <2> DEFINE c == F("en")
             q == [c EXCEPT !.stage = c.lang]
  <2>1. /\ city' = IF c.catalog[c.lang] # "none" THEN Booted(c) ELSE q
    BY <1>1, <1>3 DEF BootEnglish
  <2>2. /\ DOMAIN c = CityNames /\ c.lang = city.lang /\ c.lang \in CityLanguages
        /\ CityPrint(c) /\ CityOpened(c)
    BY <1>1
  <2>3. c.static = city.static /\ c.current = city.current
    BY DEF CityHolds, CityNames
  <2> HIDE DEF c, F
  <2>4. CityHolds(Booted(c))
    BY <2>2, BootHolds
  <2>5. CityHolds(q)
    <3>1. /\ DOMAIN q = CityNames /\ q.stage = c.lang /\ q.static = c.static /\ q.current = c.current
          /\ q.lang = c.lang /\ q.link = c.link /\ q.url = c.url /\ q.filter = c.filter
          /\ SameScreen(c, q)
      BY <2>2 DEF CityNames, SameScreen
    <3> HIDE DEF q
    <3>2. q.stage \in {"en", "es"}
      BY <2>2, <3>1 DEF CityLanguages
    <3>3. CityWords(q)
      BY <2>2, <2>3, <3>1, <3>2 DEF CityHolds, CityWords, Translation
    <3>4. CityData(q) /\ CityTable(q) /\ CityPanels(q)
      BY <3>2 DEF CityData, CityTable, CityPanels
    <3>5. CityPrint(q)
      BY <2>2, <3>1 DEF CityPrint, SameScreen
    <3>6. CityOpened(q)
      BY <2>2, <3>1 DEF CityOpened
    <3>7. QED
      BY <3>1, <3>3, <3>4, <3>5, <3>6 DEF CityHolds
  <2>6. QED
    BY <2>1, <2>4, <2>5
<1>4. QED
  BY <1>2, <1>3

\* A catalog arrives, or one that is there is chosen.
LEMMA LanguageHolds ==
    ASSUME CityHolds(city), NEW l \in CityLanguages, NEW answer, LanguageArrives(l, answer)
    PROVE  CityHolds(city')
<1> DEFINE u == [city.asked EXCEPT ![l] = @ - 1]
           a == [city EXCEPT !.asked = u]
           k == [a.catalog EXCEPT ![l] = answer]
           c == [a EXCEPT !.catalog = k]
<1>1. city' = Switched(c, l)
  BY DEF LanguageArrives, Fetched
<1> HIDE DEF u, k
<1>2. /\ DOMAIN a = CityNames /\ a.table = city.table
      /\ SameAnswers(city, a)
  BY DEF CityHolds, CityNames, SameAnswers, SamePlace, SameStreets, SameOrder, SameScreen
<1> HIDE DEF a
<1>3. /\ DOMAIN c = CityNames /\ c.table = a.table
      /\ SameAnswers(a, c)
  BY <1>2 DEF CityNames, SameAnswers, SamePlace, SameStreets, SameOrder, SameScreen
<1> HIDE DEF c
<1>4. /\ c.stage = city.stage /\ c.table = city.table /\ c.rows = city.rows /\ c.reply = city.reply
      /\ c.link = city.link /\ c.url = city.url /\ SameOrder(city, c) /\ SameScreen(city, c)
  BY <1>2, <1>3 DEF SameAnswers, SamePlace, SameStreets, SameOrder, SameScreen
<1>5. CityData(c) /\ CityPrint(c) /\ CityOpened(c)
  BY <1>4 DEF CityHolds, CityData, CityPrint, CityOpened, SameOrder, SameScreen
<1>6. CityRows(c)
  <2>1. CityRows(city)
    BY Zenon DEF CityHolds, CityTable, CityRows
  <2>2. QED
    BY <1>4, <2>1, RowsKept
<1>7. QED
  BY <1>1, <1>3, <1>5, <1>6, SwitchedHolds

LEMMA ReaderEventHolds ==
    ASSUME NEW c, CityHolds(c), CityEvent(c)
    PROVE  CityHolds(city')
<1> DEFINE n == c.events + 1
           q == [c EXCEPT !.events = n]
<1>1. city' = q
  BY DEF CityEvent
<1> HIDE DEF n
<1>2. /\ DOMAIN q = CityNames /\ q.static = c.static /\ q.maps = c.maps /\ q.table = c.table
      /\ SameAnswers(c, q) /\ SameSpeech(c, q) /\ SamePanels(c, q)
  BY DEF CityHolds, CityNames, SameAnswers, SamePlace, SameStreets, SameOrder, SameScreen, SameSpeech, SamePanels
<1> HIDE DEF q
<1>3. SamePlace(c, q) /\ SameStreets(c, q) /\ SameOrder(c, q) /\ SameScreen(c, q)
  BY <1>2 DEF SameAnswers
<1>4. CityPrint(q)
  BY <1>3 DEF CityHolds, CityPrint, SameOrder, SameScreen
<1>5. QED
  BY <1>1, <1>2, <1>3, <1>4, QuietCity

\* The table is drawn again.
LEMMA TabledHolds ==
    ASSUME NEW c, CityHolds(c), NEW q, DOMAIN q = CityNames,
           SamePlace(c, q), SameSpeech(c, q), SameStreets(c, q), SamePanels(c, q),
           q.static = c.static, q.maps = c.maps, q.sort = c.sort \/ q.sort \in CityOrders, CityPrint(q)
    PROVE  CityHolds(Tabled(q))
<1> DEFINE t == Tabled(q)
<1>1. /\ DOMAIN t = CityNames /\ t.table = TableDrawn(q) /\ t.static = q.static /\ t.maps = q.maps
      /\ SameAnswers(q, t) /\ SameSpeech(q, t) /\ SamePanels(q, t)
  BY TabledIs
<1> HIDE DEF t
<1>2. SameBasis(q, t) /\ t.sort = q.sort /\ t.filter = q.filter
  BY <1>1 DEF SameAnswers, SamePlace, SameStreets, SameOrder, SameSpeech, SameBasis
<1>3. TableDrawn(t) = TableDrawn(q)
  BY <1>2, DrawnFrom
<1>4. CityPrint(t)
  BY <1>1 DEF CityPrint, SameAnswers, SameOrder, SameScreen
<1>5. SamePlace(c, t) /\ SameSpeech(c, t) /\ SameStreets(c, t) /\ SamePanels(c, t)
  BY <1>1 DEF SameAnswers, SamePlace, SameSpeech, SameStreets, SamePanels
<1>6. t.table = TableDrawn(t) /\ t.static = c.static /\ t.maps = c.maps /\ (t.sort = c.sort \/ t.sort \in CityOrders)
  BY <1>1, <1>2, <1>3
<1>7. CityHolds(t)
  BY <1>1, <1>4, <1>5, <1>6, QuietCity
<1>8. QED
  BY <1>7 DEF t

LEMMA ReaderHolds ==
    ASSUME CityHolds(city), \/ \E key \in CitySorts : SortBy(key)
                            \/ \E text \in {"", "elm"} : FilterBy(text)
                            \/ \E view \in {"both", "reports", "rate"} : ToggleMaps(view)
                            \/ \E l \in CityLanguages : AskLanguage(l)
    PROVE  CityHolds(city')
<1>1. ASSUME NEW c, CityEvent(c) PROVE city.began = {} /\ city.saved = {} /\ city.view = city.pressed
  BY <1>1 DEF CityEvent, CityHolds, CityPrint
<1>2. ASSUME NEW key \in CitySorts, SortBy(key) PROVE CityHolds(city')
  <2> DEFINE asc  == city.sort = <<>> \/ SubSeq(city.sort, 1, 2) # <<key, TRUE>>
             sort == Resort(city, key, asc)
             q    == [city EXCEPT !.sort = sort]
  <2>1. CityEvent(Tabled(q))
    BY <1>2 DEF SortBy
  <2>2. sort \in CityOrders
    <3>1. asc \in BOOLEAN
      BY Zenon
    <3> HIDE DEF asc
    <3>2. CASE city.stage = "shown"
      <4>1. city.sort[3] \in CitySorts /\ city.sort[4] \in BOOLEAN
        BY <3>2 DEF CityHolds, CityData, CityOrders
      <4>2. QED
        BY <3>1, <4>1 DEF CityOrders, Resort
    <3>3. CASE city.stage # "shown"
      BY <3>1, <3>3 DEF CityOrders, Resort
    <3>4. QED
      BY <3>2, <3>3
  <2> HIDE DEF sort
  <2>3. /\ DOMAIN q = CityNames /\ q.static = city.static /\ q.maps = city.maps /\ q.sort = sort
        /\ q.filter = city.filter /\ SameScreen(city, q)
        /\ SamePlace(city, q) /\ SameSpeech(city, q) /\ SameStreets(city, q) /\ SamePanels(city, q)
    BY DEF CityHolds, CityNames, SamePlace, SameStreets, SameScreen, SameSpeech, SamePanels
  <2> HIDE DEF q
  <2>4. CityPrint(q)
    BY <2>3 DEF CityHolds, CityPrint, SameScreen
  <2>5. CityHolds(Tabled(q))
    BY <2>2, <2>3, <2>4, TabledHolds
  <2>6. QED
    BY <2>1, <2>5, ReaderEventHolds
<1>3. ASSUME NEW text, FilterBy(text) PROVE CityHolds(city')
  <2> DEFINE q == [city EXCEPT !.filter = text, !.input = text]
  <2>1. CityEvent(Tabled(q))
    BY <1>3 DEF FilterBy
  <2>2. /\ DOMAIN q = CityNames /\ q.static = city.static /\ q.maps = city.maps /\ q.sort = city.sort
        /\ q.filter = text /\ q.input = text /\ q.view = city.view /\ q.pressed = city.pressed
        /\ q.saved = city.saved
        /\ SamePlace(city, q) /\ SameSpeech(city, q) /\ SameStreets(city, q) /\ SamePanels(city, q)
    BY DEF CityHolds, CityNames, SamePlace, SameStreets, SameSpeech, SamePanels
  <2> HIDE DEF q
  <2>3. CityPrint(q)
    BY <1>1, <2>1, <2>2 DEF CityHolds, CityPrint
  <2>4. CityHolds(Tabled(q))
    BY <2>2, <2>3, TabledHolds
  <2>5. QED
    BY <2>1, <2>4, ReaderEventHolds
<1>4. ASSUME NEW view, ToggleMaps(view) PROVE CityHolds(city')
  <2> DEFINE q == [city EXCEPT !.view = view, !.pressed = view]
  <2>1. CityEvent(q)
    BY <1>4 DEF ToggleMaps
  <2>2. /\ DOMAIN q = CityNames /\ q.static = city.static /\ q.maps = city.maps /\ q.table = city.table
        /\ q.input = city.input /\ q.view = view /\ q.pressed = view /\ q.saved = city.saved
        /\ SamePlace(city, q) /\ SameSpeech(city, q) /\ SameStreets(city, q) /\ SamePanels(city, q)
        /\ SameOrder(city, q)
    BY DEF CityHolds, CityNames, SamePlace, SameStreets, SameSpeech, SamePanels, SameOrder
  <2> HIDE DEF q
  <2>3. CityPrint(q)
    BY <1>1, <2>1, <2>2 DEF CityHolds, CityPrint, SameOrder
  <2>4. CityHolds(q)
    BY <2>2, <2>3, QuietCity
  <2>5. QED
    BY <2>1, <2>4, ReaderEventHolds
<1>5. ASSUME NEW l \in CityLanguages, AskLanguage(l) PROVE CityHolds(city')
  <2> DEFINE u == [city.asked EXCEPT ![l] = @ + 1]
             q == [city EXCEPT !.asked = u]
  <2>1. CityEvent(IF city.catalog[l] = "none" THEN q ELSE Switched(city, l))
    BY <1>5 DEF AskLanguage
  <2> HIDE DEF u
  <2>2. /\ DOMAIN q = CityNames /\ q.static = city.static /\ q.maps = city.maps /\ q.table = city.table
        /\ SamePlace(city, q) /\ SameSpeech(city, q) /\ SameStreets(city, q) /\ SamePanels(city, q)
        /\ SameOrder(city, q) /\ SameScreen(city, q)
    BY DEF CityHolds, CityNames, SamePlace, SameStreets, SameSpeech, SamePanels, SameOrder, SameScreen
  <2> HIDE DEF q
  <2>3. CityPrint(q)
    BY <2>2 DEF CityHolds, CityPrint, SameOrder, SameScreen
  <2>4. CityHolds(q)
    BY <2>2, <2>3, QuietCity
  <2>5. CityHolds(Switched(city, l))
    <3>1. CityRows(city)
      BY Zenon DEF CityHolds, CityTable, CityRows
    <3>2. QED
      BY <3>1, SwitchedHolds DEF CityHolds
  <2>6. CityHolds(IF city.catalog[l] = "none" THEN q ELSE Switched(city, l))
    BY <2>4, <2>5
  <2>7. QED
    BY <2>1, <2>6, ReaderEventHolds
<1>6. QED
  BY <1>2, <1>3, <1>4, <1>5

\* What a print changes.
SameUnprinted(c, q) == /\ q.static = c.static /\ q.maps = c.maps /\ q.sort = c.sort /\ SamePlace(c, q)
                       /\ SameSpeech(c, q) /\ SameStreets(c, q) /\ SamePanels(c, q)

LEMMA BeginHolds ==
    ASSUME CityHolds(city), NEW signal, BeginPrint(signal)
    PROVE  CityHolds(city')
<1> DEFINE b     == city.began \cup {signal}
           begun == [city EXCEPT !.began = b]
           kept  == {[view |-> city.view, filter |-> city.filter]}
           c     == [begun EXCEPT !.saved = kept, !.view = "both", !.filter = "", !.input = ""]
<1>1. city' = IF city.saved # {} THEN begun ELSE IF city.filter = "" THEN c ELSE Tabled(c)
  BY DEF BeginPrint
<1>2. b # {} /\ kept # {} /\ \A s \in kept : s.view = city.view
  OBVIOUS
<1> HIDE DEF b, kept
<1>3. /\ DOMAIN begun = CityNames /\ SameUnprinted(city, begun) /\ SameOrder(city, begun)
      /\ begun.table = city.table /\ begun.input = city.input /\ begun.view = city.view
      /\ begun.pressed = city.pressed /\ begun.saved = city.saved /\ begun.began = b
  BY DEF CityHolds, CityNames, SameUnprinted, SamePlace, SameStreets, SameSpeech, SamePanels, SameOrder
<1> HIDE DEF begun
<1>4. /\ DOMAIN c = CityNames /\ SameUnprinted(begun, c) /\ c.table = begun.table /\ c.input = ""
      /\ c.view = "both" /\ c.pressed = begun.pressed /\ c.saved = kept /\ c.began = b /\ c.filter = ""
  BY <1>3 DEF CityNames, SameUnprinted, SamePlace, SameStreets, SameSpeech, SamePanels
<1> HIDE DEF c
<1>5. SameUnprinted(city, c)
  BY <1>3, <1>4 DEF SameUnprinted, SamePlace, SameStreets, SameSpeech, SamePanels
<1>6. CASE city.saved # {}
  <2>1. CityPrint(begun)
    BY <1>2, <1>3, <1>6 DEF CityHolds, CityPrint, SameOrder
  <2>2. CityHolds(begun)
    BY <1>3, <2>1, QuietCity DEF SameUnprinted
  <2>3. QED
    BY <1>1, <1>6, <2>2
<1>7. CASE city.saved = {}
  <2>1. CityPrint(c)
    BY <1>2, <1>3, <1>4, <1>7 DEF CityHolds, CityPrint
  <2>2. CASE city.filter = ""
    <3>1. SameOrder(city, c) /\ c.table = city.table
      BY <1>3, <1>4, <1>5, <2>2 DEF SameOrder, SameUnprinted
    <3>2. CityHolds(c)
      BY <1>4, <1>5, <2>1, <3>1, QuietCity DEF SameUnprinted
    <3>3. QED
      BY <1>1, <1>7, <2>2, <3>2
  <2>3. CASE city.filter # ""
    <3>1. CityHolds(Tabled(c))
      BY <1>4, <1>5, <2>1, TabledHolds DEF SameUnprinted
    <3>2. QED
      BY <1>1, <1>7, <2>3, <3>1
  <2>4. QED
    BY <2>2, <2>3
<1>8. QED
  BY <1>6, <1>7

LEMMA EndHolds ==
    ASSUME CityHolds(city), NEW signal, EndPrint(signal)
    PROVE  CityHolds(city')
<1> DEFINE over  == city.began = city.ended \cup {signal}
           b     == IF over THEN {} ELSE city.began
           f     == IF over THEN {} ELSE city.ended \cup {signal}
           e     == [city EXCEPT !.began = b, !.ended = f, !.saved = {}]
           saved == CHOOSE s \in city.saved : TRUE
           c     == [e EXCEPT !.view = saved.view]
           d     == [c EXCEPT !.filter = saved.filter, !.input = saved.filter]
<1>1. city' = IF city.saved = {} THEN e ELSE IF saved.filter = "" THEN c ELSE Tabled(d)
  BY DEF EndPrint
<1>2. city.saved # {} => saved.view = city.pressed
  BY DEF CityHolds, CityPrint
<1> HIDE DEF over, b, f, saved
<1>3. /\ DOMAIN e = CityNames /\ SameUnprinted(city, e) /\ SameOrder(city, e)
      /\ e.table = city.table /\ e.input = city.input /\ e.view = city.view
      /\ e.pressed = city.pressed /\ e.saved = {}
  BY DEF CityHolds, CityNames, SameUnprinted, SamePlace, SameStreets, SameSpeech, SamePanels, SameOrder
<1> HIDE DEF e
<1>4. /\ DOMAIN c = CityNames /\ SameUnprinted(e, c) /\ SameOrder(e, c)
      /\ c.table = e.table /\ c.input = e.input /\ c.view = saved.view
      /\ c.pressed = e.pressed /\ c.saved = e.saved
  BY <1>3 DEF CityNames, SameUnprinted, SamePlace, SameStreets, SameSpeech, SamePanels, SameOrder
<1> HIDE DEF c
<1>5. /\ DOMAIN d = CityNames /\ SameUnprinted(c, d) /\ d.filter = saved.filter
      /\ d.input = saved.filter /\ d.view = c.view /\ d.pressed = c.pressed /\ d.saved = c.saved
  BY <1>4 DEF CityNames, SameUnprinted, SamePlace, SameStreets, SameSpeech, SamePanels
<1> HIDE DEF d
<1>6. SameUnprinted(city, c) /\ SameOrder(city, c)
  BY <1>3, <1>4 DEF SameUnprinted, SamePlace, SameStreets, SameSpeech, SamePanels, SameOrder
<1>7. SameUnprinted(city, d)
  BY <1>5, <1>6 DEF SameUnprinted, SamePlace, SameStreets, SameSpeech, SamePanels
<1>8. CASE city.saved = {}
  <2>1. CityPrint(e)
    BY <1>3, <1>8 DEF CityHolds, CityPrint, SameOrder
  <2>2. CityHolds(e)
    BY <1>3, <2>1, QuietCity DEF SameUnprinted
  <2>3. QED
    BY <1>1, <1>8, <2>2
<1>9. CASE city.saved # {} /\ saved.filter = ""
  <2>1. CityPrint(c)
    BY <1>2, <1>3, <1>4, <1>6, <1>9 DEF CityHolds, CityPrint, SameOrder
  <2>2. CityHolds(c)
    BY <1>3, <1>4, <1>6, <2>1, QuietCity DEF SameUnprinted
  <2>3. QED
    BY <1>1, <1>9, <2>2
<1>10. CASE city.saved # {} /\ saved.filter # ""
  <2>1. CityPrint(d)
    BY <1>2, <1>3, <1>4, <1>5, <1>10 DEF CityPrint
  <2>2. CityHolds(Tabled(d))
    BY <1>5, <1>7, <2>1, TabledHolds DEF SameUnprinted
  <2>3. QED
    BY <1>1, <1>10, <2>2
<1>11. QED
  BY <1>8, <1>9, <1>10

LEMMA CityStep == CityHolds(city) /\ CityNext => CityHolds(city')
<1> SUFFICES ASSUME CityHolds(city), CityNext PROVE CityHolds(city')
  OBVIOUS
<1>1. \/ \E answer \in {"full", "empty"} :
           \/ BootEnglish(answer)
           \/ \E l \in CityLanguages : BootLanguage(l, answer) \/ LanguageArrives(l, answer)
      \/ \E reply \in CityReplies : LoadDataset(reply)
      \/ FailDataset
      \/ \/ \E key \in CitySorts : SortBy(key)
         \/ \E text \in {"", "elm"} : FilterBy(text)
         \/ \E view \in {"both", "reports", "rate"} : ToggleMaps(view)
         \/ \E l \in CityLanguages : AskLanguage(l)
      \/ \E signal \in PrintSignals : BeginPrint(signal) \/ EndPrint(signal)
  BY DEF CityNext
<1>2. ASSUME NEW answer, BootEnglish(answer) PROVE CityHolds(city')
  <2>1. "en" \in CityLanguages
    BY DEF CityLanguages
  <2>2. QED
    BY <1>2, <2>1, BootsHold
<1>3. ASSUME NEW answer, NEW l \in CityLanguages, BootLanguage(l, answer) PROVE CityHolds(city')
  BY <1>3, BootsHold
<1>4. ASSUME NEW answer, NEW l \in CityLanguages, LanguageArrives(l, answer) PROVE CityHolds(city')
  BY <1>4, LanguageHolds
<1>5. ASSUME NEW reply \in CityReplies, LoadDataset(reply) PROVE CityHolds(city')
  BY <1>5, LoadHolds
<1>6. FailDataset => CityHolds(city')
  BY FailHolds
<1>7. ASSUME NEW signal, BeginPrint(signal) \/ EndPrint(signal) PROVE CityHolds(city')
  BY <1>7, BeginHolds, EndHolds
<1>8. (\/ \E key \in CitySorts : SortBy(key)
       \/ \E text \in {"", "elm"} : FilterBy(text)
       \/ \E view \in {"both", "reports", "rate"} : ToggleMaps(view)
       \/ \E l \in CityLanguages : AskLanguage(l)) => CityHolds(city')
  BY ReaderHolds
<1>9. QED
  BY <1>1, <1>2, <1>3, <1>4, <1>5, <1>6, <1>7, <1>8

LEMMA CityTells ==
    ASSUME CityHolds(city)
    PROVE  CityPageTruthful
<1> DEFINE rated == {row \in city.reply.rows : row.rate # Rateless}
           hot   == {row \in rated : row.hot}
<1>1. city.stage = "shown" => city.reply \in CityReplies /\ city.rows = city.reply.rows /\ city.sort \in CityOrders
  BY DEF CityHolds, CityData
<1>2. city.stage = "shown" => rated = RatedStreets(city) /\ hot = HotRows(city)
  BY <1>1 DEF RatedStreets, HotRows, HasRate
<1>3. ASSUME city.stage = "shown"
      PROVE  LET kept == {row \in RatedStreets(city) : MatchesFilter(city, row)}
             IN  /\ city.table.rows = Sorted(kept, city.sort) /\ city.table.of = Cardinality(RatedStreets(city))
                 /\ StreetSet(kept)
  <2>1. city.table.rows = TableDrawn(city).rows /\ city.table.of = TableDrawn(city).of
    BY <1>3 DEF CityHolds, CityTable
  <2>2. TableDrawn(city).rows = Sorted({row \in RatedStreets(city) : MatchesFilter(city, row)}, city.sort)
    BY DEF TableDrawn
  <2>3. TableDrawn(city).of = Cardinality(RatedStreets(city))
    BY DEF TableDrawn
  <2>4. StreetSet({row \in RatedStreets(city) : MatchesFilter(city, row)})
    BY <1>1, <1>3, StreetsOf
  <2>5. QED
    BY <2>1, <2>2, <2>3, <2>4
<1> HIDE DEF rated, hot
<1>4. TableIsAuthoritative
  <2> SUFFICES ASSUME city.stage = "shown"
               PROVE  LET shown == city.table.rows
                          key   == city.sort[1]
                      IN /\ ToSet(shown) = {row \in rated : city.input = "" \/ city.input \in row.parts}
                         /\ IsInjective(shown) /\ city.table.of = Cardinality(rated)
                         /\ \A i, j \in DOMAIN shown :
                              i < j => IF city.sort[2] THEN shown[i][key] <= shown[j][key]
                                       ELSE shown[i][key] >= shown[j][key]
    BY DEF TableIsAuthoritative, rated
  <2> DEFINE kept  == {row \in RatedStreets(city) : MatchesFilter(city, row)}
             shown == Sorted(kept, city.sort)
             n     == Cardinality(kept)
  <2>1. city.table.rows = shown /\ city.table.of = Cardinality(RatedStreets(city)) /\ StreetSet(kept)
    BY <1>3
  <2>2. kept = {row \in rated : city.input = "" \/ city.input \in row.parts}
    BY <1>2 DEF CityHolds, CityPrint, MatchesFilter
  <2> HIDE DEF kept
  <2>3. /\ Enumerates(shown, kept)
        /\ \A i, j \in 1 .. n : i < j => IF city.sort[2] THEN shown[i][city.sort[1]] <= shown[j][city.sort[1]]
                                         ELSE shown[i][city.sort[1]] >= shown[j][city.sort[1]]
    BY <1>1, <2>1, SortedIs
  <2> HIDE DEF shown
  <2>4. ToSet(shown) = kept /\ IsInjective(shown) /\ DOMAIN shown = 1 .. n
    BY <2>3, ListIs
  <2>5. city.table.of = Cardinality(rated)
    BY <1>2, <2>1
  <2>6. QED
    BY <2>1, <2>2, <2>3, <2>4, <2>5
<1>5. HotspotsAgree
  <2> SUFFICES ASSUME city.stage = "shown", city.rows # {}
               PROVE  LET card == ShareCard(city)
                      IN /\ city.maps.hot = {row.id : row \in hot}
                         /\ {ToSet(city.summary.links), ToSet(EmbedHotspots(city))} = {hot}
                         /\ Len(city.summary.links) = Cardinality(hot)
                         /\ {city.bottom.hot, card.hot} = {Cardinality(hot)} /\ city.bottom.of = Cardinality(rated)
                         /\ Worst(city.bottom.top, rated) /\ Worst(card.top, IF hot = {} THEN rated ELSE hot)
                         /\ rated # {} => \E row \in rated : row.id = city.maps.busiest /\ \A r \in rated : r.n <= row.n
    BY DEF HotspotsAgree, rated, hot
  <2>1. /\ city.maps.hot = {row.id : row \in HotRows(city)}
        /\ RatedStreets(city) # {} =>
             \E row \in RatedStreets(city) :
               row.id = city.maps.busiest /\ \A r \in RatedStreets(city) : r.n <= row.n
        /\ Enumerates(city.summary.links, HotRows(city))
        /\ Worst(city.bottom.top, RatedStreets(city))
        /\ city.bottom.hot = Cardinality(HotRows(city)) /\ city.bottom.of = Cardinality(RatedStreets(city))
    BY DEF CityHolds, CityPanels
  <2>2. /\ StreetSet(RatedStreets(city)) /\ StreetSet(HotRows(city)) /\ {row \in city.rows : row.hot} = HotRows(city)
    BY <1>1, StreetsOf
  <2>3. rated = RatedStreets(city) /\ hot = HotRows(city)
    BY <1>2
  <2>4. ToSet(city.summary.links) = hot /\ Len(city.summary.links) = Cardinality(hot)
    BY <2>1, <2>3, ListIs
  <2>5. ToSet(EmbedHotspots(city)) = hot
    <3>1. EmbedHotspots(city) = ByRate(HotRows(city), city.sort)
      BY <2>2 DEF EmbedHotspots
    <3>2. Enumerates(ByRate(HotRows(city), city.sort), HotRows(city))
      BY <1>1, <2>2, ByRateIs
    <3>3. QED
      BY <2>3, <3>1, <3>2, ListIs
  <2> DEFINE of   == IF hot = {} THEN rated ELSE hot
             card == ShareCard(city)
  <2>6. card.hot = Cardinality(hot) /\ card.top = Top(ByRate(of, city.sort), 3)
    BY <2>3 DEF ShareCard
  <2>7. StreetSet(of)
    BY <2>2, <2>3
  <2> HIDE DEF of, card
  <2>8. Worst(card.top, of)
    BY <1>1, <2>6, <2>7, TopIs
  <2>9. {ToSet(city.summary.links), ToSet(EmbedHotspots(city))} = {hot}
    BY <2>4, <2>5
  <2>10. {city.bottom.hot, card.hot} = {Cardinality(hot)} /\ city.bottom.of = Cardinality(rated)
    BY <2>1, <2>3, <2>6
  <2>11. /\ city.maps.hot = {row.id : row \in hot} /\ Worst(city.bottom.top, rated)
         /\ rated # {} => \E row \in rated : row.id = city.maps.busiest /\ \A r \in rated : r.n <= row.n
    BY <2>1, <2>3
  <2>12. QED
    BY <2>4, <2>8, <2>9, <2>10, <2>11 DEF of, card
<1>6. OneLanguage
  <2> SUFFICES ASSUME city.stage = "shown", city.rows # {}
               PROVE  /\ LET panels == <<city.static, city.table, city.maps, city.summary, city.bottom, city.download>>
                         IN \A i \in DOMAIN panels : panels[i].words = Words(city)
                      /\ "hidden" \in DOMAIN city.bias \/ city.bias.words = Words(city)
                      /\ city.current = city.lang
    BY DEF OneLanguage
  <2>1. city.static.words = Words(city) /\ city.current = city.lang
    BY DEF CityHolds, CityWords
  <2>2. city.table.words = Words(city)
    BY DEF CityHolds, CityTable
  <2>3. /\ city.maps.words = Words(city) /\ city.summary.words = Words(city)
        /\ city.bottom.words = Words(city) /\ city.download.words = Words(city)
        /\ "hidden" \in DOMAIN city.bias \/ city.bias.words = Words(city)
    BY DEF CityHolds, CityPanels
  <2>4. QED
    BY <2>1, <2>2, <2>3
<1>7. PrintIsComplete
  <2>1. /\ city.filter = city.input /\ (city.saved = {} => city.view = city.pressed)
        /\ city.saved # {} => city.view = "both" /\ city.filter = "" /\ city.began # {}
    BY DEF CityHolds, CityPrint
  <2>2. ASSUME city.saved # {}, city.stage = "shown" PROVE Len(city.table.rows) = city.table.of
    <3> DEFINE kept == {row \in RatedStreets(city) : MatchesFilter(city, row)}
    <3>1. kept = RatedStreets(city)
      BY <2>1, <2>2 DEF MatchesFilter
    <3>2. city.table.rows = Sorted(kept, city.sort) /\ city.table.of = Cardinality(RatedStreets(city)) /\ StreetSet(kept)
      BY <1>3, <2>2
    <3> HIDE DEF kept
    <3>3. Enumerates(Sorted(kept, city.sort), kept)
      BY <1>1, <2>2, <3>2, SortedIs
    <3>4. QED
      BY <3>1, <3>2, <3>3, ListIs
  <2>3. QED
    BY <2>1, <2>2 DEF PrintIsComplete
<1>8. CityFailsClosed
  <2>1. ASSUME city.static # Undrawn, "marked" \in DOMAIN city.static.text
        PROVE  \A i \in DOMAIN city.static.text.marked :
                 KindsUpTo(city.static.text.marked, i, {"close"})
                   <= KindsUpTo(city.static.text.marked, i, {"open", "link"})
    <3>1. PICK w \in CityLanguages \cup {"keys"} : city.static = Translation(city, w)
      BY <2>1 DEF CityHolds, CityWords
    <3>2. city.static.text = RenderTranslation(CityMessage[w]) /\ CityMessage[w] \in Pieces
      BY <3>1, CityPageAssumption DEF Translation, CityPageAssumption
    <3>3. "marked" \in DOMAIN RenderTranslation(CityMessage[w])
      BY <2>1, <3>2
    <3>4. QED
      BY <3>2, <3>3, MarksNest
  <2>2. ASSUME city.url = "riverside" PROVE ToSet(city.link.data \o city.link.city) = {"riverside"}
    <3> DEFINE given == city.link.data \o city.link.city
    <3>1. city.link.data \in Seq(STRING) /\ city.link.city \in Seq(STRING) /\ city.url = DatasetUrl(city.link)
      BY CityPageAssumption DEF CityHolds, CityOpened, CityPageAssumption
    <3>2. given \in Seq(STRING)
      BY <3>1, ConcatProperties
    <3>3. DatasetSlug(city.link) = "riverside"
      BY <2>2, <3>1 DEF DatasetUrl
    <3>4. DatasetSlug(city.link) = IF Len(given) = 1 /\ ~city.link.encoded /\ given[1] # "invalid"
                                   THEN given[1] ELSE "davis"
      BY DEF DatasetSlug
    <3> HIDE DEF given
    <3>5. Len(given) = 1 /\ given[1] = "riverside"
      BY <3>3, <3>4
    <3>6. DOMAIN given = {1}
      BY <3>2, <3>5
    <3>7. ToSet(given) = {"riverside"}
      BY <3>5, <3>6 DEF ToSet
    <3>8. QED
      BY <3>7 DEF given
  <2>3. QED
    BY <2>1, <2>2 DEF CityFailsClosed, KindsUpTo
<1>9. QED
  BY <1>4, <1>5, <1>6, <1>7, <1>8 DEF CityPageTruthful

LEMMA CityStarts == CityInit => CityHolds(city)
<1> SUFFICES ASSUME CityInit PROVE CityHolds(city)
  OBVIOUS
<1> DEFINE none == [l \in CityLanguages |-> "none"]
           zero == [l \in CityLanguages |-> 0]
<1>1. PICK link \in CityLinks :
    city = [stage |-> "en", url |-> DatasetUrl(link), link |-> link, lang |-> link.lang,
            current |-> "en", asked |-> zero,
            catalog |-> none, reply |-> NoReply, rows |-> {},
            filter |-> "", input |-> "", sort |-> <<>>, view |-> "both", pressed |-> "both",
            saved |-> {}, began |-> {}, ended |-> {},
            static |-> Undrawn, table |-> Undrawn, maps |-> Undrawn, summary |-> Undrawn,
            bottom |-> Undrawn, bias |-> Undrawn, download |-> Undrawn, events |-> 0]
  BY DEF CityInit
<1> HIDE DEF none, zero
<1>2. link.lang \in CityLanguages
  BY CityPageAssumption DEF CityPageAssumption
<1>3. DOMAIN city = CityNames
  BY <1>1 DEF CityNames
<1>4. /\ city.stage = "en" /\ city.static = Undrawn /\ city.current = "en" /\ city.lang = link.lang
      /\ city.filter = city.input /\ city.saved = {} /\ city.view = city.pressed
      /\ city.link = link /\ city.url = DatasetUrl(link)
  BY <1>1
<1>5. CityWords(city)
  BY <1>2, <1>4 DEF CityWords, CityLanguages
<1>6. CityData(city) /\ CityTable(city) /\ CityPanels(city)
  BY <1>4 DEF CityData, CityTable, CityPanels
<1>7. CityPrint(city) /\ CityOpened(city)
  BY <1>4 DEF CityPrint, CityOpened
<1>8. QED
  BY <1>3, <1>5, <1>6, <1>7 DEF CityHolds

PageInv == part = "page" => PageHolds(page)
CityInv == part = "city" => CityHolds(city)

\* Whatever order the artifacts and the clicks come in, the national page shows what is selected and
\* says that it is loading only while something is on its way; the panels of the city page agree, in
\* one language, on the screen and in print (web/us-coverage.js, web/app.js).
THEOREM SelectionStays == Spec => []PageShowsSelection
<1>1. Init => PageInv /\ CityInv
  BY PageStarts, CityStarts DEF Init, PageInv, CityInv
<1>2. PageInv /\ [Next]_algorithmVars => PageInv'
  <2> SUFFICES ASSUME PageInv, [Next]_algorithmVars, part' = "page" PROVE PageHolds(page')
    BY DEF PageInv
  <2>1. part = "page" /\ PageHolds(page)
    BY DEF PageInv, Next, JoinFiles, BuildDocuments, BuildContext, RunReports, FindClusters,
       AuditDataset, AssessCity, Compute, algorithmVars, taskVars
  <2>2. PageNext \/ UNCHANGED page
    BY <2>1 DEF Next, JoinFiles, BuildDocuments, BuildContext, RunReports, FindClusters,
       AuditDataset, AssessCity, Compute, algorithmVars, taskVars, deskVars, pageVars
  <2>3. QED
    BY <2>1, <2>2, PageStep
<1>3. CityInv /\ [Next]_algorithmVars => CityInv'
  <2> SUFFICES ASSUME CityInv, [Next]_algorithmVars, part' = "city" PROVE CityHolds(city')
    BY DEF CityInv
  <2>1. part = "city" /\ CityHolds(city)
    BY DEF CityInv, Next, JoinFiles, BuildDocuments, BuildContext, RunReports, FindClusters,
       AuditDataset, AssessCity, Compute, algorithmVars, taskVars
  <2>2. CityNext \/ UNCHANGED city
    BY <2>1 DEF Next, JoinFiles, BuildDocuments, BuildContext, RunReports, FindClusters,
       AuditDataset, AssessCity, Compute, algorithmVars, taskVars, deskVars, pageVars
  <2>3. QED
    BY <2>1, <2>2, CityStep
<1>4. PageInv /\ CityInv => PageShowsSelection
  <2> SUFFICES ASSUME PageInv, CityInv
               PROVE  /\ part = "page" => SelectionShown /\ PageSettled
                      /\ part = "city" => CityPageTruthful
    BY DEF PageShowsSelection
  <2>1. part = "page" => SelectionShown /\ PageSettled
    BY PageShows DEF PageInv
  <2>2. part = "city" => CityPageTruthful
    BY CityTells DEF CityInv
  <2>3. QED
    BY <2>1, <2>2
<1>5. QED
  BY <1>1, <1>2, <1>3, <1>4, PTL DEF Spec
=============================================================================
