---------------------------- MODULE CoveragePage ----------------------------
(***************************************************************************)
(* The national page as a machine of events: what the user does and how    *)
(* the fetches of the annual artifacts end, in any order.  A step is one   *)
(* event with all the promise reactions it sets off, in their order.       *)
(*                                                                         *)
(* A year's artifact is fetched once and kept; a failed fetch is forgotten *)
(* so that the next request tries again.  A request of a release waits for *)
(* its year, a request of a state profile for every year.  Only the newest *)
(* request of each kind may change the page: it has the flag `current`, and *)
(* one that is overtaken and has no continuation is dropped.  The serial   *)
(* numbers order the requests.  The state filter always holds the selected *)
(* state.                                                                  *)
(***************************************************************************)
EXTENDS Naturals, Sequences

CONSTANTS PageYears,        \* the years of the release index
          DefaultYear,      \* its newest
          Jurisdictions,    \* the states of every artifact
          MaxPageEvents,    \* bounds of the instance: events of the user,
          MaxPageFailures   \* and fetches that fail

ASSUME CoveragePageAssumption ==
  /\ DefaultYear \in PageYears /\ {MaxPageEvents, MaxPageFailures} \subseteq Nat
  /\ PageYears \cap {"loading", "error"} = {}
  /\ Jurisdictions \cap {"", "stay", "empty", "loading", "error"} = {}

NoState == ""
Stay    == "stay"    \* the request has no continuation
Urls    == {u \in [year : PageYears, state : Jurisdictions \cup {NoState}, level : {"national", "state"}] :
              u.level = "state" => u.state # NoState}

VARIABLE page    \* the state of the page, see PageInit

\* A URL that asks for the lens of no state is refused.
Readable(url) == url.level = "state" => url.state # NoState

View(p)  == [year |-> p.year, state |-> p.state, level |-> p.level]
Shows(p) == p.result \in PageYears
Url(p)   == p.history[p.at]

SyncUrl(p) == [p EXCEPT !.history[p.at] = View(p)]
PushUrl(p) == [p EXCEPT !.history = Append(SubSeq(p.history, 1, p.at), View(p)), !.at = @ + 1]

\* Without an artifact nothing is drawn, and the level is not normalised either.
RenderAll(p) ==
  LET level == IF p.state = NoState THEN "national" ELSE p.level
  IN IF Shows(p) THEN [p EXCEPT !.level = level, !.drawn = level] ELSE p

\* Of several requests, the one that was made last.
Newest(requests) == CHOOSE r \in requests : \A q \in requests : q.serial <= r.serial

\* A newer request of a kind overtakes the older ones.
Overtake(p, kind) ==
  LET older(r) == IF r.kind = kind THEN [r EXCEPT !.current = FALSE] ELSE r
  IN [p EXCEPT !.waiting = {r \in {older(q) : q \in @} : r.current \/ r.follow # Stay}]

Request(p, kind, of, share, follow) ==
  LET q == Overtake(p, kind)
  IN [q EXCEPT !.serial = @ + 1,
               !.waiting = @ \cup {[serial |-> p.serial, kind |-> kind, of |-> of, share |-> share,
                                    follow |-> follow, current |-> TRUE]},
               !.cache = [y \in PageYears |-> IF @[y] = "none" /\ (kind = "profile" \/ y = of)
                                              THEN "pending" ELSE @[y]]]

LoadRelease(p, year, share, follow) ==
  Request([p EXCEPT !.year = year, !.result = "loading"], "release", year, share, follow)

LoadStateProfile(p, state) ==
  LET q == [p EXCEPT !.overtaken = FALSE]
  IN IF state = NoState THEN [Overtake(q, "profile") EXCEPT !.profile = "empty"]
     ELSE Request([q EXCEPT !.profile = "loading"], "profile", state, FALSE, Stay)

\* The requests that wait for nothing any more.
Held(p, r) == \A y \in PageYears : r.kind = "profile" \/ y = r.of => p.cache[y] = "held"
Due(p, kind) == {r \in p.waiting : r.kind = kind /\ Held(p, r)}

\* The newest release has arrived: the URL is shared before the page is drawn.
ReleaseArrives(p) ==
  LET due   == {r \in Due(p, "release") : r.current}
      r     == Newest(due)
      shown == [p EXCEPT !.result = r.of, !.waiting = @ \ {q \in due : q.follow = Stay}]
  IN IF due = {} THEN p ELSE RenderAll(IF r.share THEN SyncUrl(shown) ELSE shown)

\* Mutant: a profile is drawn whatever state is selected by then.
ProfileArrivesUnchecked(p) ==
  LET due == Due(p, "profile")
  IN IF due = {} THEN p ELSE [p EXCEPT !.profile = Newest(due).of, !.waiting = @ \ due]

\* All years have arrived for the newest profile; it is drawn if its state is still selected.
ProfileArrives(p) ==
  LET due == Due(p, "profile")
      of  == Newest(due).of
  IN IF due = {} THEN p
     ELSE [p EXCEPT !.profile = IF of = p.state THEN of ELSE @, !.waiting = @ \ due]

(***************************************************************************)
(* What steps through the history do once their releases are settled,      *)
(* overtaken or not, in their order: each that has a state asks for its    *)
(* profile, so the last of them stays, and the last step of all decides    *)
(* what the panel says.                                                    *)
(***************************************************************************)
Follow(p, steps) ==
  LET last   == Newest(steps).follow
      asking == {r \in steps : r.follow # NoState}
      asked  == IF asking = {} THEN p ELSE LoadStateProfile(p, Newest(asking).follow)
  IN IF steps = {} THEN p
     ELSE [asked EXCEPT !.profile = IF last = NoState THEN "empty" ELSE @, !.overtaken = last # p.state]

FollowArrived(p) ==
  LET due == {r \in Due(p, "release") : r.follow # Stay}
  IN Follow([p EXCEPT !.waiting = @ \ due], due)

\* The reactions to artifacts that are there, in the order of the promises.
React(p) == ProfileArrives(FollowArrived(ProfileArrives(ReleaseArrives(p))))

\* The start of the page ends with the URL of what it shows, once its own requests are settled.
Started(p, year, arrived) ==
  LET rest == [release |-> IF p.start.release = year THEN "" ELSE p.start.release,
               profile |-> p.start.profile /\ arrived /\ \E y \in PageYears : p.cache[y] # "held"]
      over == [release |-> "", profile |-> FALSE]
      q    == [p EXCEPT !.start = rest]
  IN IF p.start # over /\ rest = over /\ Shows(q) THEN SyncUrl(q) ELSE q

ArtifactArrives(year) ==
  /\ page.cache[year] = "pending"
  /\ page' = Started(React([page EXCEPT !.cache[year] = "held"]), year, TRUE)

\* The newest release has failed, and the profile of its page as well.
ReleaseFails(p, requests) ==
  IF \A r \in requests : r.kind # "release" \/ ~r.current THEN p
  ELSE [p EXCEPT !.result = "error", !.profile = IF p.state = NoState THEN @ ELSE "error"]

\* The profile that waited for the year has failed, unless it was asked for again.
ProfileFails(p, requests) ==
  IF /\ \E r \in requests : r.kind = "profile" /\ r.of = p.state
     /\ \A r \in p.waiting : r.kind # "profile"
  THEN [p EXCEPT !.profile = "error"] ELSE p

\* The entry is forgotten.  A continuation may ask for a profile again, and so for the year.
ArtifactFails(year) ==
  LET settled == {r \in page.waiting : r.kind = "profile" \/ r.of = year}
      steps   == {r \in settled : r.kind = "release" /\ r.follow # Stay}
      before  == {r \in steps : \A q \in settled : q.kind = "profile" => r.serial < q.serial}
      forgotten == [page EXCEPT !.cache[year] = "none", !.failures = @ + 1, !.waiting = @ \ settled]
      failed  == ProfileFails(Follow(ReleaseFails(forgotten, settled), before), settled)
  IN /\ page.cache[year] = "pending" /\ page.failures < MaxPageFailures
     /\ page' = Started(Follow(failed, steps \ before), year, FALSE)

\* An event of the user, and the reactions to what is already there.
Event(p) ==
  /\ page.events < MaxPageEvents
  /\ page' = React([p EXCEPT !.events = @ + 1])

ChooseYear(year) == year # page.year /\ Event(LoadRelease(page, year, TRUE, Stay))

\* The state filter: the URL is written, then the page is drawn, then the profile is asked for.
ChooseState(state) ==
  LET chosen == [page EXCEPT !.state = state, !.level = IF state = NoState THEN "national" ELSE @]
  IN state # page.state /\ Event(LoadStateProfile(RenderAll(SyncUrl(chosen)), state))

\* A state of the map opens its lens, one of the other views is only selected.
SelectState(state, openLens) ==
  LET chosen == [page EXCEPT !.state = state, !.level = IF openLens THEN "state" ELSE @]
      loaded == LoadStateProfile(RenderAll(chosen), state)
  IN /\ Shows(page) /\ (openLens => page.drawn = "national")
     /\ Event(IF openLens THEN PushUrl(loaded) ELSE SyncUrl(loaded))

LeaveStateLens ==
  /\ page.drawn = "state"
  /\ Event(PushUrl(RenderAll([page EXCEPT !.level = "national"])))

\* The first state of a comparison becomes the selected one; it may be cleared.
CompareState(state) ==
  /\ page.drawn # "nothing" /\ (state = NoState \/ state # page.state)
  /\ Event(SyncUrl(LoadStateProfile(RenderAll([page EXCEPT !.state = state]), state)))

\* A control that changes neither the year nor the state: the mode, a view.
Refine == page.drawn # "nothing" /\ Event(SyncUrl(RenderAll(page)))

Reset ==
  LET cleared == [page EXCEPT !.state = NoState, !.level = "national"]
  IN Event(LoadRelease(LoadStateProfile(SyncUrl(cleared), NoState), DefaultYear, TRUE, Stay))

\* Back or forward: the page follows the URL of the entry.
RestoreLocation(at) ==
  LET url    == page.history[at]
      moved  == [page EXCEPT !.at = at]
      viewed == [moved EXCEPT !.state = url.state, !.level = url.level]
      drawn  == RenderAll(viewed)
  IN Event(IF ~Readable(url)
           THEN [Overtake(moved, "profile") EXCEPT !.result = "error", !.profile = "error",
                                                        !.refused = TRUE]
           ELSE IF url.year # page.year THEN LoadRelease(viewed, url.year, FALSE, url.state)
           ELSE IF url.state = NoState THEN [drawn EXCEPT !.profile = "empty"]
           ELSE LoadStateProfile(drawn, url.state))

\* The page is loaded on the last of two entries it wrote before.
PageInit ==
  \E first, last \in Urls :
    LET fresh  == [year |-> last.year, state |-> last.state, level |-> last.level,
                   history |-> <<first, last>>, at |-> 2, result |-> "loading", drawn |-> "nothing",
                   profile |-> "empty", cache |-> [y \in PageYears |-> "none"], waiting |-> {}, serial |-> 0,
                   start |-> [release |-> last.year, profile |-> last.state # NoState],
                   overtaken |-> FALSE, refused |-> FALSE, events |-> 0, failures |-> 0]
        loaded == LoadRelease(fresh, last.year, FALSE, Stay)
    IN page = IF last.state = NoState THEN loaded ELSE LoadStateProfile(loaded, last.state)

PageNext ==
  \/ \E y \in PageYears : ArtifactArrives(y) \/ ArtifactFails(y) \/ ChooseYear(y)
  \/ \E s \in Jurisdictions : SelectState(s, TRUE) \/ SelectState(s, FALSE)
  \/ \E s \in Jurisdictions \cup {NoState} : ChooseState(s) \/ CompareState(s)
  \/ LeaveStateLens \/ Refine \/ Reset
  \/ \E at \in {page.at - 1, page.at + 1} \cap DOMAIN page.history : RestoreLocation(at)
-----------------------------------------------------------------------------
(***************************************************************************)
(* Whatever order the artifacts arrive in, the page shows the release of   *)
(* its year, the profile of its selected state, and the URL that leads     *)
(* back to both.  The one exception is a URL that was written while        *)
(* nothing was drawn: it may ask for the lens of no state.                 *)
(***************************************************************************)
SelectionShown ==
  /\ Shows(page) => page.result = page.year
  /\ page.profile \in Jurisdictions => page.profile = page.state
  /\ Shows(page) /\ Readable(Url(page)) => Url(page) = View(page)

(***************************************************************************)
(* When nothing is on its way, nothing says that it is loading, a profile  *)
(* is there exactly for a selected state, and an error has a cause.  The   *)
(* profile is exempt after a step through the history that was overtaken   *)
(* by another choice of state: its continuation runs all the same.         *)
(***************************************************************************)
PageSettled ==
  page.waiting = {} =>
    /\ page.result # "loading"
    /\ ~page.overtaken =>
         page.profile \in {"error", IF page.state = NoState THEN "empty" ELSE page.state}
    /\ "error" \in {page.result, page.profile}
         => page.failures > 0 \/ page.refused
=============================================================================
