---------------------------- MODULE ContextProofs ----------------------------
(* Proofs about ContextActivation.                                         *)
EXTENDS ContextActivation, FiniteSetTheorems, TLAPS

-----------------------------------------------------------------------------
(* The joined source.                                                      *)

\* A joined generation as a number, and 0 for none.
Num(x) == IF x = None THEN 0 ELSE x

\* The generations that have been active so far.
JoinedMade ==
    {x \in 1 .. joinedRuns :
        x = joinedRuns =>
            \/ joinedLock # "held" \/ joinedFallback # Settled \/ joinedActive = x}

\* What is active if the run that holds the lock fails.
JoinedBase == IF joinedFallback = Settled THEN joinedActive ELSE joinedFallback

\* The archive and the marker.
JoinedStored == (joinedArchive \cup {joinedActive}) \ {None}

\* A generation was put over an earlier one; the active one is the latest unless the
\* history has it; what the history has beyond it was withdrawn, and nothing was put
\* over that; and only a run that breaks withdraws what is in the history.
JoinedInv ==
    /\ joinedRuns \in 0 .. MaxJoined
    /\ joinedLock \in {"free", "held", "stale"}
    /\ joinedActive \in JoinedMade \cup {None}
    /\ joinedFallback \in JoinedMade \cup {None, Settled}
    /\ joinedArchive \subseteq JoinedMade
    /\ replaced \in [1 .. MaxJoined -> (1 .. MaxJoined) \cup {None}]
    /\ joinedFailed \in Nat /\ joinedClutter \in BOOLEAN
    /\ joinedLock = "held" => joinedRuns >= 1
    /\ joinedFallback # Settled =>
          /\ joinedLock = "held" /\ joinedActive = joinedRuns
          /\ joinedFallback # joinedActive /\ replaced[joinedActive] = joinedFallback
          /\ joinedFallback \in joinedArchive \cup {None}
    /\ \A x \in JoinedStored : Num(replaced[x]) < x
    /\ joinedActive \notin joinedArchive \cup {None} =>
          \A x \in joinedArchive : x < joinedActive
    /\ \A e \in joinedArchive : e # joinedActive /\ e > Num(JoinedBase) =>
          \A x \in JoinedStored : replaced[x] # e
    /\ failures = 0 =>
          /\ ~joinedClutter
          /\ \A e \in joinedArchive \ {joinedActive} :
                \E x \in JoinedStored : replaced[x] = e

LEMMA JoinedMadeIs ==
    ASSUME joinedRuns \in 0 .. MaxJoined
    PROVE  /\ JoinedMade \subseteq 1 .. MaxJoined
           /\ JoinedMade \subseteq 1 .. joinedRuns
           /\ None \notin JoinedMade /\ Settled \notin JoinedMade
           /\ joinedLock = "held" /\ joinedFallback = Settled /\ joinedActive # joinedRuns
              => joinedRuns \notin JoinedMade
<1>1. JoinedMade \subseteq 1 .. MaxJoined
  BY ContextAssumption DEF JoinedMade
<1>2. QED
  BY <1>1, ContextAssumption DEF JoinedMade

\* What the steps of the joined source leave as it is.
LEMMA JoinedMoves ==
    ASSUME JoinedInv, failures \in Nat, JoinedStep
    PROVE  /\ UNCHANGED <<context, contextRuns, cpc, look, job, vpc, view>>
           /\ \/ failures' = failures
              \/ failures' = failures + 1 /\ failures < MaxFailures
           /\ joinedArchive \subseteq joinedArchive' /\ JoinedMade \subseteq JoinedMade'
           /\ \A x \in joinedArchive' \ joinedArchive : \A y \in joinedArchive : y < x
           /\ \A x \in JoinedMade : replaced'[x] = replaced[x]
<1>1. /\ joinedRuns \in Nat /\ MaxJoined \in Nat /\ joinedRuns <= MaxJoined
      /\ None \notin JoinedMade /\ Settled \notin JoinedMade /\ None # Settled
      /\ joinedLock = "held" /\ joinedFallback = Settled /\ joinedActive # joinedRuns
         => joinedRuns \notin JoinedMade
  BY ContextAssumption, JoinedMadeIs DEF JoinedInv
<1>2. UNCHANGED <<context, contextRuns, cpc, look, job, vpc, view>>
  BY DEF JoinedStep, runnerVars, readerVars
<1>3. CASE JoinedBegins
  BY <1>1, <1>2, <1>3 DEF JoinedBegins, JoinedMade
<1>4. CASE JoinedArchives
  BY <1>1, <1>2, <1>4 DEF JoinedArchives, Joined!Archive, JoinedMade, JoinedInv
<1>5. CASE JoinedActivates
  <2>1. joinedFallback = Settled /\ joinedRuns # joinedActive
        /\ joinedActive' = joinedRuns /\ joinedRuns' = joinedRuns
    BY <1>5 DEF JoinedActivates, Joined!Activate
  <2>2. JoinedMade \subseteq JoinedMade'
    BY <2>1 DEF JoinedMade
  <2>3. \A x \in JoinedMade : replaced'[x] = replaced[x]
    BY <1>1, <1>5, <2>1, JoinedMadeIs DEF JoinedActivates, JoinedInv
  <2>4. QED
    BY <1>2, <1>5, <2>2, <2>3 DEF JoinedActivates, Joined!Activate
<1>6. CASE JoinedReleases
  BY <1>2, <1>6 DEF JoinedReleases, Joined!Settle, JoinedMade
<1>7. CASE JoinedWithdraws
  BY <1>2, <1>7 DEF JoinedWithdraws, Joined!Withdraw, JoinedMade
<1>8. CASE JoinedBreaks
  <2>1. joinedLock' # "held" /\ UNCHANGED <<joinedArchive, replaced, joinedRuns>>
    BY <1>8 DEF JoinedBreaks, Joined!Settle, Joined!Withdraw
  <2>2. QED
    BY <1>2, <1>8, <2>1 DEF JoinedBreaks, Breaks, JoinedMade
<1>9. CASE JoinedCleared
  BY <1>2, <1>9 DEF JoinedCleared, JoinedMade
<1>10. QED
  BY <1>3, <1>4, <1>5, <1>6, <1>7, <1>8, <1>9 DEF JoinedStep

LEMMA JoinedStepInv ==
    ASSUME JoinedInv, failures \in Nat, JoinedStep
    PROVE  JoinedInv'
<1>1. /\ joinedRuns \in Nat /\ MaxJoined \in Nat /\ joinedRuns <= MaxJoined
      /\ JoinedMade \subseteq 1 .. joinedRuns
      /\ JoinedMade \subseteq JoinedMade' /\ JoinedMade \subseteq 1 .. MaxJoined
      /\ None \notin JoinedMade /\ Settled \notin JoinedMade /\ None # Settled
      /\ joinedLock = "held" /\ joinedFallback = Settled /\ joinedActive # joinedRuns
         => joinedRuns \notin JoinedMade
      /\ joinedLock = "held" => joinedRuns \in 1 .. MaxJoined /\ joinedRuns # None
  BY ContextAssumption, JoinedMadeIs, JoinedMoves DEF JoinedInv
<1>2. /\ joinedActive \in JoinedMade \cup {None} /\ joinedArchive \subseteq JoinedMade
      /\ joinedActive \notin joinedArchive \cup {None} =>
            \A x \in joinedArchive : x < joinedActive
      /\ joinedFallback # Settled =>
            /\ joinedLock = "held" /\ joinedActive = joinedRuns
            /\ joinedFallback # joinedActive /\ replaced[joinedActive] = joinedFallback
            /\ joinedFallback \in joinedArchive \cup {None}
      /\ JoinedStored \subseteq 1 .. joinedRuns /\ JoinedStored \subseteq JoinedMade
      /\ \A x \in JoinedStored : Num(replaced[x]) < x
      /\ \A e \in joinedArchive : e # joinedActive /\ e > Num(JoinedBase) =>
            \A x \in JoinedStored : replaced[x] # e
  <2>1. JoinedStored \subseteq JoinedMade /\ JoinedStored \subseteq 1 .. joinedRuns
    <3>1. joinedActive \in JoinedMade \cup {None} /\ joinedArchive \subseteq JoinedMade
      BY DEF JoinedInv
    <3>2. JoinedStored \subseteq JoinedMade
      BY <3>1 DEF JoinedStored
    <3>3. QED
      BY <1>1, <3>2
  <2>2. QED
    BY <2>1 DEF JoinedInv
<1>3. CASE JoinedBegins \/ JoinedCleared
  <2>1. /\ UNCHANGED <<joinedActive, joinedFallback, joinedArchive, replaced,
                       joinedFailed, joinedClutter, failures>>
        /\ joinedLock # "held" /\ joinedLock' \in {"free", "held"}
        /\ joinedRuns' \in 0 .. MaxJoined /\ (joinedLock' = "held" => joinedRuns' >= 1)
    BY <1>1, <1>3 DEF JoinedBegins, JoinedCleared, JoinedInv
  <2>2. JoinedStored' = JoinedStored /\ JoinedBase' = JoinedBase
    BY <2>1 DEF JoinedStored, JoinedBase
  <2>3. QED
    BY <1>1, <2>1, <2>2 DEF JoinedInv
<1>4. CASE JoinedArchives
  <2>1. /\ joinedLock = "held" /\ joinedActive # None
        /\ joinedArchive' = joinedArchive \cup {joinedActive}
        /\ joinedFallback' \in {joinedFallback, Settled}
        /\ UNCHANGED <<joinedLock, joinedActive, replaced, joinedFailed, joinedClutter,
                       joinedRuns, failures>>
    BY <1>4 DEF JoinedArchives, Joined!Archive
  <2>2. JoinedStored' = JoinedStored
    BY <2>1 DEF JoinedStored
  <2>3. \A e \in joinedArchive' : e # joinedActive' /\ e > Num(JoinedBase') =>
            \A x \in JoinedStored' : replaced'[x] # e
    <3>1. CASE joinedFallback' = joinedFallback
      BY <1>2, <2>1, <2>2, <3>1 DEF JoinedBase
    <3>2. CASE joinedFallback' # joinedFallback
      <4>1. JoinedBase' = joinedRuns
        BY <1>2, <2>1, <3>2 DEF JoinedBase
      <4>2. \A e \in joinedArchive' : ~(e > Num(JoinedBase'))
        BY <1>1, <1>2, <2>1, <4>1 DEF Num
      <4>3. QED
        BY <4>2
    <3>3. QED
      BY <3>1, <3>2
  <2>4. QED
    BY <1>1, <1>2, <2>1, <2>2, <2>3 DEF JoinedInv
<1>5. CASE JoinedActivates
  <2>1. /\ joinedLock = "held" /\ joinedFallback = Settled
        /\ joinedActive \in joinedArchive \cup {None}
        /\ joinedRuns \in 1 .. MaxJoined
        /\ joinedRuns \notin joinedArchive \cup {joinedActive}
        /\ joinedActive' = joinedRuns /\ joinedFallback' = joinedActive
        /\ replaced' = [replaced EXCEPT ![joinedRuns] = joinedActive]
        /\ UNCHANGED <<joinedLock, joinedArchive, joinedFailed, joinedClutter,
                       joinedRuns, failures>>
    BY <1>5 DEF JoinedActivates, Joined!Activate
  <2>2. /\ joinedRuns \in JoinedMade' /\ joinedRuns \notin JoinedMade
    BY <1>1, <2>1 DEF JoinedMade
  <2>3. /\ replaced' \in [1 .. MaxJoined -> (1 .. MaxJoined) \cup {None}]
        /\ replaced'[joinedRuns] = joinedActive
        /\ \A x \in JoinedMade : replaced'[x] = replaced[x]
    BY <1>1, <1>2, <2>1, <2>2 DEF JoinedInv
  <2>4. /\ JoinedStored' = joinedArchive \cup {joinedRuns}
        /\ JoinedStored = joinedArchive
    BY <1>1, <1>2, <2>1 DEF JoinedStored
  <2>5. \A x \in JoinedStored' : Num(replaced'[x]) < x
    <3>1. Num(joinedActive) < joinedRuns
      BY <1>1, <1>2, <2>1, <2>2 DEF Num
    <3>2. QED
      BY <1>2, <2>3, <2>4, <3>1
  <2>6. JoinedBase' = joinedActive /\ JoinedBase = joinedActive
    BY <1>1, <1>2, <2>1 DEF JoinedBase
  <2>7. \A e \in joinedArchive' : e # joinedActive' /\ e > Num(JoinedBase') =>
            \A x \in JoinedStored' : replaced'[x] # e
    <3>1. ASSUME NEW e \in joinedArchive, e > Num(joinedActive)
          PROVE  e # joinedActive
      BY <1>1, <1>2, <3>1 DEF Num
    <3>2. QED
      BY <1>2, <2>1, <2>3, <2>4, <2>6, <3>1
  <2>8. ASSUME failures = 0
        PROVE  /\ ~joinedClutter
               /\ \A e \in joinedArchive' \ {joinedActive'} :
                     \E x \in JoinedStored' : replaced'[x] = e
    <3>1. /\ ~joinedClutter
          /\ \A e \in joinedArchive \ {joinedActive} :
                \E x \in JoinedStored : replaced[x] = e
      BY <2>8 DEF JoinedInv
    <3>2. QED
      BY <1>2, <2>1, <2>3, <2>4, <3>1
  <2>9. \A x \in joinedArchive : x < joinedRuns
    BY <1>1, <1>2, <2>1
  <2>10. QED
    BY <1>1, <1>2, <2>1, <2>2, <2>3, <2>5, <2>7, <2>8, <2>9 DEF JoinedInv
<1>6. CASE JoinedReleases \/ (JoinedBreaks /\ Joined!Settle)
  <2>1. /\ joinedLock = "held" /\ joinedLock' \in {"free", "stale"}
        /\ joinedFallback' = Settled
        /\ UNCHANGED <<joinedActive, joinedArchive, replaced, joinedRuns>>
        /\ joinedFailed' \in Nat /\ joinedClutter' \in BOOLEAN
        /\ failures' = 0 => failures = 0 /\ joinedClutter' = joinedClutter
    <3>1. joinedFailed \in Nat /\ joinedFailed + 1 \in Nat /\ joinedClutter \in BOOLEAN
      BY DEF JoinedInv
    <3>2. CASE JoinedReleases
      BY <1>2, <3>1, <3>2 DEF JoinedReleases, Joined!Settle, JoinedInv
    <3>3. CASE JoinedBreaks /\ Joined!Settle
      <4>1. /\ joinedLock = "held" /\ joinedLock' \in {"free", "stale"}
            /\ UNCHANGED <<replaced, joinedRuns>>
            /\ joinedFailed' \in {joinedFailed, joinedFailed + 1}
            /\ joinedClutter' \in {joinedClutter, TRUE}
            /\ failures' = failures + 1
        BY <3>3 DEF JoinedBreaks, Breaks, Littered
      <4>2. failures' # 0
        BY <4>1
      <4>3. QED
        BY <3>1, <3>3, <4>1, <4>2 DEF Joined!Settle
    <3>4. QED
      BY <1>6, <3>2, <3>3
  <2>2. JoinedStored' = JoinedStored
    BY <2>1 DEF JoinedStored
  <2>3. \A e \in joinedArchive' : e # joinedActive' /\ e > Num(JoinedBase') =>
            \A x \in JoinedStored' : replaced'[x] # e
    <3>1. CASE joinedFallback = Settled
      BY <1>2, <2>1, <2>2, <3>1 DEF JoinedBase
    <3>2. CASE joinedFallback # Settled
      <4>1. JoinedBase' = joinedRuns
        BY <1>2, <2>1, <3>2 DEF JoinedBase
      <4>2. \A e \in joinedArchive' : ~(e > Num(JoinedBase'))
        BY <1>1, <1>2, <2>1, <4>1 DEF Num
      <4>3. QED
        BY <4>2
    <3>3. QED
      BY <3>1, <3>2
  <2>4. QED
    BY <1>1, <1>2, <2>1, <2>2, <2>3 DEF JoinedInv
<1>7. CASE JoinedWithdraws \/ (JoinedBreaks /\ Joined!Withdraw)
  <2>1. /\ joinedLock = "held" /\ joinedLock' \in {"free", "stale"}
        /\ joinedFallback # Settled
        /\ joinedActive' = joinedFallback /\ joinedFallback' = Settled
        /\ UNCHANGED <<joinedArchive, replaced, joinedRuns>>
        /\ joinedFailed' \in Nat /\ joinedClutter' \in BOOLEAN
        /\ failures' = 0 =>
              /\ failures = 0 /\ joinedClutter' = joinedClutter
              /\ joinedActive \notin joinedArchive
    <3>1. joinedFailed \in Nat /\ joinedFailed + 1 \in Nat /\ joinedClutter \in BOOLEAN
      BY DEF JoinedInv
    <3>2. CASE JoinedWithdraws
      BY <1>2, <3>1, <3>2 DEF JoinedWithdraws, Joined!Withdraw, JoinedInv
    <3>3. CASE JoinedBreaks /\ Joined!Withdraw
      <4>1. /\ joinedLock = "held" /\ joinedLock' \in {"free", "stale"}
            /\ UNCHANGED <<replaced, joinedRuns>>
            /\ joinedFailed' \in {joinedFailed, joinedFailed + 1}
            /\ joinedClutter' \in {joinedClutter, TRUE}
            /\ failures' = failures + 1
        BY <3>3 DEF JoinedBreaks, Breaks, Littered
      <4>2. failures' # 0
        BY <4>1
      <4>3. QED
        BY <3>1, <3>3, <4>1, <4>2 DEF Joined!Withdraw
    <3>4. QED
      BY <1>7, <3>2, <3>3
  <2>2. /\ JoinedStored' = joinedArchive /\ joinedArchive \subseteq JoinedStored
        /\ JoinedStored = joinedArchive \cup {joinedRuns}
        /\ JoinedBase' = joinedFallback /\ JoinedBase = joinedFallback
    BY <1>1, <1>2, <2>1 DEF JoinedStored, JoinedBase
  <2>3. \A e \in joinedArchive' : e # joinedActive' /\ e > Num(JoinedBase') =>
            \A x \in JoinedStored' : replaced'[x] # e
    <3>1. ASSUME NEW e \in joinedArchive, e # joinedFallback, e > Num(joinedFallback),
                 NEW x \in joinedArchive, replaced[x] = e
          PROVE  FALSE
      <4>1. CASE e = joinedActive
        <5>1. Num(replaced[x]) < x /\ x <= joinedRuns /\ x \in Nat
          BY <1>1, <1>2, <2>2, <3>1
        <5>2. Num(replaced[x]) = joinedRuns
          BY <1>1, <1>2, <2>1, <3>1, <4>1 DEF Num
        <5>3. QED
          BY <1>1, <5>1, <5>2
      <4>2. CASE e # joinedActive
        BY <1>2, <2>2, <3>1, <4>2
      <4>3. QED
        BY <4>1, <4>2
    <3>2. QED
      BY <2>1, <2>2, <3>1
  <2>4. ASSUME failures' = 0
        PROVE  /\ ~joinedClutter'
               /\ \A e \in joinedArchive' \ {joinedActive'} :
                     \E x \in JoinedStored' : replaced'[x] = e
    <3>1. /\ ~joinedClutter
          /\ \A e \in joinedArchive \ {joinedActive} :
                \E x \in JoinedStored : replaced[x] = e
      BY <2>1, <2>4 DEF JoinedInv
    <3>2. QED
      BY <1>2, <2>1, <2>2, <2>4, <3>1
  <2>5. QED
    BY <1>1, <1>2, <2>1, <2>2, <2>3, <2>4 DEF JoinedInv
<1>8. QED
  BY <1>3, <1>4, <1>5, <1>6, <1>7 DEF JoinedStep, JoinedBreaks

\* A generation that is neither active nor can be rolled back to.
Dead(active, fallback, g) == active # g /\ fallback # g

\* What is neither active nor to be rolled back to never comes back; what is to be
\* rolled back to is rolled back to, or never comes back either.
LEMMA JoinedDeadStays ==
    ASSUME JoinedInv, JoinedStep, NEW g \in JoinedMade
    PROVE  /\ Dead(joinedActive, joinedFallback, g)
              => Dead(joinedActive, joinedFallback, g)'
           /\ joinedFallback = g =>
                 \/ joinedActive' = joinedActive /\ joinedFallback' = g
                 \/ joinedActive' = g /\ joinedFallback' = Settled /\ joinedLock' = "free"
                 \/ Dead(joinedActive, joinedFallback, g)'
           /\ joinedLock = "free" => joinedLock' = "held"
<1>1. /\ Settled \notin JoinedMade
      /\ joinedLock = "held" /\ joinedFallback = Settled /\ joinedActive # joinedRuns
         => joinedRuns \notin JoinedMade
      /\ joinedFallback # Settled => joinedLock = "held" /\ joinedActive # joinedFallback
  BY JoinedMadeIs DEF JoinedInv
<1>2. CASE JoinedBegins \/ JoinedCleared
  BY <1>1, <1>2 DEF JoinedBegins, JoinedCleared, Dead
<1>3. CASE JoinedArchives
  BY <1>1, <1>3 DEF JoinedArchives, Joined!Archive, Dead
<1>4. CASE JoinedActivates
  BY <1>1, <1>4 DEF JoinedActivates, Joined!Activate, Dead
<1>5. CASE JoinedReleases
  BY <1>1, <1>5 DEF JoinedReleases, Joined!Settle, Dead
<1>6. CASE JoinedWithdraws
  BY <1>1, <1>6 DEF JoinedWithdraws, Joined!Withdraw, Dead
<1>7. CASE JoinedBreaks
  BY <1>1, <1>7 DEF JoinedBreaks, Joined!Settle, Joined!Withdraw, Dead
<1>8. QED
  BY <1>2, <1>3, <1>4, <1>5, <1>6, <1>7 DEF JoinedStep

-----------------------------------------------------------------------------
(* The joined generations that a verifier has accepted.                    *)

EarlierIn(B, x) == {y \in B : JoinedPlace[y] < JoinedPlace[x]}

\* JoinedReplays of the success receipts of B, put over those in r.
Replays(B, g, r) ==
    /\ g \in B
    /\ Cardinality(B) <= MaxSuccesses
    /\ \A x \in B \ {g} : JoinedTime[x] < JoinedTime[g]
    /\ \A x \in B : \E p \in B \cup {None} :
          /\ IF EarlierIn(B, x) = {} THEN p = None
             ELSE p \in EarlierIn(B, x)
                  /\ \A y \in EarlierIn(B, x) : JoinedPlace[y] <= JoinedPlace[p]
          /\ PayloadOf(r[x]) = PayloadOf(p)
          /\ \/ PayloadOf(p) = Payload[x]
             \/ \A e \in EarlierIn(B, x) : Payload[e] # Payload[x]

\* The history up to g could be replayed.
UpTo(A, g) == {x \in A : x <= g}

Good(g, A, r) == g \in A /\ Replays(UpTo(A, g), g, r)

LEMMA ReplaysIs ==
    ASSUME NEW g
    PROVE  JoinedReplays(g) <=> JoinedScanned /\ Replays(joinedArchive, g, replaced)
BY DEF JoinedReplays, Replays, Before, Earlier, EarlierIn

LEMMA ReplaysSame ==
    ASSUME NEW B, NEW g, NEW r, NEW s, \A x \in B : s[x] = r[x], Replays(B, g, r)
    PROVE  Replays(B, g, s)
BY DEF Replays

\* What is replayed is replayed without what is archived later.
LEMMA ReplayedIsGood ==
    ASSUME JoinedInv, NEW g, JoinedReplays(g)
    PROVE  Good(g, joinedArchive, replaced)
<1>1. /\ joinedArchive \subseteq 1 .. MaxJoined /\ g \in joinedArchive
      /\ \A x \in joinedArchive \ {g} : JoinedTime[x] < JoinedTime[g]
      /\ Replays(joinedArchive, g, replaced)
  BY JoinedMadeIs, ReplaysIs DEF JoinedInv, JoinedReplays
<1>2. ASSUME NEW x \in joinedArchive PROVE x <= g
  <2>1. x \in 1 .. MaxJoined /\ g \in 1 .. MaxJoined
    BY <1>1
  <2>2. CASE x = g
    BY <2>1, <2>2
  <2>3. CASE x # g
    <3>1. JoinedTime[x] < JoinedTime[g] /\ JoinedTime[x] \in Nat /\ JoinedTime[g] \in Nat
      BY <1>1, <2>1, <2>3, ClockAssumption
    <3>2. g < x => JoinedTime[g] <= JoinedTime[x]
      BY <2>1, ClockAssumption
    <3>3. QED
      BY <2>1, <3>1, <3>2
  <2>4. QED
    BY <2>2, <2>3
<1>3. UpTo(joinedArchive, g) = joinedArchive
  BY <1>2 DEF UpTo
<1>4. QED
  BY <1>1, <1>3 DEF Good

LEMMA GoodStays ==
    ASSUME JoinedInv, failures \in Nat, JoinedStep, NEW g, Good(g, joinedArchive, replaced)
    PROVE  Good(g, joinedArchive', replaced')
<1>1. /\ joinedArchive \subseteq joinedArchive' /\ joinedArchive \subseteq JoinedMade
      /\ \A x \in joinedArchive' \ joinedArchive : \A y \in joinedArchive : y < x
      /\ \A x \in JoinedMade : replaced'[x] = replaced[x]
      /\ joinedArchive' \subseteq Int /\ joinedArchive \subseteq Int
  <2>1. JoinedInv'
    BY JoinedStepInv
  <2>2. joinedArchive' \subseteq 1 .. MaxJoined
    BY <2>1, ContextAssumption DEF JoinedInv, JoinedMade
  <2>3. joinedArchive \subseteq JoinedMade
    BY DEF JoinedInv
  <2>4. joinedArchive \subseteq joinedArchive' /\ joinedArchive' \subseteq Int
    BY <2>2, JoinedMoves
  <2>5. QED
    BY <2>3, <2>4, JoinedMoves
<1>2. g \in joinedArchive /\ Replays(UpTo(joinedArchive, g), g, replaced)
  BY DEF Good
<1>3. UpTo(joinedArchive', g) = UpTo(joinedArchive, g)
  <2>1. ASSUME NEW x \in joinedArchive' \ joinedArchive PROVE ~(x <= g)
    BY <1>1, <1>2, <2>1
  <2>2. QED
    BY <1>1, <2>1 DEF UpTo
<1>4. \A x \in UpTo(joinedArchive, g) : replaced'[x] = replaced[x]
  BY <1>1 DEF UpTo
<1>5. Replays(UpTo(joinedArchive, g), g, replaced')
  BY <1>2, <1>4, ReplaysSame
<1>6. QED
  BY <1>1, <1>2, <1>3, <1>5 DEF Good

\* Where nothing was withdrawn the history of a good active generation is replayed.
LEMMA GoodIsReplayed ==
    ASSUME JoinedInv, failures \in Nat, joinedLock = "free", joinedActive # None,
           Good(joinedActive, joinedArchive, replaced), ~JoinedSpoilt
    PROVE  JoinedReplays(joinedActive)
<1> DEFINE g == joinedActive
<1>1. /\ g \in joinedArchive /\ Replays(UpTo(joinedArchive, g), g, replaced)
      /\ joinedFallback = Settled /\ joinedArchive \subseteq JoinedMade
      /\ joinedArchive \subseteq 1 .. MaxJoined /\ joinedFailed \in Nat
  BY JoinedMadeIs DEF Good, JoinedInv
<1>2. JoinedStored = joinedArchive /\ Num(JoinedBase) = g
  BY <1>1, ContextAssumption DEF JoinedStored, JoinedBase, Num
<1>3. \A e \in joinedArchive \ {g} : \E x \in joinedArchive : replaced[x] = e
  BY <1>2 DEF JoinedSpoilt, JoinedInv
<1>4. ASSUME NEW x \in joinedArchive PROVE x <= g
  <2>1. x # g /\ x > g => \A y \in joinedArchive : replaced[y] # x
    BY <1>2 DEF JoinedInv
  <2>2. QED
    BY <1>1, <1>3, <2>1
<1>5. UpTo(joinedArchive, g) = joinedArchive
  BY <1>4 DEF UpTo
<1>6. JoinedScanned
  <2>1. Cardinality(joinedArchive) \in Nat
    <3>1. IsFiniteSet(1 .. MaxJoined)
      BY FS_Interval, ContextAssumption
    <3>2. IsFiniteSet(joinedArchive)
      BY <1>1, <3>1, FS_Subset
    <3>3. QED
      BY <3>2, FS_CardinalityType
  <2>2. ~joinedClutter
    BY DEF JoinedSpoilt, JoinedInv
  <2>3. QED
    BY <1>1, <2>1, <2>2, ContextAssumption DEF JoinedSpoilt, JoinedScanned
<1>7. QED
  BY <1>1, <1>5, <1>6, ReplaysIs

-----------------------------------------------------------------------------
(* The context source.                                                     *)

Marked == {"activated", "receipt", "archived"}
Stages == Working \cup {"idle", "snapshot", "begin"}
Steps  == {"lock", "read", "scan", "reread", "relock"}

Sources(gens) ==
    [lock : {"free", "held", "stale"}, active : gens \cup {None},
     fallback : gens \cup {None, Settled}, history : Seq(gens),
     failed : Nat, clutter : BOOLEAN]

\* What is active if the run that holds the lock fails.
Base(s) == IF s.fallback = Settled THEN s.active ELSE s.fallback

\* The generations that have been active so far.
ContextMade ==
    {g \in Generations :
        /\ g.id <= contextRuns
        /\ g.id = contextRuns => cpc \in Marked \cup {"idle"}}

Ends(h, g) == g # None => h # <<>> /\ h[Len(h)] = g

\* While a run has its marker in place it can put back what the history has; the
\* marker goes to the end of the history, as the latest; and only a run that breaks
\* leaves another generation active than that at the end.
ContextInv ==
    /\ contextRuns \in 0 .. MaxContext
    /\ cpc \in Stages /\ (cpc # "idle" => contextRuns >= 1)
    /\ context \in Sources(ContextMade)
    /\ (context.lock = "held") = (cpc \in Working)
    /\ (context.fallback # Settled) = (cpc \in Marked)
    /\ cpc \in Marked =>
          /\ context.active # None /\ context.active # context.fallback
          /\ context.fallback \in Members(context.history) \cup {None}
    /\ cpc \in {"activated", "receipt"} => context.active \notin Members(context.history)
    /\ cpc \in Working \ {"activated", "receipt"} =>
          context.active \in Members(context.history) \cup {None}
    /\ context.active \notin Members(context.history) \cup {None} =>
          \A x \in Members(context.history) : x.id < context.active.id
    /\ \A x \in Members(context.history) :
          x.id <= context.history[Len(context.history)].id
    /\ failures = 0 =>
          /\ ~context.clutter
          /\ Ends(context.history,
                  IF cpc = "archived" THEN context.active ELSE Base(context))

LEMMA MembersAre ==
    ASSUME NEW S, NEW h \in Seq(S)
    PROVE  /\ Members(h) \subseteq S
           /\ h # <<>> => h[Len(h)] \in Members(h)
           /\ \A x \in S :
                 /\ Append(h, x) \in Seq(S) /\ Append(h, x) # <<>>
                 /\ Append(h, x)[Len(Append(h, x))] = x
                 /\ Members(Append(h, x)) = Members(h) \cup {x}
<1>1. /\ Members(h) \subseteq S
      /\ h # <<>> => h[Len(h)] \in Members(h)
  <2>1. h # <<>> => Len(h) \in DOMAIN h
    OBVIOUS
  <2>2. QED
    BY <2>1 DEF Members
<1>2. ASSUME NEW x \in S
      PROVE  /\ Append(h, x) \in Seq(S) /\ Append(h, x) # <<>>
             /\ Append(h, x)[Len(Append(h, x))] = x
             /\ Members(Append(h, x)) = Members(h) \cup {x}
  <2>1. /\ Append(h, x) \in Seq(S) /\ Len(Append(h, x)) = Len(h) + 1
        /\ Append(h, x)[Len(h) + 1] = x /\ Len(h) \in Nat
        /\ DOMAIN h = 1 .. Len(h) /\ DOMAIN Append(h, x) = 1 .. Len(h) + 1
        /\ \A i \in 1 .. Len(h) : Append(h, x)[i] = h[i]
        /\ Append(h, x) # <<>>
    OBVIOUS
  <2>2. Members(Append(h, x)) = Members(h) \cup {x}
    BY <2>1 DEF Members
  <2>3. QED
    BY <2>1, <2>2
<1>3. QED
  BY <1>1, <1>2

\* What is known of the context source at the types of its fields.
LEMMA ContextIs ==
    ASSUME ContextInv
    PROVE  /\ ContextMade \subseteq Generations
           /\ None \notin ContextMade /\ Settled \notin ContextMade
           /\ context.active \in ContextMade \cup {None} /\ context.active # Settled
           /\ context.fallback \in ContextMade \cup {None, Settled}
           /\ context.history \in Seq(ContextMade)
           /\ context.history \in Seq(Generations)
           /\ Members(context.history) \subseteq ContextMade
           /\ context.failed \in Nat /\ context.clutter \in BOOLEAN
           /\ \A g \in Generations : g.id \in Nat /\ g \notin {None, Settled}
           /\ \A g \in Generations : g.id = contextRuns /\ cpc \notin Marked \cup {"idle"}
                => g \notin ContextMade
           /\ contextRuns \in Nat /\ contextRuns <= MaxContext
<1>1. /\ ContextMade \subseteq Generations
      /\ None \notin ContextMade /\ Settled \notin ContextMade
      /\ \A g \in Generations : g \notin {None, Settled}
      /\ \A g \in Generations : g.id = contextRuns /\ cpc \notin Marked \cup {"idle"}
                => g \notin ContextMade
  BY GenerationAssumption DEF ContextMade
<1>2. /\ context.active \in ContextMade \cup {None}
      /\ context.fallback \in ContextMade \cup {None, Settled}
      /\ context.history \in Seq(ContextMade)
      /\ context.failed \in Nat /\ context.clutter \in BOOLEAN
  BY DEF ContextInv, Sources
<1>3. context.history \in Seq(Generations)
  BY <1>1, <1>2
<1>4. Members(context.history) \subseteq ContextMade
  BY <1>2, MembersAre
<1>5. contextRuns \in Nat /\ contextRuns <= MaxContext
  BY ContextAssumption DEF ContextInv
<1>6. \A g \in Generations : g.id \in Nat
  BY ContextAssumption DEF Generations
<1>7. QED
  BY <1>1, <1>2, <1>3, <1>4, <1>5, <1>6, ContextAssumption

-----------------------------------------------------------------------------
(* The context activation.                                                 *)

Jobs ==
    [mode : Modes, package : Packages \cup {None}, prev : Generations \cup {None},
     seen : (1 .. MaxJoined) \cup {None}, again : BOOLEAN,
     expected : (1 .. MaxJoined) \cup {None}]

\* The candidate may follow what the context store holds.
Follows(p, s) ==
    IF s.active = None THEN s.history = <<>>
    ELSE Latest(s.active, s.history) /\ ~Reuses(Artifact(p), s.history)

\* What the activation knows at each stage.
JobInv ==
    /\ job \in Jobs /\ look \in Steps \cup {"none"}
    /\ cpc \in {"idle", "begin", "normalize", "commit", "receipt", "archived"}
          => look = "none"
    /\ cpc = "snapshot" => look # "none"
    /\ cpc = "history" => (look = "none") = (job.mode = "audit")
    /\ cpc = "activated" => job.mode = "full" /\ look # "none"
    /\ look \in {"scan", "reread", "relock"} => job.seen # None
    /\ look \in {"reread", "relock"} => Good(job.seen, joinedArchive, replaced)
    /\ cpc \in {"snapshot", "begin", "normalize"} => ~job.again
    /\ cpc \in Working \cup {"begin"} =>
          /\ job.package \in Packages
          /\ Good(job.package.source, joinedArchive, replaced)
    /\ cpc \in {"normalize", "history", "commit"} => job.prev = context.active
    /\ cpc \in {"history", "commit"} =>
          CandidateValid(job.package, ArtifactOf(job.prev))
    /\ cpc = "commit" \/ (cpc = "history" /\ job.again) =>
          Follows(job.package, context)
    /\ cpc \in {"commit", "activated"} /\ job.mode = "full" =>
          job.expected = job.package.source

\* The generations of both markers come of joined ones that a verifier accepted.
DerivedInv ==
    /\ context.active # None =>
          Good(context.active.package.source, joinedArchive, replaced)
    /\ context.fallback \notin {None, Settled} =>
          Good(context.fallback.package.source, joinedArchive, replaced)

\* What a commit activates.
Candidate == [id |-> contextRuns, package |-> job.package, prev |-> ArtifactOf(job.prev)]

LEMMA CandidateIs ==
    ASSUME ContextInv, JobInv, cpc = "commit"
    PROVE  /\ Candidate \in Generations /\ Candidate \notin ContextMade
           /\ Candidate.id = contextRuns
           /\ \A g \in ContextMade : g.id < contextRuns
<1>1. contextRuns \in 1 .. MaxContext
  BY ContextAssumption DEF ContextInv
<1>2. job.package \in Packages /\ job.prev \in Generations \cup {None}
  BY DEF JobInv, Jobs, Working
<1>3. ArtifactOf(job.prev) \in {None} \cup [source : 1 .. MaxJoined, config : Configs]
  BY <1>2 DEF ArtifactOf, Artifact, Generations, Packages
<1>4. Candidate \in Generations
  BY <1>1, <1>2, <1>3 DEF Candidate, Generations
<1>5. \A g \in ContextMade : g.id \in Nat /\ g.id <= contextRuns /\ g.id # contextRuns
  BY ContextIs DEF ContextMade, Marked
<1>6. QED
  BY <1>1, <1>4, <1>5 DEF Candidate

\* What a step of the activation does to the context source.
Looks ==
    /\ context' = context /\ failures' = failures
    /\ \/ contextRuns' = contextRuns /\ (cpc = "idle" => cpc' = "idle")
       \/ /\ contextRuns' = contextRuns + 1 /\ contextRuns < MaxContext
          /\ cpc = "idle" /\ cpc' = "snapshot"
    /\ cpc' \in Stages
    /\ (cpc' \in Working) = (cpc \in Working)
    /\ (cpc' \in {"activated", "receipt"}) = (cpc \in {"activated", "receipt"})
    /\ (cpc' = "archived") = (cpc = "archived")

Begins ==
    /\ cpc = "begin" /\ cpc' = "normalize"
    /\ context.lock = "free" /\ context'.lock = "held"
    /\ context'.active = context.active /\ context'.fallback = context.fallback
    /\ context'.history = IF context.active \in Members(context.history) \cup {None}
                          THEN context.history ELSE Append(context.history, context.active)
    /\ failures' = failures /\ context'.clutter = context.clutter

Commits ==
    /\ cpc = "commit" /\ cpc' \in {"activated", "receipt"}
    /\ context'.lock = context.lock /\ context'.history = context.history
    /\ context'.active = Candidate /\ context'.fallback = context.active
    /\ failures' = failures /\ context'.clutter = context.clutter

Archives ==
    /\ cpc = "receipt" /\ cpc' = "archived"
    /\ context'.lock = context.lock
    /\ context'.active = context.active /\ context'.fallback = context.fallback
    /\ context'.history = Append(context.history, context.active)
    /\ failures' = failures /\ context'.clutter = context.clutter

\* Without a failure the run is over, or a check ends it before the history has it.
Ended ==
    /\ cpc \in Working /\ cpc' = "idle"
    /\ context'.lock \in {"free", "stale"} /\ context'.fallback = Settled
    /\ context'.history = context.history
    /\ \/ context'.active = context.active
       \/ context'.active = Base(context) /\ context'.lock = "free"
    /\ failures' = failures =>
          /\ context'.clutter = context.clutter
          /\ \/ cpc = "archived" /\ context'.active = context.active
             \/ /\ cpc \in {"normalize", "history", "activated"}
                /\ context'.active = Base(context) /\ context'.lock = "free"

Cleared ==
    /\ cpc' = cpc
    /\ context.lock = "stale" /\ context'.lock = "free"
    /\ context'.active = context.active /\ context'.fallback = context.fallback
    /\ context'.history = context.history
    /\ failures' = failures /\ context'.clutter = context.clutter

\* How a run ends that does not reach its end.
LEMMA EndingsAre ==
    ASSUME NEW made, NEW s \in Sources(made),
           NEW t \in {Failed(s), RolledBack(s), Stopped(s, "free"), Stopped(s, "stale")}
    PROVE  /\ t \in Sources(made)
           /\ t.lock \in {"free", "stale"} /\ t.fallback = Settled
           /\ t.history = s.history /\ t.clutter = s.clutter
           /\ \/ t.active = s.active
              \/ t.active = Base(s) /\ t.lock = "free"
           /\ t = Failed(s) => t.active = Base(s) /\ t.lock = "free"
<1> DEFINE r == RolledBack(s)
<1>1. /\ r \in Sources(made) /\ r.lock = "free" /\ r.fallback = Settled
      /\ r.active = Base(s) /\ r.history = s.history /\ r.clutter = s.clutter
      /\ r.failed \in Nat
  BY DEF RolledBack, Base, Sources
<1>2. Failed(s) = [r EXCEPT !.failed = r.failed + 1] /\ r.failed + 1 \in Nat
  BY <1>1 DEF Failed, Sources
<1> HIDE DEF r
<1>3. /\ Failed(s) \in Sources(made)
      /\ Failed(s).lock = "free" /\ Failed(s).fallback = Settled
      /\ Failed(s).active = Base(s) /\ Failed(s).history = s.history
      /\ Failed(s).clutter = s.clutter
  BY <1>1, <1>2 DEF Sources
<1>4. CASE t = Failed(s)
  BY <1>3, <1>4
<1>5. CASE t = RolledBack(s)
  <2>1. CASE t # Failed(s)
    BY <1>1, <1>5, <2>1 DEF r
  <2>2. QED
    BY <1>4, <2>1
<1>6. CASE t \in {Stopped(s, "free"), Stopped(s, "stale")}
  <2>1. /\ t \in Sources(made) /\ t.lock \in {"free", "stale"} /\ t.fallback = Settled
        /\ t.history = s.history /\ t.clutter = s.clutter /\ t.active = s.active
    BY <1>6 DEF Stopped, Sources
  <2>2. QED
    BY <1>4, <2>1
<1>7. QED
  BY <1>4, <1>5, <1>6

LEMMA ContextMoves ==
    ASSUME ContextInv, JobInv, failures \in Nat, RunnerStep
    PROVE  /\ UNCHANGED <<joinedVars, vpc, view>>
           /\ \/ failures' = failures
              \/ failures' = failures + 1 /\ failures < MaxFailures
           /\ \/ Looks
              \/ /\ contextRuns' = contextRuns
                 /\ \/ Commits /\ context' \in Sources(ContextMade \cup {Candidate})
                    \/ /\ Begins \/ Archives \/ Ended \/ Cleared
                       /\ context' \in Sources(ContextMade)
<1>1. /\ context \in Sources(ContextMade)
      /\ context.lock \in {"free", "held", "stale"}
      /\ context.active \in ContextMade \cup {None}
      /\ context.fallback \in ContextMade \cup {None, Settled}
      /\ context.history \in Seq(ContextMade)
      /\ context.failed \in Nat /\ context.clutter \in BOOLEAN
      /\ context.active # None => Append(context.history, context.active) \in Seq(ContextMade)
      /\ cpc \in Stages
      /\ (context.lock = "held") = (cpc \in Working)
      /\ (context.fallback # Settled) = (cpc \in Marked)
      /\ cpc \in Marked => context.active # None
  BY ContextIs, MembersAre DEF ContextInv, Sources
<1>2. UNCHANGED <<joinedVars, vpc, view>>
  BY DEF RunnerStep, RunnerOnly, OutsideRunner, readerVars, StartActivation, AccessJoined,
     SnapshotLoaded, ContextBegins, ContextNormalizes, AuditHistoryChecked, HistoryChecked,
     ContextCommits, ActivatedChecked, CheckFails, ContextArchives, ContextFinishes,
     ContextBreaks, ContextCleared
<1>3. CASE StartActivation
  BY <1>2, <1>3 DEF StartActivation, To, RunnerOnly, Looks, Stages, Working
<1>4. CASE AccessJoined
  BY <1>1, <1>2, <1>4 DEF AccessJoined, To, RunnerOnly, Looks
<1>5. CASE SnapshotLoaded \/ AuditHistoryChecked \/ ActivatedChecked
  <2>1. CASE SnapshotLoaded
    BY <1>2, <2>1 DEF SnapshotLoaded, To, RunnerOnly, Looks, Stages, Working
  <2>2. CASE AuditHistoryChecked
    BY <1>2, <2>2 DEF AuditHistoryChecked, To, RunnerOnly, Looks, Stages, Working
  <2>3. CASE ActivatedChecked
    BY <1>2, <2>3 DEF ActivatedChecked, To, RunnerOnly, Looks, Stages, Working
  <2>4. QED
    BY <1>5, <2>1, <2>2, <2>3
<1>6. CASE HistoryChecked
  <2>1. cpc' \in {"history", "commit"} /\ cpc = "history"
        /\ UNCHANGED <<context, contextRuns, failures>>
    BY <1>6 DEF HistoryChecked, To, RunnerOnly
  <2>2. QED
    BY <1>2, <2>1 DEF Looks, Stages, Working
<1>7. CASE ContextBegins
  <2>1. CASE context.lock = "free"
    <3>1. /\ context' = Begun(context) /\ cpc' = "normalize" /\ cpc = "begin"
          /\ contextRuns' = contextRuns /\ failures' = failures
      BY <1>7, <2>1 DEF ContextBegins, To, RunnerOnly
    <3>2. context' \in Sources(ContextMade)
      BY <1>1, <3>1 DEF Begun, Sources
    <3>3. Begins
      BY <1>1, <2>1, <3>1 DEF Begun, Sources, Begins
    <3>4. QED
      BY <1>2, <3>1, <3>2, <3>3
  <2>2. CASE context.lock # "free"
    BY <1>2, <1>7, <2>2 DEF ContextBegins, To, RunnerOnly, Leaving, Looks, Stages, Working
  <2>3. QED
    BY <2>1, <2>2
<1>8. CASE ContextNormalizes /\ CandidateValid(job.package, ArtifactOf(job.prev))
  BY <1>2, <1>8 DEF ContextNormalizes, To, RunnerOnly, Looks, Stages, Working
<1>9. CASE CheckFails /\ cpc = "snapshot"
  BY <1>2, <1>9 DEF CheckFails, Leaving, To, RunnerOnly, Looks, Stages, Working
<1>10. CASE \/ CheckFails /\ cpc # "snapshot"
            \/ ContextNormalizes /\ ~CandidateValid(job.package, ArtifactOf(job.prev))
  <2>1. /\ context' = Failed(context) /\ cpc' = "idle"
        /\ cpc \in {"normalize", "history", "activated"}
        /\ contextRuns' = contextRuns /\ failures' = failures
    BY <1>10 DEF CheckFails, ContextNormalizes, Leaving, To, RunnerOnly
  <2>2. context' \in Sources(ContextMade)
    BY <1>1, <2>1, EndingsAre
  <2>3. Ended
    BY <1>1, <2>1, EndingsAre DEF Ended, Working
  <2>4. QED
    BY <1>2, <2>1, <2>2, <2>3
<1>11. CASE ContextArchives
  <2>1. /\ context' = Archived(context) /\ cpc' = "archived" /\ cpc = "receipt"
        /\ contextRuns' = contextRuns /\ failures' = failures
    BY <1>11 DEF ContextArchives, To, RunnerOnly
  <2>2. context' \in Sources(ContextMade)
    BY <1>1, <2>1 DEF Archived, Sources, Marked
  <2>3. Archives
    BY <1>1, <2>1 DEF Archived, Sources, Archives
  <2>4. QED
    BY <1>2, <2>1, <2>2, <2>3
<1>12. CASE ContextFinishes
  <2>1. /\ context' = Finished(context) /\ cpc' = "idle" /\ cpc = "archived"
        /\ contextRuns' = contextRuns /\ failures' = failures
    BY <1>12 DEF ContextFinishes, Leaving, To, RunnerOnly
  <2>2. context' \in Sources(ContextMade)
    BY <1>1, <2>1 DEF Finished, Sources
  <2>3. Ended
    BY <1>1, <2>1 DEF Finished, Sources, Ended, Working
  <2>4. QED
    BY <1>2, <2>1, <2>2, <2>3
<1>13. CASE ContextBreaks
  <2>1. PICK after \in {Failed(context), RolledBack(context),
                        Stopped(context, "free"), Stopped(context, "stale")} :
           \E clutter \in Littered(context.clutter) :
              context' = [after EXCEPT !.clutter = clutter]
    BY <1>13 DEF ContextBreaks
  <2>2. PICK clutter \in {context.clutter, TRUE} :
              context' = [after EXCEPT !.clutter = clutter]
    BY <2>1 DEF Littered
  <2>3. /\ after \in Sources(ContextMade)
        /\ after.lock \in {"free", "stale"} /\ after.fallback = Settled
        /\ after.history = context.history
        /\ \/ after.active = context.active
           \/ after.active = Base(context) /\ after.lock = "free"
    BY <1>1, EndingsAre
  <2>4. /\ cpc' = "idle" /\ cpc \in Working /\ contextRuns' = contextRuns
        /\ failures' = failures + 1 /\ failures < MaxFailures /\ failures' # failures
    BY <1>13 DEF ContextBreaks, Breaks, Leaving, To
  <2>5. /\ context' \in Sources(ContextMade)
        /\ context'.lock = after.lock /\ context'.active = after.active
        /\ context'.fallback = after.fallback /\ context'.history = after.history
    BY <1>1, <2>2, <2>3 DEF Sources
  <2>6. Ended
    BY <2>3, <2>4, <2>5 DEF Ended
  <2>7. QED
    BY <1>2, <2>4, <2>5, <2>6
<1>14. CASE ContextCleared
  <2>1. /\ context.lock = "stale" /\ context' = [context EXCEPT !.lock = "free"]
        /\ UNCHANGED <<cpc, contextRuns, failures>> /\ cpc # "commit"
    BY <1>1, <1>14 DEF ContextCleared, RunnerOnly, runnerVars, Working
  <2>2. context' \in Sources(ContextMade)
    BY <1>1, <2>1 DEF Sources
  <2>3. Cleared
    BY <1>1, <2>1 DEF Sources, Cleared
  <2>4. QED
    BY <1>2, <2>1, <2>2, <2>3
<1>15. CASE ContextCommits
  <2>1. /\ context' = Activated(context, Candidate) /\ cpc = "commit"
        /\ cpc' \in {"activated", "receipt"}
        /\ contextRuns' = contextRuns /\ failures' = failures
    BY <1>15 DEF ContextCommits, To, RunnerOnly, Candidate
  <2>2. context.history \in Seq(ContextMade \cup {Candidate})
    BY <1>1
  <2>3. context' \in Sources(ContextMade \cup {Candidate})
    BY <1>1, <2>1, <2>2 DEF Activated, Sources
  <2>4. Commits
    BY <1>1, <2>1 DEF Activated, Sources, Commits
  <2>5. QED
    BY <1>2, <2>1, <2>3, <2>4
<1>16. QED
  BY <1>3, <1>4, <1>5, <1>6, <1>7, <1>8, <1>9, <1>10, <1>11, <1>12, <1>13, <1>14, <1>15
     DEF RunnerStep

LEMMA ContextTyped ==
    ASSUME ContextInv, JobInv, failures \in Nat, RunnerStep
    PROVE  /\ Commits => context' \in Sources(ContextMade \cup {Candidate})
           /\ Begins \/ Archives \/ Ended \/ Cleared => context' \in Sources(ContextMade)
<1>1. (context.lock = "held") = (cpc \in Working)
  BY DEF ContextInv
<1>2. CASE Looks
  <2>1. ~Begins /\ ~Commits /\ ~Archives /\ ~Ended /\ ~Cleared
    BY <1>1, <1>2 DEF Looks, Begins, Commits, Archives, Ended, Cleared, Working
  <2>2. QED
    BY <2>1
<1>3. CASE Commits /\ context' \in Sources(ContextMade \cup {Candidate})
  <2>1. ~Begins /\ ~Archives /\ ~Ended /\ ~Cleared
    BY <1>3 DEF Begins, Commits, Archives, Ended, Cleared
  <2>2. QED
    BY <1>3, <2>1
<1>4. CASE (Begins \/ Archives \/ Ended \/ Cleared) /\ context' \in Sources(ContextMade)
  <2>1. ~Commits
    BY <1>4 DEF Begins, Commits, Archives, Ended, Cleared
  <2>2. QED
    BY <1>4, <2>1
<1>5. QED
  BY <1>2, <1>3, <1>4, ContextMoves

LEMMA ContextMadeGrows ==
    ASSUME ContextInv, JobInv, failures \in Nat, RunnerStep
    PROVE  /\ ContextMade \subseteq ContextMade'
           /\ cpc = "commit" /\ Commits => Candidate \in ContextMade'
           /\ contextRuns' \in 0 .. MaxContext
           /\ cpc' \in Stages /\ (cpc' # "idle" => contextRuns' >= 1)
<1>1. /\ contextRuns \in Nat /\ contextRuns <= MaxContext /\ MaxContext \in Nat
      /\ cpc \in Stages /\ (cpc # "idle" => contextRuns >= 1)
      /\ \A g \in Generations : g.id \in Nat
      /\ Looks \/ (contextRuns' = contextRuns /\ (Begins \/ Commits \/ Archives \/ Ended \/ Cleared))
  BY ContextIs, ContextMoves, ContextAssumption DEF ContextInv
<1>2. CASE Looks
  <2>1. \A g \in ContextMade : g \in Generations /\ g.id <= contextRuns'
    BY <1>1, <1>2 DEF Looks, ContextMade
  <2>2. ASSUME NEW g \in ContextMade, g.id = contextRuns'
        PROVE  cpc' \in Marked \cup {"idle"}
    <3>1. contextRuns' = contextRuns
      BY <1>1, <1>2, <2>2 DEF Looks, ContextMade
    <3>2. QED
      BY <1>1, <1>2, <2>2, <3>1 DEF Looks, ContextMade, Marked
  <2>3. ~Commits
    BY <1>2 DEF Looks, Commits, Working
  <2>4. contextRuns' \in 0 .. MaxContext /\ cpc' \in Stages /\ (cpc' # "idle" => contextRuns' >= 1)
    BY <1>1, <1>2 DEF Looks
  <2>5. QED
    BY <2>1, <2>2, <2>3, <2>4 DEF ContextMade
<1>3. CASE contextRuns' = contextRuns /\ (Begins \/ Commits \/ Archives \/ Ended \/ Cleared)
  <2>1. /\ cpc \in Marked \cup {"idle"} => cpc' \in Marked \cup {"idle"}
        /\ cpc' \in Stages /\ (cpc' # "idle" => cpc # "idle")
    BY <1>1, <1>3 DEF Begins, Commits, Archives, Ended, Cleared, Marked, Stages, Working
  <2>2. ASSUME Commits, cpc = "commit" PROVE Candidate \in ContextMade'
    <3>1. Candidate \in Generations /\ Candidate.id = contextRuns
      BY <2>2, CandidateIs
    <3>2. QED
      BY <1>1, <1>3, <2>2, <3>1 DEF ContextMade, Commits, Marked
  <2>3. QED
    BY <1>1, <1>3, <2>1, <2>2 DEF ContextMade
<1>4. QED
  BY <1>1, <1>2, <1>3

LEMMA ContextStepInv ==
    ASSUME ContextInv, JobInv, failures \in Nat, RunnerStep
    PROVE  ContextInv'
<1> DEFINE h == context.history
           M == Members(context.history)
<1>1. /\ context \in Sources(ContextMade)
      /\ (context.lock = "held") = (cpc \in Working)
      /\ (context.fallback # Settled) = (cpc \in Marked)
      /\ cpc \in Marked =>
            /\ context.active # None /\ context.active # context.fallback
            /\ context.fallback \in M \cup {None}
      /\ cpc \in {"activated", "receipt"} => context.active \notin M
      /\ cpc \in Working \ {"activated", "receipt"} => context.active \in M \cup {None}
      /\ context.active \notin M \cup {None} => \A x \in M : x.id < context.active.id
      /\ \A x \in M : x.id <= h[Len(h)].id
      /\ failures = 0 =>
            /\ ~context.clutter
            /\ Ends(h, IF cpc = "archived" THEN context.active ELSE Base(context))
  BY DEF ContextInv
<1>2. /\ None \notin ContextMade /\ Settled \notin ContextMade
      /\ context.active \in ContextMade \cup {None} /\ context.active # Settled
      /\ M \subseteq ContextMade /\ h \in Seq(ContextMade)
      /\ \A g \in ContextMade : g.id \in Nat
      /\ None # Settled
  BY ContextIs, ContextAssumption
<1>3. /\ ContextMade \subseteq ContextMade'
      /\ contextRuns' \in 0 .. MaxContext
      /\ cpc' \in Stages /\ (cpc' # "idle" => contextRuns' >= 1)
  BY ContextMadeGrows
<1>4. Sources(ContextMade) \subseteq Sources(ContextMade')
  BY <1>3 DEF Sources
<1>5. failures' = 0 => failures = 0 /\ failures' = failures
  BY ContextMoves
<1>6. context.active # None =>
         LET a == Append(h, context.active)
         IN /\ a # <<>> /\ a[Len(a)] = context.active
            /\ Members(a) = M \cup {context.active}
  BY <1>2, MembersAre
<1> HIDE DEF h, M
<1>7. CASE Looks
  <2>1. /\ context' = context /\ failures' = failures
        /\ (cpc' \in Working) = (cpc \in Working)
        /\ (cpc' \in {"activated", "receipt"}) = (cpc \in {"activated", "receipt"})
        /\ (cpc' = "archived") = (cpc = "archived")
    BY <1>7 DEF Looks
  <2>2. (cpc' \in Marked) = (cpc \in Marked)
    BY <2>1 DEF Marked
  <2>3. Base(context)' = Base(context)
    BY <2>1
  <2>4. QED
    BY <1>1, <1>3, <1>4, <2>1, <2>2, <2>3 DEF ContextInv, h, M
<1>8. CASE Begins
  <2>1. /\ cpc = "begin" /\ cpc' = "normalize" /\ context.fallback = Settled
        /\ context'.lock = "held" /\ context'.fallback = Settled
        /\ context'.active = context.active
        /\ failures' = failures /\ context'.clutter = context.clutter
        /\ context' \in Sources(ContextMade)
        /\ context'.history = IF context.active \in M \cup {None} THEN h
                              ELSE Append(h, context.active)
    BY <1>1, <1>8, ContextTyped DEF Begins, Marked, h, M
  <2>2. /\ context'.active \in Members(context'.history) \cup {None}
        /\ \A x \in Members(context'.history) :
              x.id <= context'.history[Len(context'.history)].id
        /\ failures = 0 => Ends(context'.history, context'.active)
    <3>1. CASE context.active \in M \cup {None}
      <4>1. context'.history = h /\ Members(context'.history) = M
        BY <2>1, <3>1 DEF M, h
      <4>2. failures = 0 => Ends(h, context.active)
        BY <1>1, <2>1 DEF Base
      <4>3. QED
        BY <1>1, <2>1, <3>1, <4>1, <4>2
    <3>2. CASE context.active \notin M \cup {None}
      <4>1. context'.history = Append(h, context.active)
        BY <2>1, <3>2
      <4>2. /\ Members(context'.history) = M \cup {context.active}
            /\ context'.history[Len(context'.history)] = context.active
            /\ context'.history # <<>>
        BY <1>6, <3>2, <4>1
      <4>3. \A x \in M \cup {context.active} : x.id <= context.active.id
        BY <1>1, <1>2, <3>2
      <4>4. QED
        BY <2>1, <4>2, <4>3 DEF Ends
    <3>3. QED
      BY <3>1, <3>2
  <2>3. Base(context)' = context'.active
    BY <2>1 DEF Base
  <2>4. QED
    BY <1>1, <1>3, <1>4, <1>5, <2>1, <2>2, <2>3 DEF ContextInv, Marked, Working
<1>9. CASE Commits
  <2>1. /\ cpc = "commit" /\ cpc' \in {"activated", "receipt"}
        /\ context.fallback = Settled
        /\ context'.lock = "held" /\ context'.history = h
        /\ context'.active = Candidate /\ context'.fallback = context.active
        /\ failures' = failures /\ context'.clutter = context.clutter
        /\ context' \in Sources(ContextMade \cup {Candidate})
    BY <1>1, <1>9, ContextTyped DEF Commits, Marked, Working, h
  <2>2. /\ Candidate \in Generations /\ Candidate \notin ContextMade
        /\ Candidate \notin {None, Settled}
        /\ \A g \in ContextMade : g.id < Candidate.id
        /\ Candidate \in ContextMade'
    BY <1>9, <2>1, CandidateIs, ContextMadeGrows, ContextIs
  <2>3. context' \in Sources(ContextMade')
    <3>1. Sources(ContextMade \cup {Candidate}) \subseteq Sources(ContextMade')
      BY <1>3, <2>2 DEF Sources
    <3>2. QED
      BY <2>1, <3>1
  <2>4. context.active \in M \cup {None}
    BY <1>1, <2>1 DEF Working
  <2>5. Base(context)' = context.active /\ Base(context) = context.active
    BY <1>2, <2>1 DEF Base
  <2>6. Members(context.history)' = M
    BY <2>1 DEF M, h
  <2>7. QED
    BY <1>1, <1>2, <1>3, <1>5, <2>1, <2>2, <2>3, <2>4, <2>5, <2>6
       DEF ContextInv, Marked, Working
<1>10. CASE Archives
  <2>1. /\ cpc = "receipt" /\ cpc' = "archived"
        /\ context.fallback # Settled
        /\ context'.lock = "held" /\ context'.history = Append(h, context.active)
        /\ context'.active = context.active /\ context'.fallback = context.fallback
        /\ failures' = failures /\ context'.clutter = context.clutter
        /\ context' \in Sources(ContextMade)
        /\ context.active \notin M \cup {None}
    BY <1>1, <1>10, ContextTyped DEF Archives, Marked, Working, h
  <2>2. /\ Members(context'.history) = M \cup {context.active}
        /\ context'.history[Len(context'.history)] = context.active
        /\ context'.history # <<>>
    BY <1>6, <2>1
  <2>3. \A x \in M \cup {context.active} : x.id <= context.active.id
    BY <1>1, <1>2, <2>1
  <2>4. QED
    BY <1>1, <1>3, <1>4, <1>5, <2>1, <2>2, <2>3 DEF ContextInv, Marked, Working, Ends
<1>11. CASE Ended
  <2>1. /\ cpc \in Working /\ cpc' = "idle"
        /\ context'.lock # "held" /\ context'.fallback = Settled
        /\ context'.history = h /\ Members(context'.history) = M
        /\ context'.active \in {context.active, Base(context)}
        /\ context' \in Sources(ContextMade)
    <3>1. context' \in Sources(ContextMade)
      BY <1>11, ContextTyped
    <3>2. QED
      BY <1>11, <3>1 DEF Ended, h, M
  <2>2. context'.active \notin M \cup {None} => \A x \in M : x.id < context'.active.id
    <3>1. Base(context) = context.active \/ Base(context) \in M \cup {None}
      BY <1>1 DEF Base
    <3>2. QED
      BY <1>1, <2>1, <3>1
  <2>3. Base(context)' = context'.active
    BY <2>1 DEF Base
  <2>4. ASSUME failures' = 0 PROVE ~context'.clutter /\ Ends(h, context'.active)
    <3>1. /\ failures' = failures /\ context'.clutter = context.clutter
          /\ \/ cpc = "archived" /\ context'.active = context.active
             \/ cpc # "archived" /\ context'.active = Base(context)
      BY <1>5, <1>11, <2>4 DEF Ended
    <3>2. QED
      BY <1>1, <2>4, <3>1
  <2>5. QED
    BY <1>1, <1>3, <1>4, <2>1, <2>2, <2>3, <2>4 DEF ContextInv, Marked, Working
<1>12. CASE Cleared
  <2>1. /\ cpc' = cpc /\ cpc \notin Working /\ cpc \notin Marked
        /\ context'.lock = "free" /\ context'.active = context.active
        /\ context'.fallback = context.fallback /\ context'.history = h
        /\ failures' = failures /\ context'.clutter = context.clutter
    BY <1>1, <1>12 DEF Cleared, Marked, Working, h
  <2>2. context' \in Sources(ContextMade)
    BY <1>12, ContextTyped
  <2>3. Base(context)' = Base(context)
    BY <2>1 DEF Base
  <2>4. context' \in Sources(ContextMade') /\ Members(context.history)' = M
    BY <1>4, <2>1, <2>2 DEF M, h
  <2>5. QED
    BY <1>1, <1>3, <2>1, <2>3, <2>4 DEF ContextInv, Marked, Working
<1>13. QED
  BY <1>7, <1>8, <1>9, <1>10, <1>11, <1>12, ContextMoves

LEMMA ContextDeadStays ==
    ASSUME ContextInv, JobInv, failures \in Nat, RunnerStep, NEW g \in ContextMade
    PROVE  /\ Dead(context.active, context.fallback, g)
              => Dead(context.active, context.fallback, g)'
           /\ context.fallback = g =>
                 \/ context'.active = context.active /\ context'.fallback = g
                 \/ context'.active = g /\ context'.fallback = Settled /\ cpc' = "idle"
                 \/ Dead(context.active, context.fallback, g)'
           /\ context.lock = "free" => context'.lock = "held" \/ context' = context
<1>1. /\ (context.lock = "held") = (cpc \in Working)
      /\ (context.fallback # Settled) = (cpc \in Marked)
      /\ cpc \in Marked => context.active # context.fallback
      /\ None \notin ContextMade /\ Settled \notin ContextMade
  BY ContextIs DEF ContextInv
<1>2. CASE Looks
  BY <1>2 DEF Looks, Dead
<1>3. CASE Begins
  BY <1>1, <1>3 DEF Begins, Dead
<1>4. CASE Commits
  <2>1. Candidate \notin ContextMade
    BY <1>4, CandidateIs DEF Commits
  <2>2. QED
    BY <1>1, <1>4, <2>1 DEF Commits, Dead, Working, Marked
<1>5. CASE Archives
  BY <1>1, <1>5 DEF Archives, Dead, Working
<1>6. CASE Ended
  BY <1>1, <1>6 DEF Ended, Dead, Base
<1>7. CASE Cleared
  BY <1>1, <1>7 DEF Cleared, Dead
<1>8. QED
  BY <1>2, <1>3, <1>4, <1>5, <1>6, <1>7, ContextMoves

LEMMA JobStepInv ==
    ASSUME JoinedInv, ContextInv, JobInv, failures \in Nat, RunnerStep
    PROVE  JobInv'
<1>1. /\ job \in Jobs /\ look \in Steps \cup {"none"}
      /\ joinedArchive' = joinedArchive /\ replaced' = replaced
      /\ joinedArchive \subseteq 1 .. MaxJoined
      /\ joinedActive \in (1 .. MaxJoined) \cup {None}
      /\ context.active \in Generations \cup {None}
      /\ None \notin 1 .. MaxJoined
      /\ \A x : Good(x, joinedArchive, replaced) => x \in joinedArchive
      /\ \A x : JoinedReplays(x) => Good(x, joinedArchive, replaced)
  <2>1. joinedArchive' = joinedArchive /\ replaced' = replaced
    BY ContextMoves DEF joinedVars
  <2>2. /\ joinedArchive \subseteq 1 .. MaxJoined
        /\ joinedActive \in (1 .. MaxJoined) \cup {None}
    BY JoinedMadeIs DEF JoinedInv
  <2>3. context.active \in Generations \cup {None}
    BY ContextIs
  <2>4. \A x : Good(x, joinedArchive, replaced) => x \in joinedArchive
    BY DEF Good
  <2>5. \A x : JoinedReplays(x) => Good(x, joinedArchive, replaced)
    BY ReplayedIsGood
  <2>6. QED
    BY <2>1, <2>2, <2>3, <2>4, <2>5, ContextAssumption DEF JobInv
<1>2. CASE Leaving
  BY <1>2 DEF Leaving, To, JobInv, NoJob, Jobs, Modes, Working, Steps
<1>3. CASE StartActivation
  BY <1>3 DEF StartActivation, To, JobInv, NoJob, Jobs, Modes, Working, Steps
<1>4. CASE AccessJoined
  <2>1. /\ cpc' = cpc /\ look \in {"lock", "read", "scan", "reread"}
        /\ look' = NextAccess[look] /\ JoinedAccessHolds
        /\ context' = context
        /\ job' = IF look = "read" THEN [job EXCEPT !.seen = joinedActive] ELSE job
    BY <1>4 DEF AccessJoined, To, NextAccess
  <2>2. \/ look = "lock" /\ look' = "read"
        \/ look = "read" /\ look' = "scan" /\ joinedActive # None
        \/ look = "scan" /\ look' = "reread" /\ Good(job.seen, joinedArchive, replaced)
        \/ look = "reread" /\ look' = "relock" /\ Good(job.seen, joinedArchive, replaced)
    BY <1>1, <2>1 DEF NextAccess, JoinedAccessHolds, JobInv
  <2>3. /\ job'.mode = job.mode /\ job'.package = job.package /\ job'.prev = job.prev
        /\ job'.again = job.again /\ job'.expected = job.expected
        /\ job' \in Jobs
        /\ job'.seen = IF look = "read" THEN joinedActive ELSE job.seen
    BY <1>1, <2>1 DEF Jobs
  <2>4. look' \in {"reread", "relock"} => Good(job'.seen, joinedArchive, replaced)
    BY <2>2, <2>3
  <2>5. look' \in {"scan", "reread", "relock"} => job'.seen # None
    BY <1>1, <2>2, <2>3, <2>4
  <2>6. QED
    BY <1>1, <2>1, <2>2, <2>3, <2>4, <2>5 DEF JobInv, Steps
<1>5. CASE SnapshotLoaded
  <2>1. PICK p \in Packages :
           /\ p.source = job.seen /\ cpc' = "begin" /\ look' = "none"
           /\ job' = [job EXCEPT !.package = p, !.seen = None]
    BY <1>5 DEF SnapshotLoaded, To
  <2>2. Good(job.seen, joinedArchive, replaced) /\ ~job.again
    BY <1>5 DEF SnapshotLoaded, JobInv
  <2>3. job' \in Jobs /\ job'.package = p /\ job'.again = job.again
    BY <1>1, <2>1 DEF Jobs
  <2>4. QED
    BY <1>1, <2>1, <2>2, <2>3 DEF JobInv, Working
<1>6. CASE ContextBegins /\ ~Leaving
  <2>1. /\ cpc = "begin" /\ cpc' = "normalize" /\ look' = "none"
        /\ context' = Begun(context)
        /\ job' = [job EXCEPT !.prev = context.active]
    BY <1>6 DEF ContextBegins, To
  <2>2. /\ job' \in Jobs /\ job'.package = job.package /\ job'.again = job.again
        /\ job'.prev = context.active
    BY <1>1, <2>1 DEF Jobs
  <2>3. context'.active = context.active
    BY <2>1 DEF Begun, ContextInv, Sources
  <2>4. QED
    BY <1>1, <2>1, <2>2, <2>3 DEF JobInv, Working
<1>7. CASE ContextNormalizes /\ ~Leaving
  <2>1. /\ cpc = "normalize" /\ cpc' = "history" /\ job' = job /\ context' = context
        /\ look' = IF job.mode = "audit" THEN "none" ELSE "lock"
        /\ CandidateValid(job.package, ArtifactOf(job.prev))
    BY <1>7 DEF ContextNormalizes, To
  <2>2. QED
    BY <1>1, <2>1 DEF JobInv, Working, Steps
<1>8. CASE AuditHistoryChecked
  <2>1. /\ cpc = "history" /\ cpc' = "commit" /\ job' = job /\ context' = context
        /\ look' = "none" /\ job.mode = "audit" /\ ContextHistoryValid
    BY <1>8 DEF AuditHistoryChecked, To
  <2>2. Follows(job.package, context)
    BY <2>1 DEF ContextHistoryValid, Follows
  <2>3. QED
    BY <1>1, <2>1, <2>2 DEF JobInv, Working, Steps
<1>9. CASE HistoryChecked
  <2>1. /\ cpc = "history" /\ look = "relock" /\ context' = context
        /\ job.package.source = job.seen
        /\ (context.active = None \/ ~job.again) => ContextHistoryValid
    BY <1>9 DEF HistoryChecked, Concludes
  <2>2. Follows(job.package, context)
    BY <2>1 DEF ContextHistoryValid, Follows, JobInv
  <2>3. Good(job.seen, joinedArchive, replaced) /\ job.seen \in 1 .. MaxJoined /\ job.mode # "audit"
    BY <1>1, <2>1 DEF JobInv
  <2>4. CASE context.active # None /\ ~job.again
    <3>1. /\ cpc' = "history" /\ look' = "lock"
          /\ job' = [job EXCEPT !.again = TRUE]
      BY <1>9, <2>4 DEF HistoryChecked, To
    <3>2. /\ job' \in Jobs /\ job'.package = job.package /\ job'.prev = job.prev
          /\ job'.mode = job.mode
      BY <1>1, <3>1 DEF Jobs
    <3>3. QED
      BY <1>1, <2>1, <2>2, <2>3, <3>1, <3>2 DEF JobInv, Working, Steps
  <2>5. CASE ~(context.active # None /\ ~job.again)
    <3>1. /\ cpc' = "commit" /\ look' = "none"
          /\ job' = [job EXCEPT !.expected = job.seen, !.seen = None, !.again = FALSE]
      BY <1>9, <2>5 DEF HistoryChecked, To
    <3>2. /\ job' \in Jobs /\ job'.package = job.package /\ job'.prev = job.prev
          /\ job'.mode = job.mode /\ job'.expected = job.seen
      BY <1>1, <2>3, <3>1 DEF Jobs
    <3>3. QED
      BY <1>1, <2>1, <2>2, <2>3, <3>1, <3>2 DEF JobInv, Working, Steps
  <2>6. QED
    BY <2>4, <2>5
<1>10. CASE ContextCommits
  <2>1. /\ cpc = "commit" /\ job' = [job EXCEPT !.prev = None]
        /\ IF job.mode = "full" THEN cpc' = "activated" /\ look' = "lock"
           ELSE cpc' = "receipt" /\ look' = "none"
    BY <1>10 DEF ContextCommits, To
  <2>2. /\ job' \in Jobs /\ job'.package = job.package
        /\ job'.mode = job.mode /\ job'.expected = job.expected
    BY <1>1, <2>1 DEF Jobs
  <2>3. QED
    BY <1>1, <2>1, <2>2 DEF JobInv, Working, Steps
<1>11. CASE ActivatedChecked
  <2>1. /\ cpc = "activated" /\ cpc' = "receipt" /\ look' = "none"
        /\ job' = [job EXCEPT !.seen = None, !.expected = None]
    BY <1>11 DEF ActivatedChecked, To
  <2>2. job' \in Jobs /\ job'.package = job.package
    BY <1>1, <2>1 DEF Jobs
  <2>3. QED
    BY <1>1, <2>1, <2>2 DEF JobInv, Working, Steps
<1>12. CASE ContextCleared
  <2>1. /\ cpc' = cpc /\ look' = look /\ job' = job
        /\ context' = [context EXCEPT !.lock = "free"]
    BY <1>12 DEF ContextCleared, runnerVars
  <2>2. context'.active = context.active /\ context'.history = context.history
    BY <2>1 DEF ContextInv, Sources
  <2>3. QED
    BY <1>1, <2>1, <2>2 DEF JobInv, Follows
<1>13. CASE ContextArchives
  BY <1>1, <1>13 DEF ContextArchives, To, JobInv, Working, Steps
<1>14. QED
  BY <1>2, <1>3, <1>4, <1>5, <1>6, <1>7, <1>8, <1>9, <1>10, <1>11, <1>12, <1>13
     DEF RunnerStep, CheckFails, ContextFinishes, ContextBreaks

CoreInv ==
    failures \in 0 .. MaxFailures /\ JoinedInv /\ ContextInv /\ JobInv /\ DerivedInv

LEMMA DerivedStep ==
    ASSUME ContextInv, JobInv, DerivedInv, failures \in Nat, RunnerStep
    PROVE  DerivedInv'
<1>1. /\ joinedArchive' = joinedArchive /\ replaced' = replaced
      /\ context.active # Settled
  BY ContextMoves, ContextIs DEF joinedVars
<1>2. CASE Looks \/ Begins \/ Archives \/ Cleared
  <2>1. context'.active = context.active /\ context'.fallback = context.fallback
    BY <1>2 DEF Looks, Begins, Archives, Cleared
  <2>2. QED
    BY <1>1, <2>1 DEF DerivedInv
<1>3. CASE Commits
  <2>1. /\ cpc = "commit" /\ context'.active = Candidate
        /\ context'.fallback = context.active
    BY <1>3 DEF Commits
  <2>2. Candidate.package = job.package
    BY DEF Candidate
  <2>3. Good(job.package.source, joinedArchive, replaced)
    BY <2>1 DEF JobInv, Working
  <2>4. QED
    BY <1>1, <2>1, <2>2, <2>3 DEF DerivedInv
<1>4. CASE Ended
  <2>1. /\ context'.active \in {context.active, Base(context)}
        /\ context'.fallback = Settled
    BY <1>4 DEF Ended
  <2>2. QED
    BY <1>1, <2>1 DEF DerivedInv, Base
<1>5. QED
  BY <1>2, <1>3, <1>4, ContextMoves

LEMMA CoreInit ==
    ASSUME Init PROVE CoreInv
<1>1. /\ context = NewSource /\ joinedRuns = 0 /\ contextRuns = 0
      /\ failures = 0 /\ cpc = "idle" /\ look = "none" /\ job = NoJob
      /\ joinedLock = "free" /\ joinedActive = None /\ joinedFallback = Settled
      /\ joinedArchive = {} /\ replaced = [g \in 1 .. MaxJoined |-> None]
      /\ joinedFailed = 0 /\ joinedClutter = FALSE
  BY DEF Init, Joined!Init
<1>2. /\ NewSource.lock = "free" /\ NewSource.active = None
      /\ NewSource.fallback = Settled /\ NewSource.history = <<>>
      /\ NewSource.clutter = FALSE
      /\ Members(<<>>) = {}
      /\ \A gens : NewSource \in Sources(gens)
  BY DEF NewSource, Members, Sources
<1>3. JoinedInv
  <2>1. JoinedStored = {} /\ 0 \in 0 .. MaxJoined /\ 0 \in Nat
    BY <1>1, ContextAssumption DEF JoinedStored
  <2>2. replaced \in [1 .. MaxJoined -> (1 .. MaxJoined) \cup {None}]
    BY <1>1
  <2>3. QED
    BY <1>1, <2>1, <2>2 DEF JoinedInv
<1>4. ContextInv
  BY <1>1, <1>2, ContextAssumption DEF ContextInv, Stages, Working, Marked, Ends, Base
<1>5. JobInv
  BY <1>1 DEF JobInv, NoJob, Jobs, Modes, Working, Steps
<1>6. DerivedInv
  BY <1>1, <1>2 DEF DerivedInv
<1>7. QED
  BY <1>1, <1>3, <1>4, <1>5, <1>6, ContextAssumption DEF CoreInv

\* Which of the three actors a step is of.
LEMMA StepIsOf ==
    ASSUME CoreInv, [Next]_vars
    PROVE  /\ ~JoinedStep => UNCHANGED joinedVars
           /\ ~RunnerStep => UNCHANGED <<context, contextRuns, cpc, look, job>>
           /\ ~ReaderStep => UNCHANGED <<vpc, view>>
           /\ joinedArchive \subseteq joinedArchive'
           /\ failures' \in 0 .. MaxFailures
           /\ failures' = 0 => failures = 0
           /\ JoinedMade \subseteq JoinedMade' /\ ContextMade \subseteq ContextMade'
<1>1. /\ failures \in Nat /\ failures \in 0 .. MaxFailures /\ MaxFailures \in Nat
      /\ JoinedInv /\ ContextInv /\ JobInv
  BY ContextAssumption DEF CoreInv
<1>2. CASE JoinedStep
  <2>1. /\ UNCHANGED <<context, contextRuns, cpc, look, job, vpc, view>>
        /\ \/ failures' = failures
           \/ failures' = failures + 1 /\ failures < MaxFailures
        /\ joinedArchive \subseteq joinedArchive' /\ JoinedMade \subseteq JoinedMade'
    BY <1>1, <1>2, JoinedMoves
  <2>2. ContextMade' = ContextMade
    BY <2>1 DEF ContextMade
  <2>3. QED
    BY <1>1, <1>2, <2>1, <2>2
<1>3. CASE RunnerStep
  <2>1. /\ UNCHANGED <<joinedVars, vpc, view>>
        /\ \/ failures' = failures
           \/ failures' = failures + 1 /\ failures < MaxFailures
    BY <1>1, <1>3, ContextMoves
  <2>2. ContextMade \subseteq ContextMade'
    BY <1>1, <1>3, ContextMadeGrows
  <2>3. JoinedMade' = JoinedMade /\ joinedArchive' = joinedArchive
    BY <2>1 DEF JoinedMade, joinedVars
  <2>4. QED
    BY <1>1, <1>3, <2>1, <2>2, <2>3
<1>4. CASE ~JoinedStep /\ ~RunnerStep
  <2>1. /\ ReaderStep \/ UNCHANGED vars
        /\ UNCHANGED <<joinedVars, context, failures, contextRuns, cpc, look, job>>
    BY <1>4 DEF Next, ReaderStep, vars, runnerVars, joinedVars
  <2>2. JoinedMade' = JoinedMade /\ ContextMade' = ContextMade
        /\ joinedArchive' = joinedArchive
    BY <2>1 DEF JoinedMade, ContextMade, joinedVars
  <2>3. ~ReaderStep => UNCHANGED <<vpc, view>>
    BY <2>1 DEF vars
  <2>4. QED
    BY <1>1, <2>1, <2>2, <2>3
<1>5. QED
  BY <1>2, <1>3, <1>4

LEMMA CoreStep ==
    ASSUME CoreInv, [Next]_vars PROVE CoreInv'
<1>1. /\ failures \in Nat /\ JoinedInv /\ ContextInv /\ JobInv /\ DerivedInv
      /\ failures' \in 0 .. MaxFailures /\ (failures' = 0 => failures = 0)
  BY ContextAssumption, StepIsOf DEF CoreInv
<1>2. CASE JoinedStep
  <2>1. /\ JoinedInv' /\ UNCHANGED <<context, contextRuns, cpc, look, job>>
        /\ \A g : Good(g, joinedArchive, replaced) => Good(g, joinedArchive', replaced')
    BY <1>1, <1>2, JoinedStepInv, JoinedMoves, GoodStays
  <2>2. ContextInv'
    <3>1. ContextMade' = ContextMade /\ Base(context)' = Base(context)
      BY <2>1 DEF ContextMade
    <3>2. QED
      BY <1>1, <2>1, <3>1 DEF ContextInv
  <2>3. JobInv'
    BY <1>1, <2>1 DEF JobInv
  <2>4. DerivedInv'
    BY <1>1, <2>1 DEF DerivedInv
  <2>5. QED
    BY <1>1, <2>1, <2>2, <2>3, <2>4 DEF CoreInv
<1>3. CASE RunnerStep
  <2>1. /\ ContextInv' /\ JobInv' /\ DerivedInv' /\ UNCHANGED joinedVars
    BY <1>1, <1>3, ContextStepInv, JobStepInv, DerivedStep, ContextMoves
  <2>2. JoinedInv'
    <3>1. UNCHANGED <<joinedLock, joinedActive, joinedFallback, joinedArchive,
                      replaced, joinedFailed, joinedClutter, joinedRuns>>
      BY <2>1 DEF joinedVars
    <3>2. JoinedMade' = JoinedMade /\ JoinedStored' = JoinedStored /\ JoinedBase' = JoinedBase
      BY <3>1 DEF JoinedMade, JoinedStored, JoinedBase
    <3>3. QED
      BY <1>1, <3>1, <3>2 DEF JoinedInv
  <2>3. QED
    BY <1>1, <2>1, <2>2 DEF CoreInv
<1>4. CASE ReaderStep \/ UNCHANGED vars
  <2>1. /\ UNCHANGED <<context, contextRuns, failures, cpc, look, job>>
        /\ UNCHANGED <<joinedLock, joinedActive, joinedFallback, joinedArchive,
                       replaced, joinedFailed, joinedClutter, joinedRuns>>
    BY <1>4 DEF ReaderStep, vars, runnerVars, joinedVars
  <2>2. /\ JoinedMade' = JoinedMade /\ JoinedStored' = JoinedStored
        /\ JoinedBase' = JoinedBase
        /\ ContextMade' = ContextMade /\ Base(context)' = Base(context)
    BY <2>1 DEF JoinedMade, JoinedStored, JoinedBase, ContextMade
  <2>3. JoinedInv'
    BY <1>1, <2>1, <2>2 DEF JoinedInv
  <2>4. ContextInv'
    BY <1>1, <2>1, <2>2 DEF ContextInv
  <2>5. JobInv' /\ DerivedInv'
    BY <1>1, <2>1 DEF JobInv, DerivedInv
  <2>6. QED
    BY <1>1, <2>3, <2>4, <2>5 DEF CoreInv
<1>5. QED
  BY <1>2, <1>3, <1>4 DEF Next

-----------------------------------------------------------------------------
(* The chain of context generations.                                       *)

LEMMA PrefixReuse ==
    ASSUME NEW h \in Seq(Generations), NEW n \in 1 .. Len(h), NEW a
    PROVE  /\ Reuses(a, SubSeq(h, 1, n)) <=>
                 /\ a # Artifact(h[n].package)
                 /\ \E k \in 1 .. n : Artifact(h[k].package) = a
           /\ Reuses(a, h) <=>
                 /\ a # Artifact(h[Len(h)].package)
                 /\ \E k \in 1 .. Len(h) : Artifact(h[k].package) = a
<1> DEFINE p == SubSeq(h, 1, n)
<1>1. /\ Len(h) \in Nat /\ Len(p) = n /\ DOMAIN p = 1 .. n
      /\ \A k \in 1 .. n : p[k] = h[k]
      /\ DOMAIN h = 1 .. Len(h)
  OBVIOUS
<1>2. p[Len(p)] = h[n]
  BY <1>1
<1> HIDE DEF p
<1>3. Reuses(a, p) <=>
         /\ a # Artifact(h[n].package)
         /\ \E k \in 1 .. n : Artifact(h[k].package) = a
  BY <1>1, <1>2 DEF Reuses
<1>4. QED
  BY <1>1, <1>3 DEF Reuses, p

\* ContextChainValid without the prefixes.
Link(h, i, sources) ==
    LET old == IF i = 1 THEN None ELSE Artifact(h[i - 1].package)
    IN /\ h[i].prev = old
       /\ h[i].package.source \in sources
       /\ CandidateValid(h[i].package, old)
       /\ i > 1 =>
             \/ Artifact(h[i].package) = Artifact(h[i - 1].package)
             \/ \A k \in 1 .. i - 1 : Artifact(h[k].package) # Artifact(h[i].package)

Chain(h, sources) == \A i \in 1 .. Len(h) : Link(h, i, sources)

LEMMA ChainIs ==
    ASSUME NEW h \in Seq(Generations), NEW S
    PROVE  ContextChainValid(h, S) <=> Chain(h, S)
<1>1. DOMAIN h = 1 .. Len(h) /\ Len(h) \in Nat
  OBVIOUS
<1>2. ASSUME NEW i \in 1 .. Len(h), i > 1
      PROVE  ~Reuses(Artifact(h[i].package), SubSeq(h, 1, i - 1)) <=>
                 \/ Artifact(h[i].package) = Artifact(h[i - 1].package)
                 \/ \A k \in 1 .. i - 1 : Artifact(h[k].package) # Artifact(h[i].package)
  <2>1. PICK n \in 1 .. Len(h) : n = i - 1
    BY <1>1, <1>2
  <2>2. PICK a : a = Artifact(h[i].package)
    OBVIOUS
  <2>3. Reuses(a, SubSeq(h, 1, n)) <=>
                 /\ a # Artifact(h[n].package)
                 /\ \E k \in 1 .. n : Artifact(h[k].package) = a
    BY PrefixReuse
  <2>4. QED
    BY <2>1, <2>2, <2>3
<1>3. ASSUME NEW i \in 1 .. Len(h)
      PROVE  Link(h, i, S) <=>
        LET old == IF i = 1 THEN None ELSE Artifact(h[i - 1].package)
        IN /\ h[i].prev = old
           /\ h[i].package.source \in S
           /\ CandidateValid(h[i].package, old)
           /\ i > 1 => ~Reuses(Artifact(h[i].package), SubSeq(h, 1, i - 1))
  BY <1>2 DEF Link
<1>4. QED
  BY <1>1, <1>3 DEF ContextChainValid, Chain

LEMMA ChainWidens ==
    ASSUME NEW h \in Seq(Generations), NEW S, NEW T, S \subseteq T,
           ContextChainValid(h, S)
    PROVE  ContextChainValid(h, T)
BY ChainIs DEF Chain, Link

\* A generation is appended to a chain, or the last one taken from it.
LEMMA ChainExtends ==
    ASSUME NEW h \in Seq(Generations), NEW g \in Generations, NEW S
    PROVE  ContextChainValid(Append(h, g), S) <=>
              /\ ContextChainValid(h, S)
              /\ g.prev = IF h = <<>> THEN None ELSE Artifact(h[Len(h)].package)
              /\ g.package.source \in S
              /\ CandidateValid(g.package, g.prev)
              /\ h # <<>> => ~Reuses(Artifact(g.package), h)
<1> DEFINE n == Len(h)
           e == Append(h, g)
<1>1. /\ n \in Nat /\ e \in Seq(Generations) /\ Len(e) = n + 1 /\ e[n + 1] = g
      /\ \A k \in 1 .. n : e[k] = h[k]
      /\ h = <<>> <=> n = 0
  OBVIOUS
<1> HIDE DEF n, e
<1>2. h # <<>> =>
         (~Reuses(Artifact(g.package), h) <=>
            \/ Artifact(g.package) = Artifact(h[n].package)
            \/ \A k \in 1 .. n : Artifact(h[k].package) # Artifact(g.package))
  <2>1. h # <<>> => n \in 1 .. Len(h)
    BY <1>1 DEF n
  <2>2. PICK a : a = Artifact(g.package)
    OBVIOUS
  <2>3. h # <<>> =>
           (Reuses(a, h) <=> /\ a # Artifact(h[n].package)
                             /\ \E k \in 1 .. n : Artifact(h[k].package) = a)
    BY <2>1, PrefixReuse DEF n
  <2>4. QED
    BY <2>2, <2>3
<1>3. Chain(e, S) <=>
         /\ Chain(h, S)
         /\ LET old == IF n = 0 THEN None ELSE Artifact(h[n].package)
            IN /\ g.prev = old
               /\ g.package.source \in S
               /\ CandidateValid(g.package, old)
               /\ n > 0 =>
                     \/ Artifact(g.package) = Artifact(h[n].package)
                     \/ \A k \in 1 .. n : Artifact(h[k].package) # Artifact(g.package)
  <2>1. \A i \in 1 .. n + 1 : i \in 1 .. n \/ i = n + 1
    BY <1>1
  <2>2. \A i \in 1 .. n : Link(e, i, S) <=> Link(h, i, S)
    <3>1. \A i \in 1 .. n : /\ e[i] = h[i]
                            /\ i > 1 => e[i - 1] = h[i - 1]
                            /\ \A k \in 1 .. i - 1 : e[k] = h[k]
      BY <1>1
    <3>2. QED
      BY <3>1 DEF Link
  <2>3. n > 0 => e[n] = h[n] /\ n + 1 # 1 /\ n + 1 - 1 = n
    BY <1>1
  <2>4. Link(e, n + 1, S) <=>
           LET old == IF n = 0 THEN None ELSE Artifact(h[n].package)
            IN /\ g.prev = old
               /\ g.package.source \in S
               /\ CandidateValid(g.package, old)
               /\ n > 0 =>
                     \/ Artifact(g.package) = Artifact(h[n].package)
                     \/ \A k \in 1 .. n : Artifact(h[k].package) # Artifact(g.package)
    BY <1>1, <2>3 DEF Link
  <2>5. Chain(e, S) <=> (\A i \in 1 .. n : Link(e, i, S)) /\ Link(e, n + 1, S)
    BY <1>1, <2>1 DEF Chain
  <2>6. Chain(h, S) <=> \A i \in 1 .. n : Link(h, i, S)
    BY DEF Chain, n
  <2>7. QED
    BY <2>2, <2>4, <2>5, <2>6
<1>4. QED
  <2>1. /\ ContextChainValid(e, S) <=> Chain(e, S)
        /\ ContextChainValid(h, S) <=> Chain(h, S)
    BY <1>1, ChainIs
  <2>2. (IF h = <<>> THEN None ELSE Artifact(h[Len(h)].package))
        = (IF n = 0 THEN None ELSE Artifact(h[n].package))
    BY <1>1 DEF n
  <2>3. ContextChainValid(e, S) <=>
              /\ ContextChainValid(h, S)
              /\ g.prev = IF n = 0 THEN None ELSE Artifact(h[n].package)
              /\ g.package.source \in S
              /\ CandidateValid(g.package, g.prev)
              /\ h # <<>> => ~Reuses(Artifact(g.package), h)
    BY <1>1, <1>2, <1>3, <2>1
  <2>4. QED
    BY <2>2, <2>3 DEF e

ReplayInv ==
    /\ ContextChainValid(context.history, joinedArchive)
    /\ ContextChainReplays

LEMMA ReplayStep ==
    ASSUME CoreInv, ReplayInv, [Next]_vars PROVE ReplayInv'
<1> DEFINE h == context.history
           b == Begun(context).history
<1>1. /\ failures \in Nat /\ JoinedInv /\ ContextInv /\ JobInv
      /\ joinedArchive \subseteq joinedArchive'
      /\ ContextChainValid(h, joinedArchive) /\ ContextChainValid(b, joinedArchive)
      /\ (context.fallback # Settled) = (cpc \in Marked)
      /\ cpc \in Marked => context.fallback \in Members(h) \cup {None}
      /\ cpc \in {"activated", "receipt"} => context.active \notin Members(h)
      /\ cpc \in Marked => context.active # None
      /\ \A s \in Sources(ContextMade') :
            Begun(s).history = IF s.active \in Members(s.history) \cup {None}
                               THEN s.history ELSE Append(s.history, s.active)
      /\ context' \in Sources(ContextMade')
  <2>1. ContextInv'
    BY CoreStep DEF CoreInv
  <2>2. \A s \in Sources(ContextMade') :
            Begun(s).history = IF s.active \in Members(s.history) \cup {None}
                               THEN s.history ELSE Append(s.history, s.active)
    BY DEF Begun, Sources
  <2>3. failures \in Nat /\ joinedArchive \subseteq joinedArchive'
    BY ContextAssumption, StepIsOf DEF CoreInv
  <2>4. QED
    BY <2>1, <2>2, <2>3 DEF CoreInv, ReplayInv, ContextChainReplays, ContextInv
<1>2. /\ h \in Seq(Generations) /\ b \in Seq(Generations)
      /\ context.active \in ContextMade \cup {None} /\ ContextMade \subseteq Generations
      /\ Members(h) \subseteq ContextMade
      /\ b = IF context.active \in Members(h) \cup {None} THEN h
             ELSE Append(h, context.active)
      /\ context.active # None =>
            Members(Append(h, context.active)) = Members(h) \cup {context.active}
  <2>1. h \in Seq(Generations) /\ context.active \in ContextMade \cup {None}
        /\ ContextMade \subseteq Generations /\ Members(h) \subseteq ContextMade
    BY <1>1, ContextIs
  <2>2. b = IF context.active \in Members(h) \cup {None} THEN h
             ELSE Append(h, context.active)
    BY <1>1 DEF Begun, ContextInv, Sources
  <2>3. QED
    BY <2>1, <2>2, MembersAre
<1>3. Begun(context').history =
         IF context'.active \in Members(context'.history) \cup {None}
         THEN context'.history ELSE Append(context'.history, context'.active)
  BY <1>1
<1> HIDE DEF h, b
<1>4. ContextChainValid(h, joinedArchive') /\ ContextChainValid(b, joinedArchive')
  BY <1>1, <1>2, ChainWidens
<1>5. CASE context' = context
  BY <1>4, <1>5 DEF ReplayInv, ContextChainReplays, h, b
<1>6. CASE RunnerStep /\ Begins
  <2>1. context'.history = b /\ context'.active = context.active
    BY <1>2, <1>6 DEF Begins, h
  <2>2. Begun(context').history = b
    BY <1>2, <1>3, <2>1
  <2>3. QED
    BY <1>4, <2>1, <2>2 DEF ReplayInv, ContextChainReplays
<1>7. CASE RunnerStep /\ Commits
  <2>1. /\ context'.history = h /\ context'.active = Candidate /\ cpc = "commit"
        /\ joinedArchive' = joinedArchive
    BY <1>1, <1>7, ContextMoves DEF Commits, h, joinedVars
  <2>2. Candidate \in Generations \ ContextMade /\ Candidate # None
    BY <1>1, <2>1, CandidateIs, GenerationAssumption
  <2>3. /\ job.prev = context.active /\ CandidateValid(job.package, ArtifactOf(job.prev))
        /\ job.package.source \in joinedArchive
        /\ Follows(job.package, context)
    BY <1>1, <2>1 DEF JobInv, Working, Good
  <2>4. Candidate.package = job.package /\ Candidate.prev = ArtifactOf(context.active)
    BY <2>3 DEF Candidate
  <2>5. Candidate.prev = IF h = <<>> THEN None ELSE Artifact(h[Len(h)].package)
    BY <2>3, <2>4 DEF Follows, ArtifactOf, Latest, h
  <2>6. h # <<>> => ~Reuses(Artifact(Candidate.package), h)
    BY <2>3, <2>4 DEF Follows, h
  <2>7. ContextChainValid(Append(h, Candidate), joinedArchive')
    BY <1>1, <1>2, <2>1, <2>2, <2>3, <2>4, <2>5, <2>6, ChainExtends
  <2>8. Begun(context').history = Append(h, Candidate)
    BY <1>2, <1>3, <2>1, <2>2
  <2>9. QED
    BY <1>4, <2>1, <2>7, <2>8 DEF ReplayInv, ContextChainReplays
<1>8. CASE RunnerStep /\ Archives
  <2>1. context'.history = Append(h, context.active) /\ context'.active = context.active
        /\ cpc = "receipt"
    BY <1>8 DEF Archives, h
  <2>2. context.active \notin Members(h) \cup {None}
    BY <1>1, <2>1 DEF Marked
  <2>3. context'.history = b /\ Begun(context').history = b
    BY <1>2, <1>3, <2>1, <2>2
  <2>4. QED
    BY <1>4, <2>3 DEF ReplayInv, ContextChainReplays
<1>9. CASE RunnerStep /\ Ended
  <2>1. /\ context'.history = h
        /\ context'.active = context.active \/ context'.active = Base(context)
    BY <1>9 DEF Ended, h
  <2>2. CASE context'.active = context.active
    BY <1>2, <1>3, <1>4, <2>1, <2>2 DEF ReplayInv, ContextChainReplays
  <2>3. CASE context'.active # context.active
    <3>1. context'.active \in Members(h) \cup {None}
      BY <1>1, <2>1, <2>3 DEF Base
    <3>2. QED
      BY <1>3, <1>4, <2>1, <3>1 DEF ReplayInv, ContextChainReplays
  <2>4. QED
    BY <2>2, <2>3
<1>10. CASE RunnerStep /\ Cleared
  <2>1. context'.history = h /\ context'.active = context.active
    BY <1>10 DEF Cleared, h
  <2>2. QED
    BY <1>2, <1>3, <1>4, <2>1 DEF ReplayInv, ContextChainReplays
<1>11. QED
  <2>1. CASE RunnerStep
    BY <1>1, <1>5, <1>6, <1>7, <1>8, <1>9, <1>10, <2>1, ContextMoves DEF Looks
  <2>2. CASE ~RunnerStep
    BY <1>5, <2>2, StepIsOf
  <2>3. QED
    BY <2>1, <2>2

-----------------------------------------------------------------------------
(* What was settled while a marker was committed.                          *)

\* What was active, not locked and not the generation of the package has replaced
\* that for good; and then the check after the commit does not see that again.
SpanInv ==
    /\ cpc \notin {"commit", "activated", "receipt", "archived"} => span = {}
    /\ cpc \in {"commit", "activated"} =>
          /\ \/ span \subseteq {job.package.source}
             \/ Dead(joinedActive, joinedFallback, job.package.source)
          /\ look = "relock" /\ job.seen = job.package.source =>
                span \subseteq {job.package.source}
    /\ cpc \in {"receipt", "archived"} /\ job.mode = "full" =>
          span \subseteq {job.package.source}

\* How the activation gets to the stages in which evidence is gathered.
LEMMA SpanMoves ==
    ASSUME CoreInv, [Next]_vars
    PROVE  /\ cpc' \in {"commit", "activated"} =>
                \/ cpc = "history"
                \/ /\ cpc \in {"commit", "activated"} /\ job'.package = job.package
                   /\ look = "relock" => look' = "relock" /\ job'.seen = job.seen
                   /\ look' = "relock" /\ look # "relock" =>
                         joinedActive = job.seen /\ job'.seen = job.seen
           /\ cpc' \in {"receipt", "archived"} /\ job'.mode = "full" =>
                /\ job'.package = job.package /\ job.mode = "full"
                /\ \/ cpc \in {"receipt", "archived"}
                   \/ /\ cpc = "activated" /\ look = "relock"
                      /\ job.seen = job.package.source
<1>1. failures \in Nat /\ JoinedInv /\ ContextInv /\ JobInv /\ job \in Jobs
  BY ContextAssumption DEF CoreInv, JobInv
<1>2. CASE UNCHANGED <<cpc, look, job>>
  BY <1>2
<1>3. CASE cpc' \notin {"commit", "activated", "receipt", "archived"} \/ HistoryChecked
           \/ AuditHistoryChecked
  BY <1>3 DEF HistoryChecked, AuditHistoryChecked, To
<1>4. CASE AccessJoined
  <2>1. cpc' = cpc /\ job'.package = job.package /\ job'.mode = job.mode
    BY <1>1, <1>4 DEF AccessJoined, To, Jobs
  <2>2. look # "relock" /\ cpc \notin {"receipt", "archived"}
    BY <1>1, <1>4 DEF AccessJoined, NextAccess, JobInv
  <2>3. look' = "relock" => look = "reread"
    <3>1. look \in {"lock", "read", "scan", "reread"} /\ look' = NextAccess[look]
      BY <1>4 DEF AccessJoined, NextAccess, To
    <3>2. QED
      BY <3>1 DEF NextAccess
  <2>4. look = "reread" => joinedActive = job.seen /\ job'.seen = job.seen
    BY <1>4 DEF AccessJoined, To, JoinedAccessHolds
  <2>5. QED
    BY <2>1, <2>2, <2>3, <2>4
<1>5. CASE ContextCommits
  <2>1. /\ cpc = "commit" /\ look = "none" /\ job'.package = job.package
        /\ job'.mode = job.mode
        /\ IF job.mode = "full" THEN cpc' = "activated" /\ look' = "lock"
           ELSE cpc' = "receipt" /\ look' = "none"
    BY <1>1, <1>5 DEF ContextCommits, To, Jobs, JobInv
  <2>2. QED
    BY <2>1
<1>6. CASE ActivatedChecked
  <2>1. /\ cpc = "activated" /\ look = "relock" /\ cpc' = "receipt"
        /\ job'.package = job.package /\ job'.mode = job.mode
        /\ job.seen = job.expected
    BY <1>1, <1>6 DEF ActivatedChecked, Concludes, To, Jobs
  <2>2. QED
    BY <1>1, <2>1 DEF JobInv
<1>7. CASE ContextArchives
  BY <1>7 DEF ContextArchives, To
<1>8. CASE RunnerStep
  <2>1. CASE \/ StartActivation \/ SnapshotLoaded \/ ContextBegins
             \/ ContextNormalizes \/ CheckFails \/ ContextFinishes \/ ContextBreaks
    <3>1. cpc' \in {"snapshot", "begin", "normalize", "history", "idle"}
      BY <2>1 DEF StartActivation, SnapshotLoaded, ContextBegins, ContextNormalizes,
         CheckFails, ContextFinishes, ContextBreaks, Leaving, To
    <3>2. QED
      BY <1>3, <3>1
  <2>2. CASE ContextCleared
    BY <1>2, <2>2 DEF ContextCleared, runnerVars
  <2>3. QED
    BY <1>3, <1>4, <1>5, <1>6, <1>7, <1>8, <2>1, <2>2 DEF RunnerStep
<1>9. QED
  BY <1>2, <1>8, StepIsOf

LEMMA SpanStep ==
    ASSUME CoreInv, SpanInv, [Next]_vars PROVE SpanInv'
<1>1. CoreInv'
  BY CoreStep
<1>2. CASE UNCHANGED vars
  BY <1>2 DEF vars, joinedVars, SpanInv, Dead
<1>3. CASE Next
  <2>1. span' = IF cpc' \in {"commit", "activated"} /\ look' # "relock"
                THEN span \cup (IF joinedLock' = "free" THEN {joinedActive'} ELSE {})
                ELSE IF cpc' \in {"activated", "receipt", "archived"} THEN span ELSE {}
    BY <1>3 DEF Next, Ghosts
  <2>2. cpc' = "commit" => look' = "none"
    BY <1>1 DEF CoreInv, JobInv
  <2>3. CASE cpc' \notin {"commit", "activated", "receipt", "archived"}
    BY <2>1, <2>3 DEF SpanInv
  <2>4. CASE cpc' \in {"receipt", "archived"}
    <3>1. span' = span
      BY <2>1, <2>4
    <3>2. ASSUME job'.mode = "full" PROVE span \subseteq {job'.package.source}
      <4>1. /\ job'.package = job.package /\ job.mode = "full"
            /\ \/ cpc \in {"receipt", "archived"}
               \/ /\ cpc = "activated" /\ look = "relock"
                  /\ job.seen = job.package.source
        BY <2>4, <3>2, SpanMoves
      <4>2. QED
        BY <4>1 DEF SpanInv
    <3>3. QED
      BY <2>4, <3>1, <3>2 DEF SpanInv
  <2>5. CASE cpc' \in {"commit", "activated"}
    <3> DEFINE g == job'.package.source
               dead == Dead(joinedActive, joinedFallback, g)
    <3>1. /\ \/ span = {}
             \/ /\ cpc \in {"commit", "activated"} /\ job'.package = job.package
                /\ look = "relock" => look' = "relock" /\ job'.seen = job.seen
                /\ look' = "relock" /\ look # "relock" =>
                       joinedActive = job.seen /\ job'.seen = job.seen
      BY <2>5, SpanMoves DEF SpanInv
    <3>2. ASSUME look' = "relock", job'.seen = g PROVE span \subseteq {g}
      BY <3>1, <3>2 DEF SpanInv, Dead
    <3>3. \/ span \subseteq {g}
          \/ Dead(joinedActive', joinedFallback', g)
      <4>1. CASE span = {}
        BY <4>1
      <4>2. CASE cpc \in {"commit", "activated"} /\ job'.package = job.package
        <5>1. g \in JoinedMade
          BY <4>2 DEF CoreInv, JobInv, Working, Good, JoinedInv
        <5>2. Dead(joinedActive, joinedFallback, g)
              => Dead(joinedActive', joinedFallback', g)
          <6>1. CASE JoinedStep
            <7>1. \A x \in JoinedMade : Dead(joinedActive, joinedFallback, x)
                     => Dead(joinedActive', joinedFallback', x)
              BY <6>1, JoinedDeadStays DEF CoreInv
            <7>2. QED
              BY <5>1, <7>1
          <6>2. CASE ~JoinedStep
            BY <6>2, StepIsOf DEF joinedVars
          <6>3. QED
            BY <6>1, <6>2
        <5>3. QED
          BY <4>2, <5>2 DEF SpanInv
      <4>3. QED
        BY <3>1, <4>1, <4>2
    <3>4. joinedLock' = "free" /\ joinedActive' # g => Dead(joinedActive', joinedFallback', g)
      <4>1. g \in JoinedMade' /\ g # Settled
        <5>1. g \in joinedArchive'
          BY <1>1, <2>5 DEF CoreInv, JobInv, Working, Good
        <5>2. joinedArchive' \subseteq JoinedMade' /\ joinedRuns' \in 0 .. MaxJoined
          BY <1>1 DEF CoreInv, JoinedInv
        <5>3. \A x \in JoinedMade' : x \in 1 .. MaxJoined
          BY <5>2, ContextAssumption DEF JoinedMade
        <5>4. QED
          BY <5>1, <5>2, <5>3, ContextAssumption
      <4>2. joinedLock' = "free" => joinedFallback' = Settled
        BY <1>1 DEF CoreInv, JoinedInv
      <4>3. QED
        BY <4>1, <4>2 DEF Dead
    <3> HIDE DEF g
    <3>5. CASE look' = "relock"
      <4>1. span' = span
        BY <2>1, <2>2, <2>5, <3>5
      <4>2. QED
        BY <2>5, <3>2, <3>3, <3>5, <4>1 DEF SpanInv, g
    <3>6. CASE look' # "relock"
      <4>1. span' = span \cup (IF joinedLock' = "free" THEN {joinedActive'} ELSE {})
        BY <2>1, <2>5, <3>6
      <4>2. span' \subseteq {g} \/ Dead(joinedActive', joinedFallback', g)
        BY <3>3, <3>4, <4>1
      <4>3. QED
        BY <2>5, <3>6, <4>2 DEF SpanInv, g
    <3>7. QED
      BY <3>5, <3>6
  <2>6. QED
    BY <2>3, <2>4, <2>5
<1>4. QED
  BY <1>2, <1>3

-----------------------------------------------------------------------------
(* The reader.                                                             *)

ViewInv ==
    /\ vpc \in 0 .. 9
    /\ vpc >= 3 => view.context \in ContextMade
    /\ IF vpc >= 4 THEN view.joined \in JoinedMade ELSE view.joined = None
    /\ vpc >= 6 => view.context.package.source = view.joined
    /\ view \in [context : Generations \cup {None},
                 joined : (1 .. MaxJoined) \cup {None}, contexts : Seq(Generations)]

\* While the two markers have not been seen together, one of them is gone for good,
\* or the reader will see that it is not in place.
PairInv ==
    /\ vpc >= 8 => coexisted
    /\ vpc >= 4 /\ ~coexisted =>
          \/ Dead(joinedActive, joinedFallback, view.joined)
          \/ vpc <= 6 /\ Dead(context.active, context.fallback, view.context)
          \/ vpc <= 6 /\ context.fallback = view.context
          \/ /\ context.active = view.context /\ joinedFallback = view.joined
             /\ cpc \in {"idle", "snapshot"}

QuietInv ==
    vpc > 0 /\ ~disturbed =>
        /\ context.lock = "free" /\ joinedLock = "free"
        /\ vpc >= 3 => view.context = context.active
        /\ vpc >= 4 => view.joined = joinedActive
        /\ vpc = 5 => view.contexts = context.history

LEMMA StageIs ==
    /\ Len(ReaderStages) = 10
    /\ vpc = 0 => Stage = "context lock"
    /\ vpc = 1 => Stage = "joined lock"
    /\ vpc = 2 => Stage = "context"
    /\ vpc = 3 => Stage = "joined"
    /\ vpc = 4 => Stage = "contexts"
    /\ vpc = 5 => Stage = "joineds"
    /\ vpc = 6 => Stage = "context again"
    /\ vpc = 7 => Stage = "joined again"
    /\ vpc = 8 => Stage = "context relock"
    /\ vpc = 9 => Stage = "joined relock"
<1>1. Len(ReaderStages) = 10
  BY DEF ReaderStages
<1>2. ReaderStages[1] = "context lock"
  BY DEF ReaderStages
<1>3. ReaderStages[2] = "joined lock"
  BY DEF ReaderStages
<1>4. ReaderStages[3] = "context"
  BY DEF ReaderStages
<1>5. ReaderStages[4] = "joined"
  BY DEF ReaderStages
<1>6. ReaderStages[5] = "contexts"
  BY DEF ReaderStages
<1>7. ReaderStages[6] = "joineds"
  BY DEF ReaderStages
<1>8. ReaderStages[7] = "context again"
  BY DEF ReaderStages
<1>9. ReaderStages[8] = "joined again"
  BY DEF ReaderStages
<1>10. ReaderStages[9] = "context relock"
  BY DEF ReaderStages
<1>11. ReaderStages[10] = "joined relock"
  BY DEF ReaderStages
<1>12. /\ vpc = 0 => vpc + 1 = 1
       /\ vpc = 1 => vpc + 1 = 2
       /\ vpc = 2 => vpc + 1 = 3
       /\ vpc = 3 => vpc + 1 = 4
       /\ vpc = 4 => vpc + 1 = 5
       /\ vpc = 5 => vpc + 1 = 6
       /\ vpc = 6 => vpc + 1 = 7
       /\ vpc = 7 => vpc + 1 = 8
       /\ vpc = 8 => vpc + 1 = 9
       /\ vpc = 9 => vpc + 1 = 10
  OBVIOUS
<1>13. Stage = ReaderStages[vpc + 1]
  BY DEF Stage
<1>14. QED
  BY <1>1, <1>2, <1>3, <1>4, <1>5, <1>6, <1>7, <1>8, <1>9, <1>10, <1>11, <1>12, <1>13,
     ZenonT(30)

LEMMA ViewedIs ==
    /\ vpc \in {0, 1, 6, 7, 8, 9} => Viewed(Stage) = view
    /\ vpc = 2 => Viewed(Stage) = [view EXCEPT !.context = context.active]
    /\ vpc = 3 => Viewed(Stage) = [view EXCEPT !.joined = joinedActive]
    /\ vpc = 4 => Viewed(Stage) = [view EXCEPT !.contexts = context.history]
    /\ vpc = 5 => Viewed(Stage) = [view EXCEPT !.contexts = <<>>]
<1>1. ASSUME NEW x \in {"context lock", "joined lock", "context again", "joined again",
                         "context relock", "joined relock"}
      PROVE  Viewed(x) = view
  BY DEF Viewed
<1>2. /\ Viewed("context") = [view EXCEPT !.context = context.active]
      /\ Viewed("joined") = [view EXCEPT !.joined = joinedActive]
      /\ Viewed("contexts") = [view EXCEPT !.contexts = context.history]
      /\ Viewed("joineds") = [view EXCEPT !.contexts = <<>>]
  BY DEF Viewed
<1>3. CASE vpc \in {0, 1, 6, 7, 8, 9}
  BY <1>1, <1>3, StageIs, ZenonT(30)
<1>4. CASE vpc \notin {0, 1, 6, 7, 8, 9}
  BY <1>2, <1>4, StageIs
<1>5. QED
  BY <1>3, <1>4

LEMMA AccessIs ==
    /\ vpc \in {0, 8} => (AccessHolds(Stage) <=> context.lock = "free")
    /\ vpc \in {1, 9} => (AccessHolds(Stage) <=> joinedLock = "free")
    /\ vpc = 2 => (AccessHolds(Stage) <=> context.active # None)
    /\ vpc = 3 => (AccessHolds(Stage) <=> joinedActive # None)
    /\ vpc = 4 => (AccessHolds(Stage) <=>
                      Scanned(context) /\ Latest(view.context, context.history))
    /\ vpc = 5 => (AccessHolds(Stage) <=>
                      /\ JoinedReplays(view.joined)
                      /\ ContextChainValid(view.contexts, joinedArchive)
                      /\ view.context.package.source = view.joined)
    /\ vpc = 6 => (AccessHolds(Stage) <=> context.active = view.context)
    /\ vpc = 7 => (AccessHolds(Stage) <=> joinedActive = view.joined)
<1>1. /\ AccessHolds("context lock") <=> context.lock = "free"
      /\ AccessHolds("context relock") <=> context.lock = "free"
      /\ AccessHolds("joined lock") <=> joinedLock = "free"
      /\ AccessHolds("joined relock") <=> joinedLock = "free"
  BY DEF AccessHolds
<1>2. /\ AccessHolds("context") <=> context.active # None
      /\ AccessHolds("joined") <=> joinedActive # None
      /\ AccessHolds("contexts") <=> Scanned(context) /\ Latest(view.context, context.history)
  BY DEF AccessHolds
<1>3. AccessHolds("joineds") <=>
         /\ JoinedReplays(view.joined)
         /\ ContextChainValid(view.contexts, joinedArchive)
         /\ view.context.package.source = view.joined
  BY DEF AccessHolds
<1>4. /\ AccessHolds("context again") <=> context.active = view.context
      /\ AccessHolds("joined again") <=> joinedActive = view.joined
  BY DEF AccessHolds
<1>5. QED
  BY <1>1, <1>2, <1>3, <1>4, StageIs

LEMMA ReaderMoves ==
    ASSUME vpc \in 0 .. 9, ReaderStep
    PROVE  \/ Returned
           \/ vpc \in {0, 1} /\ vpc' = vpc + 1 /\ view' = view
           \/ /\ vpc = 2 /\ vpc' = 3 /\ view' = [view EXCEPT !.context = context.active]
              /\ context.active # None
           \/ /\ vpc = 3 /\ vpc' = 4 /\ view' = [view EXCEPT !.joined = joinedActive]
              /\ joinedActive # None
           \/ /\ vpc = 4 /\ vpc' = 5
              /\ view' = [view EXCEPT !.contexts = context.history]
           \/ /\ vpc = 5 /\ vpc' = 6 /\ view' = [view EXCEPT !.contexts = <<>>]
              /\ view.context.package.source = view.joined
           \/ vpc = 6 /\ vpc' = 7 /\ view' = view /\ context.active = view.context
           \/ vpc = 7 /\ vpc' = 8 /\ view' = view /\ joinedActive = view.joined
           \/ vpc = 8 /\ vpc' = 9 /\ view' = view
<1>1. CASE Accepts \/ Refuses
  BY <1>1 DEF Accepts, Refuses
<1>2. CASE ReadsOn
  <2>1. vpc + 1 < 10 /\ AccessHolds(Stage) /\ vpc' = vpc + 1 /\ view' = Viewed(Stage)
    BY <1>2, StageIs DEF ReadsOn
  <2>2. CASE vpc \in {0, 1, 8}
    BY <2>1, <2>2, ViewedIs
  <2>3. CASE vpc = 2
    BY <2>1, <2>3, AccessIs, ViewedIs
  <2>4. CASE vpc = 3
    BY <2>1, <2>4, AccessIs, ViewedIs
  <2>5. CASE vpc = 4
    BY <2>1, <2>5, AccessIs, ViewedIs
  <2>6. CASE vpc = 5
    BY <2>1, <2>6, AccessIs, ViewedIs
  <2>7. CASE vpc = 6
    BY <2>1, <2>7, AccessIs, ViewedIs
  <2>8. CASE vpc = 7
    BY <2>1, <2>8, AccessIs, ViewedIs
  <2>9. QED
    BY <2>1, <2>2, <2>3, <2>4, <2>5, <2>6, <2>7, <2>8
<1>3. QED
  BY <1>1, <1>2 DEF ReaderStep

LEMMA ViewStep ==
    ASSUME CoreInv, ViewInv, [Next]_vars PROVE ViewInv'
<1> DEFINE Views == [context : Generations \cup {None},
                     joined : (1 .. MaxJoined) \cup {None}, contexts : Seq(Generations)]
<1>1. /\ JoinedMade \subseteq JoinedMade' /\ ContextMade \subseteq ContextMade'
      /\ vpc \in 0 .. 9 /\ view \in Views
  BY StepIsOf DEF ViewInv
<1>2. CASE ~ReaderStep
  BY <1>1, <1>2, StepIsOf DEF ViewInv
<1>3. CASE ReaderStep
  <2>1. JoinedMade \subseteq 1 .. MaxJoined /\ ContextMade \subseteq Generations
    BY JoinedMadeIs, ContextIs DEF CoreInv, JoinedInv
  <2>2. /\ joinedActive \in JoinedMade \cup {None}
        /\ context.active \in ContextMade \cup {None}
        /\ context.history \in Seq(Generations)
        /\ <<>> \in Seq(Generations)
    BY ContextIs DEF CoreInv, JoinedInv
  <2>3. CASE Returned
    BY <2>2, <2>3 DEF Returned, NoView, ViewInv
  <2>4. CASE vpc \in {0, 1, 6, 7, 8} /\ vpc' = vpc + 1 /\ view' = view
    BY <1>1, <2>4 DEF ViewInv
  <2>5. CASE /\ vpc = 2 /\ vpc' = 3 /\ view' = [view EXCEPT !.context = context.active]
             /\ context.active # None
    BY <1>1, <2>1, <2>2, <2>5 DEF ViewInv
  <2>6. CASE /\ vpc = 3 /\ vpc' = 4 /\ view' = [view EXCEPT !.joined = joinedActive]
             /\ joinedActive # None
    BY <1>1, <2>1, <2>2, <2>6 DEF ViewInv
  <2>7. CASE /\ vpc = 4 /\ vpc' = 5
             /\ view' = [view EXCEPT !.contexts = context.history]
    BY <1>1, <2>1, <2>2, <2>7 DEF ViewInv
  <2>8. CASE /\ vpc = 5 /\ vpc' = 6 /\ view' = [view EXCEPT !.contexts = <<>>]
             /\ view.context.package.source = view.joined
    <3>1. /\ view'.context = view.context /\ view'.joined = view.joined
          /\ view' \in Views
      BY <1>1, <2>2, <2>8
    <3>2. view.context \in ContextMade /\ view.joined \in JoinedMade
      BY <2>8 DEF ViewInv
    <3>3. QED
      BY <1>1, <2>8, <3>1, <3>2 DEF ViewInv
  <2>9. QED
    BY <1>1, <1>3, <2>3, <2>4, <2>5, <2>6, <2>7, <2>8, ReaderMoves
<1>4. QED
  BY <1>2, <1>3

LEMMA PairStep ==
    ASSUME CoreInv, ViewInv, PairInv, [Next]_vars PROVE PairInv'
<1>1. /\ failures \in Nat /\ JoinedInv /\ ContextInv /\ JobInv
      /\ JoinedInv' /\ ContextInv' /\ ViewInv'
  BY ContextAssumption, CoreStep, ViewStep DEF CoreInv
<1>2. CASE UNCHANGED vars
  BY <1>2 DEF vars, joinedVars, PairInv, Dead
<1>3. CASE Next /\ vpc' < 4
  BY <1>1, <1>3 DEF PairInv, ViewInv
<1>4. CASE Next /\ vpc' >= 4
  <2>1. /\ vpc' \in 4 .. 9 /\ vpc \in 0 .. 9
        /\ view'.joined # None
    <3>1. vpc' \in 0 .. 9 /\ view'.joined \in JoinedMade'
      BY <1>1, <1>4 DEF ViewInv
    <3>2. None \notin JoinedMade'
      BY <1>1, ContextAssumption DEF JoinedInv, JoinedMade
    <3>3. QED
      BY <1>4, <3>1, <3>2 DEF ViewInv
  <2>2. coexisted' = (coexisted \/ (context'.active = view'.context
                                    /\ joinedActive' = view'.joined))
    BY <1>4, <2>1 DEF Next, Ghosts
  <2>3. CASE coexisted'
    BY <2>3 DEF PairInv
  <2>4. CASE ~coexisted' /\ ReaderStep
    <3>1. UNCHANGED <<joinedActive, joinedFallback, context, cpc>>
      BY <2>4 DEF ReaderStep, runnerVars, joinedVars
    <3>2. ~coexisted /\ ~(context.active = view'.context /\ joinedActive = view'.joined)
      BY <2>2, <2>4, <3>1
    <3>3. CASE vpc = 3 /\ vpc' = 4 /\ view' = [view EXCEPT !.joined = joinedActive]
      <4>1. view'.joined = joinedActive
        BY <3>3 DEF ViewInv
      <4>2. \/ Dead(context'.active, context'.fallback, view'.context)
            \/ context'.fallback = view'.context
        BY <3>1, <3>2, <4>1 DEF Dead
      <4>3. QED
        BY <2>4, <3>3, <4>2 DEF PairInv
    <3>4. CASE /\ vpc \in {4, 5} /\ vpc' = vpc + 1
               /\ view'.joined = view.joined /\ view'.context = view.context
      BY <2>4, <3>1, <3>2, <3>4 DEF PairInv, Dead
    <3>5. CASE vpc = 6 /\ vpc' = 7 /\ view' = view /\ context.active = view.context
      <4>1. context.fallback # view.context
        <5>1. view.context # Settled /\ (context.fallback # Settled =>
                                           context.active # context.fallback)
          BY <1>1, <3>5, ContextIs DEF ViewInv, ContextInv
        <5>2. QED
          BY <3>5, <5>1
      <4>2. QED
        BY <2>4, <3>1, <3>2, <3>5, <4>1 DEF PairInv, Dead
    <3>6. CASE vpc = 7 /\ vpc' = 8 /\ view' = view /\ joinedActive = view.joined
      <4>1. joinedFallback # view.joined
        <5>1. view.joined # Settled /\ (joinedFallback # Settled =>
                                           joinedActive # joinedFallback)
          BY <1>1, <3>6, JoinedMadeIs DEF ViewInv, JoinedInv
        <5>2. QED
          BY <3>6, <5>1
      <4>2. QED
        BY <3>2, <3>6, <4>1 DEF PairInv, Dead
    <3>7. CASE vpc = 8
      BY <3>2, <3>7 DEF PairInv
    <3>8. \/ vpc = 3 /\ vpc' = 4 /\ view' = [view EXCEPT !.joined = joinedActive]
          \/ /\ vpc \in {4, 5} /\ vpc' = vpc + 1
             /\ view'.joined = view.joined /\ view'.context = view.context
          \/ vpc = 6 /\ vpc' = 7 /\ view' = view /\ context.active = view.context
          \/ vpc = 7 /\ vpc' = 8 /\ view' = view /\ joinedActive = view.joined
          \/ vpc = 8
      <4>1. ~Returned
        BY <2>1 DEF Returned
      <4>2. view \in [context : Generations \cup {None},
                       joined : (1 .. MaxJoined) \cup {None}, contexts : Seq(Generations)]
        BY DEF ViewInv
      <4>3. /\ view' = [view EXCEPT !.contexts = context.history]
                  => view'.joined = view.joined /\ view'.context = view.context
            /\ view' = [view EXCEPT !.contexts = <<>>]
                  => view'.joined = view.joined /\ view'.context = view.context
        BY <4>2
      <4>4. vpc' >= 4
        BY <2>1
      <4>5. QED
        BY <2>1, <2>4, <4>1, <4>3, <4>4, ReaderMoves
    <3>9. QED
      BY <3>3, <3>4, <3>5, <3>6, <3>7, <3>8
  <2>5. CASE ~coexisted' /\ ~ReaderStep
    <3>1. /\ vpc' = vpc /\ view' = view /\ vpc \in 4 .. 7 /\ ~coexisted
          /\ ~(context'.active = view.context /\ joinedActive' = view.joined)
      <4>1. vpc' = vpc /\ view' = view
        BY <2>5, StepIsOf
      <4>2. /\ ~coexisted
            /\ ~(context'.active = view'.context /\ joinedActive' = view'.joined)
        BY <2>2, <2>5
      <4>3. vpc \in 4 .. 7
        BY <2>1, <4>1, <4>2 DEF PairInv
      <4>4. QED
        BY <4>1, <4>2, <4>3
    <3>2. /\ view.context \in ContextMade /\ view.joined \in JoinedMade
          /\ None \notin ContextMade /\ Settled \notin ContextMade
          /\ None \notin JoinedMade /\ Settled \notin JoinedMade
      BY <1>1, <3>1, ContextIs, JoinedMadeIs DEF ViewInv, JoinedInv
    <3>3. \/ Dead(joinedActive, joinedFallback, view.joined)
          \/ vpc <= 6 /\ Dead(context.active, context.fallback, view.context)
          \/ vpc <= 6 /\ context.fallback = view.context
          \/ /\ context.active = view.context /\ joinedFallback = view.joined
             /\ cpc \in {"idle", "snapshot"}
      BY <3>1 DEF PairInv
    <3>4. CASE JoinedStep
      <4>1. UNCHANGED <<context, cpc>>
        BY <1>1, <3>4, JoinedMoves
      <4>2. /\ Dead(joinedActive, joinedFallback, view.joined)
               => Dead(joinedActive', joinedFallback', view.joined)
            /\ joinedFallback = view.joined =>
                  \/ joinedActive' = joinedActive /\ joinedFallback' = view.joined
                  \/ joinedActive' = view.joined
                  \/ Dead(joinedActive', joinedFallback', view.joined)
        BY <1>1, <3>1, <3>2, <3>4, JoinedDeadStays DEF Dead
      <4>3. QED
        BY <2>5, <3>1, <3>3, <4>1, <4>2 DEF PairInv, Dead
    <3>5. CASE RunnerStep
      <4>1. UNCHANGED <<joinedLock, joinedActive, joinedFallback>>
        BY <1>1, <3>5, ContextMoves DEF joinedVars
      <4>2. /\ Dead(context.active, context.fallback, view.context)
               => Dead(context'.active, context'.fallback, view.context)
            /\ context.fallback = view.context =>
                  \/ context'.active = context.active /\ context'.fallback = view.context
                  \/ /\ context'.active = view.context /\ context'.fallback = Settled
                     /\ cpc' = "idle"
                  \/ Dead(context'.active, context'.fallback, view.context)
        BY <1>1, <3>2, <3>5, ContextDeadStays DEF Dead
      <4>3. ASSUME context.active = view.context, joinedFallback = view.joined,
                   cpc \in {"idle", "snapshot"}
            PROVE  context'.active = view.context /\ cpc' \in {"idle", "snapshot"}
        <5>1. joinedLock # "free"
          BY <1>1, <3>2, <4>3 DEF JoinedInv
        <5>2. context \in Sources(ContextMade)
          BY <1>1 DEF ContextInv
        <5>3. CASE ContextCleared
          BY <4>3, <5>2, <5>3 DEF ContextCleared, runnerVars, Sources
        <5>4. CASE StartActivation \/ AccessJoined \/ CheckFails
          BY <4>3, <5>4 DEF StartActivation, AccessJoined, CheckFails, Leaving, To
        <5>5. QED
          BY <3>5, <4>3, <5>1, <5>3, <5>4 DEF RunnerStep, SnapshotLoaded,
             ContextBegins, ContextNormalizes, AuditHistoryChecked, HistoryChecked,
             ContextCommits, ActivatedChecked, ContextArchives, ContextFinishes,
             ContextBreaks, Working
      <4>4. QED
        BY <2>5, <3>1, <3>3, <4>1, <4>2, <4>3 DEF PairInv, Dead
    <3>6. QED
      BY <1>4, <2>5, <3>4, <3>5 DEF Next
  <2>6. QED
    BY <2>3, <2>4, <2>5
<1>5. QED
  BY <1>2, <1>3, <1>4, <1>1 DEF ViewInv

LEMMA QuietStep ==
    ASSUME CoreInv, ViewInv, QuietInv, [Next]_vars PROVE QuietInv'
<1>1. /\ failures \in Nat /\ JoinedInv /\ ContextInv /\ JobInv
      /\ vpc \in 0 .. 9
  BY ContextAssumption DEF CoreInv, ViewInv
<1>2. CASE UNCHANGED vars
  BY <1>2 DEF vars, joinedVars, QuietInv
<1>3. CASE Next /\ ~(vpc' > 0 /\ ~disturbed')
  BY <1>3 DEF QuietInv
<1>4. CASE Next /\ vpc' > 0 /\ ~disturbed'
  <2>1. /\ context'.lock = "free" /\ joinedLock' = "free" /\ ~disturbed
    BY <1>4 DEF Next, Ghosts
  <2>2. CASE vpc = 0
    <3>1. vpc' \in {0, 1}
      <4>1. ReaderStep => vpc' \in {0, 1}
        BY <1>1, <2>2, ReaderMoves DEF Returned
      <4>2. QED
        BY <2>2, <4>1, StepIsOf
    <3>2. QED
      BY <2>1, <3>1 DEF QuietInv
  <2>3. CASE vpc > 0
    <3>1. /\ context.lock = "free" /\ joinedLock = "free"
          /\ vpc >= 3 => view.context = context.active
          /\ vpc >= 4 => view.joined = joinedActive
          /\ vpc = 5 => view.contexts = context.history
      BY <2>1, <2>3 DEF QuietInv
    <3>2. joinedActive' = joinedActive
      <4>1. CASE JoinedStep
        <5>1. JoinedBegins
          BY <3>1, <4>1 DEF JoinedStep, JoinedBegins, JoinedArchives, JoinedActivates,
             JoinedReleases, JoinedWithdraws, JoinedBreaks, JoinedCleared
        <5>2. QED
          BY <5>1 DEF JoinedBegins
      <4>2. QED
        BY <4>1, StepIsOf DEF joinedVars
    <3>3. context' = context
      <4>1. CASE RunnerStep /\ \E g : g \in ContextMade
        BY <1>1, <2>1, <3>1, <4>1, ContextDeadStays
      <4>2. CASE RunnerStep /\ \A g : g \notin ContextMade
        BY <1>1, <2>1, <3>1, <4>2 DEF RunnerStep, StartActivation, AccessJoined,
           SnapshotLoaded, ContextBegins, ContextNormalizes, AuditHistoryChecked,
           HistoryChecked, ContextCommits, ActivatedChecked, CheckFails,
           ContextArchives, ContextFinishes, ContextBreaks, ContextCleared, ContextInv,
           Working, Begun, Sources
      <4>3. QED
        BY <4>1, <4>2, StepIsOf
    <3>4. CASE ~ReaderStep
      <4>1. vpc' = vpc /\ view' = view
        BY <3>4, StepIsOf
      <4>2. QED
        BY <2>1, <3>1, <3>2, <3>3, <4>1 DEF QuietInv
    <3>5. CASE ReaderStep
      <4>1. view \in [context : Generations \cup {None},
                      joined : (1 .. MaxJoined) \cup {None}, contexts : Seq(Generations)]
        BY DEF ViewInv
      <4>2. CASE vpc \in {1, 6, 7, 8} /\ vpc' = vpc + 1 /\ view' = view
        BY <2>1, <3>1, <3>2, <3>3, <4>2 DEF QuietInv
      <4>3. CASE vpc = 2 /\ vpc' = 3 /\ view' = [view EXCEPT !.context = context.active]
        BY <2>1, <3>1, <3>2, <3>3, <4>1, <4>3 DEF QuietInv
      <4>4. CASE vpc = 3 /\ vpc' = 4 /\ view' = [view EXCEPT !.joined = joinedActive]
        BY <2>1, <3>1, <3>2, <3>3, <4>1, <4>4 DEF QuietInv
      <4>5. CASE /\ vpc = 4 /\ vpc' = 5
                 /\ view' = [view EXCEPT !.contexts = context.history]
        BY <2>1, <3>1, <3>2, <3>3, <4>1, <4>5 DEF QuietInv
      <4>6. CASE vpc = 5 /\ vpc' = 6 /\ view' = [view EXCEPT !.contexts = <<>>]
        BY <2>1, <3>1, <3>2, <3>3, <4>1, <4>6 DEF QuietInv
      <4>7. ~Returned
        BY <1>4 DEF Returned
      <4>8. QED
        BY <1>1, <2>3, <3>5, <4>2, <4>3, <4>4, <4>5, <4>6, <4>7, ReaderMoves
    <3>6. QED
      BY <3>4, <3>5
  <2>4. QED
    BY <1>1, <2>2, <2>3
<1>5. QED
  BY <1>2, <1>3, <1>4

-----------------------------------------------------------------------------
(* The theorems.                                                           *)

IInv == CoreInv /\ ReplayInv /\ SpanInv /\ ViewInv /\ PairInv /\ QuietInv

LEMMA IInvInit ==
    ASSUME Init PROVE IInv
<1>1. /\ joinedArchive = {} /\ context = NewSource /\ cpc = "idle" /\ look = "none"
      /\ job = NoJob /\ vpc = 0 /\ view = NoView /\ span = {}
  BY DEF Init, Joined!Init
<1>2. ReplayInv
  <2>1. NewSource.history = <<>> /\ Begun(NewSource).history = <<>>
    BY DEF NewSource, Begun, Members
  <2>2. \A S : ContextChainValid(<<>>, S)
    BY DEF ContextChainValid
  <2>3. QED
    BY <1>1, <2>1, <2>2 DEF ReplayInv, ContextChainReplays
<1>3. SpanInv
  BY <1>1 DEF SpanInv
<1>4. ViewInv /\ PairInv /\ QuietInv
  BY <1>1 DEF ViewInv, PairInv, QuietInv, NoView
<1>5. QED
  BY <1>2, <1>3, <1>4, CoreInit DEF IInv

LEMMA IInvStep ==
    ASSUME IInv, [Next]_vars PROVE IInv'
BY CoreStep, ReplayStep, SpanStep, ViewStep, PairStep, QuietStep DEF IInv

LEMMA IInvHolds == Spec => []IInv
<1>1. Init => IInv
  BY IInvInit
<1>2. IInv /\ [Next]_vars => IInv'
  BY IInvStep
<1>3. QED
  BY <1>1, <1>2, PTL DEF Spec

\* Type correctness: the sources, counters and stages stay in their domains, and the
\* context lock is held exactly in the stages of run_ingestion.
THEOREM ContextTypes == Spec => []TypeOK
<1>1. IInv => TypeOK
  <2>1. ASSUME IInv PROVE TypeOK
    <3>1. JoinedInv /\ ContextInv /\ JobInv /\ ViewInv /\ failures \in 0 .. MaxFailures
      BY <2>1 DEF IInv, CoreInv
    <3>2. /\ joinedLock \in {"free", "held", "stale"}
          /\ joinedActive \in (1 .. MaxJoined) \cup {None}
          /\ joinedFallback \in (1 .. MaxJoined) \cup {None, Settled}
          /\ joinedArchive \subseteq 1 .. MaxJoined
          /\ replaced \in [1 .. MaxJoined -> (1 .. MaxJoined) \cup {None}]
          /\ joinedFailed \in Nat /\ joinedClutter \in BOOLEAN
          /\ joinedRuns \in 0 .. MaxJoined
      BY <3>1, JoinedMadeIs DEF JoinedInv
    <3>3. /\ context.lock \in {"free", "held", "stale"}
          /\ context.active \in Generations \cup {None}
          /\ context.fallback \in Generations \cup {None, Settled}
          /\ context.history \in Seq(Generations)
          /\ context.failed \in Nat /\ context.clutter \in BOOLEAN
          /\ contextRuns \in 0 .. MaxContext
          /\ (context.lock = "held") = (cpc \in Working)
          /\ (context.fallback # Settled) = (cpc \in {"activated", "receipt", "archived"})
      BY <3>1, ContextIs DEF ContextInv, Sources, Marked
    <3>4. look \in {"none", "lock", "read", "scan", "reread", "relock"}
      BY <3>1 DEF JobInv, Steps
    <3>5. vpc \in 0 .. Len(ReaderStages) - 1
      <4>1. Len(ReaderStages) = 10
        BY StageIs, Zenon
      <4>2. QED
        BY <3>1, <4>1 DEF ViewInv
    <3>6. QED
      BY <3>1, <3>2, <3>3, <3>4, <3>5 DEF TypeOK
  <2>2. QED
    BY <2>1
<1>2. QED
  BY <1>1, IInvHolds, PTL

\* Whatever the joined source does between the accesses of the callbacks, evidence is
\* minted only for an activation during which, from the check before the marker to the
\* check after it, no joined generation but that of the package was the settled one;
\* and that one is in the joined history.
THEOREM EvidenceAlwaysSpans == Spec => []EvidenceSpansCommit
<1>1. IInv => EvidenceSpansCommit
  BY DEF IInv, CoreInv, SpanInv, JobInv, Working, Good, EvidenceSpansCommit
<1>2. QED
  BY <1>1, IInvHolds, PTL

\* The context history can be replayed at all times, whichever entry points wrote it,
\* and whichever runs were killed or rolled back.
THEOREM ContextsReplay == Spec => []ContextChainReplays
<1>1. IInv => ContextChainReplays
  BY DEF IInv, ReplayInv
<1>2. QED
  BY <1>1, IInvHolds, PTL

\* The reader holds no lock, and yet what it accepts was in place on both sides at once.
THEOREM PairsCoexisted == Spec => AcceptedPairCoexisted
<1>1. IInv => [Accepts => /\ coexisted
                        /\ view.context.package.source = view.joined]_vars
  <2>1. ASSUME IInv, Accepts
        PROVE  coexisted /\ view.context.package.source = view.joined
    <3>1. vpc + 1 = 10 /\ vpc \in 0 .. 9
      BY <2>1, StageIs DEF Accepts, IInv, ViewInv
    <3>2. vpc >= 8
      BY <3>1
    <3>3. QED
      BY <2>1, <3>2 DEF IInv, ViewInv, PairInv
  <2>2. QED
    BY <2>1
<1>2. QED
  BY <1>1, IInvHolds, PTL DEF AcceptedPairCoexisted

\* An active context that nothing spoilt is the latest success of its history.
LEMMA UnspoiltIsLatest ==
    ASSUME ContextInv, failures \in Nat, context.lock = "free", context.active # None,
           ~ContextSpoilt
    PROVE  Scanned(context) /\ Latest(context.active, context.history)
<1> DEFINE h == context.history
           g == context.active
<1>1. /\ g \in Generations /\ h \in Seq(Generations) /\ context.failed \in Nat
      /\ context.fallback = Settled /\ cpc # "archived" /\ context.clutter \in BOOLEAN
      /\ MaxReceipts \in Nat /\ MaxSuccesses \in Nat /\ Len(h) \in Nat
      /\ DOMAIN h = 1 .. Len(h) /\ Members(h) \subseteq ContextMade
      /\ ContextMade \subseteq Generations
  BY ContextIs, ContextAssumption DEF ContextInv, Working, Marked
<1>2. h # <<>> /\ h[Len(h)] = g /\ ~context.clutter
  <2>1. CASE failures = 0
    BY <1>1, <2>1 DEF ContextInv, Ends, Base
  <2>2. CASE failures > 0
    BY <1>1, <2>2 DEF ContextSpoilt
  <2>3. QED
    BY <2>1, <2>2
<1>3. Scanned(context) /\ Len(h) <= MaxSuccesses
  BY <1>1, <1>2 DEF ContextSpoilt, Scanned
<1>4. ASSUME NEW i \in 1 .. Len(h) - 1
      PROVE  ContextTime[h[i].id] < ContextTime[g.id]
  <2>1. /\ i \in DOMAIN h /\ Len(h) \in DOMAIN h /\ i # Len(h)
    BY <1>1
  <2>2. h[i] \in Members(h) /\ h[i] \in Generations
    BY <1>1, <2>1 DEF Members
  <2>3. /\ h[i].id \in 1 .. MaxContext /\ g.id \in 1 .. MaxContext
        /\ h[i].id <= g.id
    <3>1. h[i].id <= g.id
      BY <1>2, <2>2 DEF ContextInv
    <3>2. QED
      BY <1>1, <2>2, <3>1 DEF Generations
  <2>4. ContextTime[h[i].id] # ContextTime[g.id]
    BY <1>2, <2>1 DEF ContextSpoilt
  <2>5. /\ ContextTime[h[i].id] \in Nat /\ ContextTime[g.id] \in Nat
        /\ h[i].id < g.id => ContextTime[h[i].id] <= ContextTime[g.id]
    BY <2>3, ClockAssumption
  <2>6. QED
    BY <2>3, <2>4, <2>5, ContextAssumption
<1>5. QED
  BY <1>2, <1>3, <1>4 DEF Latest

\* A reader that no lock came in the way of does not refuse for any other reason than
\* those it has to refuse for: nothing active, a store that a broken run, a full
\* history or equal times have spoilt, or the joined source ahead of the context.
THEOREM RefusalsHaveCauses == Spec => RefusalHasCause
<1> DEFINE Cause ==
       \/ context.active = None \/ joinedActive = None
       \/ JoinedSpoilt \/ ContextSpoilt
       \/ context.active.package.source # joinedActive
<1>1. ASSUME IInv, Refuses, ~disturbed PROVE Cause
  <2>1. /\ vpc \in 1 .. 9 /\ ~AccessHolds(Stage)
    BY <1>1 DEF Refuses, IInv, ViewInv
  <2>2. /\ context.lock = "free" /\ joinedLock = "free"
        /\ vpc >= 3 => view.context = context.active
        /\ vpc >= 4 => view.joined = joinedActive
        /\ vpc = 5 => view.contexts = context.history
    BY <1>1, <2>1 DEF IInv, QuietInv
  <2>3. JoinedInv /\ ContextInv /\ DerivedInv /\ failures \in Nat
    BY <1>1, ContextAssumption DEF IInv, CoreInv
  <2>4. CASE vpc \in {1, 8, 9}
    BY <2>1, <2>2, <2>4, AccessIs
  <2>5. CASE vpc \in {2, 3}
    BY <2>1, <2>5, AccessIs
  <2>6. CASE vpc = 4
    <3>1. ~(Scanned(context) /\ Latest(context.active, context.history))
      BY <2>1, <2>2, <2>6, AccessIs
    <3>2. QED
      BY <2>2, <2>3, <3>1, UnspoiltIsLatest
  <2>7. CASE vpc = 5
    <3>1. SUFFICES ASSUME ~Cause PROVE FALSE
      OBVIOUS
    <3>2. ContextChainValid(view.contexts, joinedArchive)
      BY <1>1, <2>2, <2>7 DEF IInv, ReplayInv
    <3>3. JoinedReplays(joinedActive)
      <4>1. Good(joinedActive, joinedArchive, replaced)
        BY <2>3, <3>1 DEF DerivedInv
      <4>2. QED
        BY <2>2, <2>3, <3>1, <4>1, GoodIsReplayed
    <3>4. QED
      BY <2>1, <2>2, <2>7, <3>1, <3>2, <3>3, AccessIs
  <2>8. CASE vpc \in {6, 7}
    BY <2>1, <2>2, <2>8, AccessIs
  <2>9. QED
    BY <2>1, <2>4, <2>5, <2>6, <2>7, <2>8
<1>2. IInv => [(Refuses /\ ~disturbed) => Cause]_vars
  BY <1>1
<1>3. QED
  BY <1>2, IInvHolds, PTL DEF RefusalHasCause
=============================================================================
