----------------------------- MODULE HostProofs -----------------------------
(* Theorems about Engine, Launch, JobQueue and LifecycleProbe, for every     *)
(* number of offers, weeks, releases, configurations and jobs and every life *)
(* of a subscription; and about MCHost, which runs them beside Collection    *)
(* and LeafletRead.                                                          *)
EXTENDS MCHost, CollectionProofs, LeafletReadProofs, FiniteSetTheorems, SequenceTheorems, TLAPS

(* The row that is reset by one process is completed by none but that one,   *)
(* from a matrix of the same offers.                                         *)
RowTrue ==
  /\ row = [by |-> row.by, of |-> row.of, library |-> row.library, week |-> row.week,
            complete |-> row.complete, measured |-> row.measured]
  /\ row.complete => row.measured = row.of

(* What is signed comes from a smoke that went through, or from none.        *)
SignedProven ==
  /\ marker.config \in proven \cup {0} /\ activation.config \in proven \cup {0}

(* A smoke that runs has read the config it proves.                          *)
ReadWhenBegun == proving = Unproven \/ proving.config \in 1..Configs

LaunchInv == EngineTypeOK /\ LaunchTypeOK /\ SignedProven /\ ReadWhenBegun

-----------------------------------------------------------------------------
(* The engine                                                                *)

LEMMA RowReset == ASSUME NEW r \in Runners, Starts(r) PROVE RowTrue'
  BY DEF Starts, RowTrue

LEMMA RowFinished == ASSUME RowTrue, NEW r \in Runners, Finishes(r) PROVE RowTrue'
<1>1. CASE Mine(r)
  <2>1. row' = [by |-> row.by, of |-> row.of, library |-> matrix[r].library, week |-> row.week,
                complete |-> TRUE, measured |-> matrix[r].of]
    BY <1>1 DEF Finishes, RowTrue
  <2>2. row.of = matrix[r].of
    BY <1>1 DEF Mine
  <2>3. QED
    BY <2>1, <2>2 DEF RowTrue
<1>2. CASE ~Mine(r)
  BY <1>2 DEF Finishes, RowTrue
<1>3. QED
  BY <1>1, <1>2

LEMMA RowInit == EngineInit => RowTrue
  BY DEF EngineInit, NoRow, RowTrue

LEMMA RowStays == RowTrue /\ [EngineNext]_engineVars => RowTrue'
<1> SUFFICES ASSUME RowTrue, [EngineNext]_engineVars PROVE RowTrue'
  OBVIOUS
<1>1. ASSUME UNCHANGED row PROVE RowTrue'
  BY <1>1 DEF RowTrue
<1>2. CASE WarmStarts \/ Measures
  BY <1>2, RowReset DEF WarmStarts, Measures, Runners
<1>3. CASE WarmFinishes \/ Measured
  BY <1>3, RowFinished DEF WarmFinishes, Measured, Runners
<1>4. CASE Begins \/ ToShadow \/ ShadowUp \/ ShadowCheck \/ ToOn \/ OnUp \/ Smoke \/ OnCheck
           \/ RollsBack \/ OffUp \/ Fails \/ RolloutDies \/ Watch
  BY <1>1, <1>4 DEF Begins, ToShadow, ShadowUp, ShadowCheck, ToOn, OnUp, Smoke, OnCheck, RollsBack,
                    OffUp, Fails, RolloutDies, Watch, SetMode, Restarts, evidence
<1>5. CASE Collects \/ NewWeek \/ NewRelease \/ SmokeAges \/ ServerRestarts
           \/ \E s \in Switches : Flips(s)
  BY <1>1, <1>5 DEF Collects, NewWeek, NewRelease, SmokeAges, ServerRestarts, Flips, evidence
<1>6. CASE UNCHANGED engineVars
  BY <1>1, <1>6 DEF engineVars, evidence
<1>7. QED
  BY <1>2, <1>3, <1>4, <1>5, <1>6 DEF EngineNext, EngineRuns, Rollout

(* The types of the engine's variables, and a library no newer than code.    *)
LibraryHeld == library <= release
EngineInv == EngineTypeOK /\ LibraryHeld

Row    == [by : Runners \cup {"nobody"}, of : 0..MaxOffers, library : 0..Releases, week : 0..Weeks,
           complete : BOOLEAN, measured : 0..MaxOffers]
Sheet  == [of : 0..MaxOffers, library : 0..Releases, week : 0..Weeks]
Seen   == [ok : BOOLEAN, release : 0..Releases, week : 0..Weeks, fresh : BOOLEAN]
RolloutSteps ==
  {"none", "begin", "to_shadow", "shadow_up", "matrix", "measuring", "shadow_check",
   "to_on", "on_up", "smoke", "on_check", "undo", "off_up"}

LEMMA TypesStay == EngineInv /\ [EngineNext]_engineVars => EngineInv'
<1> SUFFICES ASSUME EngineInv, [EngineNext]_engineVars PROVE EngineInv'
  OBVIOUS
<1> USE EngineAssumption
<1>1. /\ offers' \in 0..MaxOffers /\ made' \in 0..MaxOffers /\ week' \in 1..Weeks
      /\ release' \in 1..Releases /\ library' \in 1..Releases /\ library' <= release'
  <2>1. /\ offers \in 0..MaxOffers /\ made \in 0..MaxOffers /\ week \in 1..Weeks
        /\ release \in 1..Releases /\ library \in 1..Releases /\ library <= release
    BY DEF EngineInv, EngineTypeOK, LibraryHeld
  <2>2. CASE Collects
    BY <2>1, <2>2 DEF Collects, code
  <2>3. CASE NewWeek
    BY <2>1, <2>3 DEF NewWeek, code
  <2>4. CASE NewRelease
    BY <2>1, <2>4 DEF NewRelease, ground
  <2>5. CASE UNCHANGED <<ground, code>>
    BY <2>1, <2>5 DEF ground, code
  <2>6. QED
    BY <2>2, <2>3, <2>4, <2>5 DEF EngineNext, EngineRuns, Rollout, Begins, ToShadow, ShadowUp, Measures,
       Measured, ShadowCheck, ToOn, OnUp, Smoke, OnCheck, RollsBack, OffUp, Fails, RolloutDies, WarmStarts,
       WarmFinishes, Watch, SmokeAges, ServerRestarts, Flips, SetMode, Restarts, engineVars
<1>2. flag' \in Modes /\ mode' \in Modes /\ switched' \subseteq Switches
  BY DEF EngineInv, EngineTypeOK, EngineNext, EngineRuns, Rollout, Begins, ToShadow, ShadowUp, Measures,
     Measured, ShadowCheck, ToOn, OnUp, Smoke, OnCheck, RollsBack, OffUp, Fails, RolloutDies, WarmStarts,
     WarmFinishes, Watch, Collects, NewWeek, NewRelease, SmokeAges, ServerRestarts, Flips, SetMode, Restarts,
     engine, engineVars, Modes
<1>3. row' \in Row /\ matrix' \in [Runners -> Sheet]
  <2>1. row \in Row /\ matrix \in [Runners -> Sheet] /\ NoMatrix \in Sheet
    BY DEF EngineInv, EngineTypeOK, Row, Sheet, NoMatrix
  <2>2. /\ offers \in 0..MaxOffers /\ week \in 0..Weeks /\ library \in 0..Releases
    BY DEF EngineInv, EngineTypeOK
  <2>3. ASSUME NEW r \in Runners, Starts(r) PROVE row' \in Row /\ matrix' \in [Runners -> Sheet]
    BY <2>1, <2>2, <2>3 DEF Starts, Row, Sheet
  <2>4. ASSUME NEW r \in Runners, Finishes(r) PROVE row' \in Row /\ matrix' \in [Runners -> Sheet]
    BY <2>1, <2>2, <2>4 DEF Finishes, Row, Sheet
  <2>5. CASE UNCHANGED row /\ matrix' = [matrix EXCEPT !["rollout"] = NoMatrix]
    BY <2>1, <2>5
  <2>6. CASE UNCHANGED <<row, matrix>>
    BY <2>1, <2>6
  <2>7. CASE WarmStarts \/ Measures
    BY <2>3, <2>7 DEF WarmStarts, Measures, Runners
  <2>8. CASE WarmFinishes \/ Measured
    BY <2>4, <2>8 DEF WarmFinishes, Measured, Runners
  <2>9. CASE Fails \/ RolloutDies
    BY <2>5, <2>9 DEF Fails, RolloutDies
  <2>10. QED
    BY <2>6, <2>7, <2>8, <2>9 DEF EngineNext, EngineRuns, Rollout, Begins, ToShadow, ShadowUp, ShadowCheck,
       ToOn, OnUp, Smoke, OnCheck, RollsBack, OffUp, Watch, Collects, NewWeek, NewRelease, SmokeAges,
       ServerRestarts, Flips, SetMode, Restarts, evidence, engineVars
<1>4. smoke' \in Seen
  <2>1. smoke \in Seen /\ NoSmoke \in Seen
    BY DEF EngineInv, EngineTypeOK, Seen, NoSmoke
  <2>2. ASSUME NEW well \in BOOLEAN, Smokes(well) PROVE smoke' \in Seen
    BY <2>2 DEF Smokes, Seen, EngineInv, EngineTypeOK
  <2>3. CASE Smoke \/ Watch
    BY <2>1, <2>2, <2>3 DEF Smoke, Watch
  <2>4. CASE SmokeAges
    BY <2>1, <2>4 DEF SmokeAges, Seen
  <2>5. CASE RolloutDies
    BY <2>1, <2>5 DEF RolloutDies
  <2>6. QED
    BY <2>1, <2>3, <2>4, <2>5 DEF EngineNext, EngineRuns, Rollout, Begins, ToShadow, ShadowUp, Measures, Measured,
       ShadowCheck, ToOn, OnUp, OnCheck, RollsBack, OffUp, Fails, WarmStarts, WarmFinishes, Collects, NewWeek,
       NewRelease, ServerRestarts, Flips, SetMode, Restarts, engineVars
<1>5. rollout' \in RolloutSteps
  BY DEF EngineInv, EngineTypeOK, RolloutSteps, EngineNext, EngineRuns, Rollout, Begins, ToShadow, ShadowUp, Measures,
     Measured, ShadowCheck, ToOn, OnUp, Smoke, OnCheck, RollsBack, OffUp, Fails, RolloutDies, WarmStarts,
     WarmFinishes, Watch, Collects, NewWeek, NewRelease, SmokeAges, ServerRestarts, Flips, SetMode, Restarts,
     Gated, Goes, engineVars
<1>6. warmed' \in 0..MaxWarm /\ slips' \in 0..MaxSlips
  <2>1. warmed \in 0..MaxWarm /\ slips \in 0..MaxSlips
    BY DEF EngineInv, EngineTypeOK
  <2>2. CASE Slip /\ UNCHANGED warmed
    BY <2>1, <2>2 DEF Slip
  <2>3. CASE WarmStarts
    BY <2>1, <2>3 DEF WarmStarts
  <2>4. CASE UNCHANGED <<warmed, slips>>
    BY <2>1, <2>4
  <2>5. QED
    BY <2>2, <2>3, <2>4 DEF EngineNext, EngineRuns, Rollout, Begins, ToShadow, ShadowUp, Measures,
       Measured, ShadowCheck, ToOn, OnUp, Smoke, OnCheck, RollsBack, OffUp, Fails, RolloutDies, WarmFinishes,
       Watch, Collects, NewWeek, NewRelease, SmokeAges, ServerRestarts, Flips, SetMode, Restarts, engineVars
<1>7. QED
  BY <1>1, <1>2, <1>3, <1>4, <1>5, <1>6 DEF EngineInv, EngineTypeOK, LibraryHeld, Row, Sheet, Seen, RolloutSteps

-----------------------------------------------------------------------------
(* The checkout                                                              *)

LEMMA LaunchAtFirst == LaunchInit => LaunchTypeOK /\ SignedProven /\ ReadWhenBegun
  BY LaunchAssumption, EngineAssumption
     DEF LaunchInit, EngineInit, LaunchTypeOK, SignedProven, ReadWhenBegun, Unproven

LEMMA LaunchOn ==
  LaunchInv /\ [LaunchNext]_<<engineVars, launchVars>> => (LaunchTypeOK /\ SignedProven /\ ReadWhenBegun)'
<1> SUFFICES ASSUME LaunchInv, [LaunchNext]_<<engineVars, launchVars>>
             PROVE  (LaunchTypeOK /\ SignedProven /\ ReadWhenBegun)'
  OBVIOUS
<1>1. CASE ProveBegins
  BY <1>1 DEF ProveBegins, LaunchInv, LaunchTypeOK, SignedProven, EngineTypeOK, ReadWhenBegun
<1>2. CASE ProveEnds
  <2>1. proving.config \in 1..Configs /\ proving' = Unproven
    BY <1>2 DEF ProveEnds, LaunchInv, ReadWhenBegun
  <2>2. proving.config \in proven' \cup {0} \/ UNCHANGED <<marker, proven>>
    BY <1>2 DEF ProveEnds
  <2>3. LaunchTypeOK'
    <3>1. Unproven \in [release : 0..Releases, config : 0..Configs, fresh : BOOLEAN]
      BY LaunchAssumption, EngineAssumption DEF Unproven
    <3>2. QED
      BY <1>2, <2>1, <3>1 DEF ProveEnds, LaunchInv, LaunchTypeOK
  <2>4. SignedProven'
    BY <1>2 DEF ProveEnds, LaunchInv, SignedProven
  <2>5. QED
    BY <2>1, <2>3, <2>4 DEF ReadWhenBegun, Unproven
<1>3. CASE Authorizes
  BY <1>3 DEF Authorizes, LaunchInv, LaunchTypeOK, SignedProven, ReadWhenBegun, Unproven
<1>4. CASE Reconfigures
  BY <1>4 DEF Reconfigures, LaunchInv, LaunchTypeOK, SignedProven, ReadWhenBegun, Unproven
<1>5. CASE MarkerAges
  BY <1>5 DEF MarkerAges, LaunchInv, LaunchTypeOK, SignedProven, ReadWhenBegun, Unproven
<1>6. CASE UNCHANGED launchVars
  BY <1>6 DEF launchVars, LaunchInv, LaunchTypeOK, SignedProven, ReadWhenBegun, Unproven
<1>7. QED
  BY <1>1, <1>2, <1>3, <1>4, <1>5, <1>6 DEF LaunchNext, Launches

-----------------------------------------------------------------------------
(* The engine's and the checkout's theorems                                  *)

LEMMA EngineAtFirst == EngineInit => EngineInv
  BY EngineAssumption DEF EngineInit, EngineInv, EngineTypeOK, LibraryHeld, NoRow, NoMatrix, NoSmoke, Modes

LEMMA EngineStep == [LaunchNext]_<<engineVars, launchVars>> => [EngineNext]_engineVars
  BY DEF LaunchNext

(* The rollout, the watchdog and the precompute keep the engine's types.     *)
THEOREM EngineTypes == EngineSpec => []EngineTypeOK
<1>1. EngineInv => EngineTypeOK
  BY DEF EngineInv
<1>2. QED
  BY <1>1, EngineAtFirst, TypesStay, PTL DEF EngineSpec

LEMMA RowCounts == RowTrue => EvidenceMatches
  BY DEF RowTrue, EvidenceMatches, Eligible

(* An engine that is called ready was measured on the very offers people     *)
(* plan from, whichever processes measured meanwhile.                        *)
THEOREM EvidenceMatchesHolds == EngineSpec => []EvidenceMatches
  BY RowCounts, RowInit, RowStays, PTL DEF EngineSpec

LEMMA BothAtFirst == LaunchInit => LaunchInv /\ EngineInv
<1>1. LaunchInit => EngineInv
  BY EngineAtFirst DEF LaunchInit
<1>2. QED
  BY <1>1, LaunchAtFirst DEF LaunchInv, EngineInv

LEMMA BothStay == LaunchInv /\ EngineInv /\ [LaunchNext]_<<engineVars, launchVars>> => LaunchInv' /\ EngineInv'
<1>1. EngineInv /\ [LaunchNext]_<<engineVars, launchVars>> => EngineInv'
  BY EngineStep, TypesStay
<1>2. QED
  BY <1>1, LaunchOn DEF LaunchInv, EngineInv

(* The composition keeps the types of both.                                  *)
THEOREM LaunchTypes == LaunchSpec => [](EngineTypeOK /\ LaunchTypeOK)
<1>1. LaunchInv => EngineTypeOK /\ LaunchTypeOK
  BY DEF LaunchInv
<1>2. QED
  BY <1>1, BothAtFirst, BothStay, PTL DEF LaunchSpec

LEMMA OpenSigned == LaunchInv => OpenIsProven
<1> SUFFICES ASSUME LaunchInv, Open PROVE config \in proven
  BY DEF OpenIsProven
<1>1. activation.config = config /\ config # 0
  BY LaunchAssumption DEF Open, Evidence, LaunchInv, LaunchTypeOK
<1>2. QED
  BY <1>1 DEF LaunchInv, SignedProven

(* Nobody can pay with stores, keys and secrets that no full smoke went      *)
(* through with, however the owner proves, signs, reconfigures and switches. *)
THEOREM OpenIsProvenHolds == LaunchSpec => []OpenIsProven
  BY OpenSigned, BothAtFirst, BothStay, PTL DEF LaunchSpec

-----------------------------------------------------------------------------
(* The queue                                                                 *)

(* A job of the table is tried no more often than it may be, and the worker  *)
(* has at most one in hand.                                                  *)
QueueInv == QueueTypeOK /\ \A i, j \in working : i = j

LEMMA JobEnds ==
  ASSUME NEW r \in Job, NEW state \in {"queued", "failed"}
  PROVE  Ends(r, state) \in Job /\ Ends(r, state).attempts = r.attempts
  BY DEF Ends, Job

LEMMA JobRecovered ==
  ASSUME NEW r \in Job
  PROVE  Recovered(r) \in Job
<1> DEFINE over == r.state = "running" /\ ~r.leased
           first == IF ~over THEN r ELSE Ends(r, IF r.dispatched THEN "failed" ELSE "queued")
<1>1. first \in Job
  BY JobEnds
<1> HIDE DEF first
<1>2. Ends(first, "failed") \in Job
  BY <1>1, JobEnds
<1>3. Recovered(r) = first \/ Recovered(r) = Ends(first, "failed")
  BY DEF Recovered, first
<1>4. QED
  BY <1>1, <1>2, <1>3

LEMMA JobLeased ==
  ASSUME NEW r \in Job, r.attempts < MaxAttempts
  PROVE  Leased(r) \in Job
<1>1. r.attempts + 1 \in 0..MaxAttempts
  BY JobQueueAssumption DEF Job
<1> DEFINE tried == r.attempts + 1
<1> HIDE DEF tried
<1>2. [r EXCEPT !.state = "running", !.attempts = tried, !.owner = "mine", !.leased = TRUE] \in Job
  BY <1>1 DEF Job, tried
<1>3. QED
  BY <1>2, Zenon DEF Leased, tried

LEMMA QueueAtFirst == QueueInit => QueueInv
  BY DEF QueueInit, QueueInv, QueueTypeOK, Left

LEMMA QueueOn == QueueInv /\ [QueueNext]_queueVars => QueueInv'
<1> SUFFICES ASSUME QueueInv, [QueueNext]_queueVars PROVE QueueInv'
  OBVIOUS
<1>1. job \in [Jobs -> Job] /\ working \subseteq Jobs /\ \A i, j \in working : i = j
  BY DEF QueueInv, QueueTypeOK
<1>2. CASE ClaimNext
  <2> DEFINE after == [j \in Jobs |-> Recovered(job[j])]
  <2>1. after \in [Jobs -> Job]
    BY <1>1, JobRecovered
  <2>2. CASE job' = after /\ UNCHANGED working
    BY <1>1, <2>1, <2>2 DEF QueueInv, QueueTypeOK
  <2>3. ASSUME NEW j \in Jobs, after[j].attempts < MaxAttempts, working' = {j},
               job' = [after EXCEPT ![j] = Leased(@)]
        PROVE  QueueInv'
    <3> HIDE DEF after
    <3>1. Leased(after[j]) \in Job
      BY <2>1, <2>3, JobLeased
    <3>2. job' \in [Jobs -> Job]
      BY <2>1, <2>3, <3>1
    <3>3. QED
      BY <2>3, <3>2 DEF QueueInv, QueueTypeOK
  <2>4. QED
    BY <1>2, <2>2, <2>3 DEF ClaimNext
<1>3. CASE TurnDown
  <2>1. PICK j \in working :
          /\ working' = {}
          /\ job' = IF job[j].state = "running" /\ job[j].owner = "mine" /\ job[j].leased
                    THEN [job EXCEPT ![j] = Ends(@, "failed")] ELSE job
    BY <1>3 DEF TurnDown
  <2>2. Ends(job[j], "failed") \in Job
    BY <1>1, JobEnds
  <2>3. job' \in [Jobs -> Job]
    BY <1>1, <2>1, <2>2
  <2>4. QED
    BY <2>1, <2>3 DEF QueueInv, QueueTypeOK
<1>4. CASE WorkerDies
  <2>1. \A r \in Job : [r EXCEPT !.owner = "dead"] \in Job
    BY DEF Job
  <2>2. working' = {} /\ job' \in [Jobs -> Job]
    BY <1>1, <1>4, <2>1 DEF WorkerDies
  <2>3. QED
    BY <2>2 DEF QueueInv, QueueTypeOK
<1>5. ASSUME NEW j \in Jobs, JobLeaseEnds(j) PROVE QueueInv'
  <2>1. job' \in [Jobs -> Job]
    BY <1>1, <1>5 DEF JobLeaseEnds, Job
  <2>2. QED
    BY <1>1, <1>5, <2>1 DEF JobLeaseEnds, QueueInv, QueueTypeOK
<1>6. CASE UNCHANGED queueVars
  BY <1>1, <1>6 DEF queueVars, QueueInv, QueueTypeOK
<1>7. QED
  BY <1>2, <1>3, <1>4, <1>5, <1>6 DEF QueueNext

(* However often the worker dies, what is left of an older release is tried  *)
(* no more often than MAX_ATTEMPTS.                                          *)
THEOREM QueueTypes == QueueSpec => []QueueTypeOK
<1>1. QueueInv => QueueTypeOK
  BY DEF QueueInv
<1>2. QED
  BY <1>1, QueueAtFirst, QueueOn, PTL DEF QueueSpec

-----------------------------------------------------------------------------
(* The probe                                                                 *)

LEMMA RowTaken ==
  ASSUME NEW S, NEW q \in Seq(S), NEW k \in 1..Len(q)
  PROVE  Without(q, k) \in Seq(S) /\ Len(Without(q, k)) = Len(q) - 1
<1>1. Len(q) \in Nat /\ q \in [1..Len(q) -> S]
  OBVIOUS
<1> DEFINE before == SubSeq(q, 1, k - 1)
           rest   == SubSeq(q, k + 1, Len(q))
<1>2. before \in Seq(S) /\ Len(before) = k - 1
  BY <1>1
<1>3. rest \in Seq(S) /\ Len(rest) = Len(q) - k
  <2>1. \A n \in (k + 1)..Len(q) : q[n] \in S
    BY <1>1
  <2>2. rest \in Seq(S) /\ Len(rest) = IF k + 1 <= Len(q) THEN Len(q) - (k + 1) + 1 ELSE 0
    BY <1>1, <2>1, SubSeqProperties
  <2>3. CASE k = Len(q)
    <3>1. ~(k + 1 <= Len(q)) /\ Len(q) - k = 0
      BY <1>1, <2>3
    <3>2. QED
      BY <2>2, <3>1, Zenon
  <2>4. CASE k # Len(q)
    <3>1. \A n \in Nat : \A m \in 1..n : m # n => m + 1 <= n /\ n - (m + 1) + 1 = n - m
      OBVIOUS
    <3>2. k + 1 <= Len(q) /\ Len(q) - (k + 1) + 1 = Len(q) - k
      BY <1>1, <2>4, <3>1, Zenon
    <3>3. QED
      BY <2>2, <3>2, Zenon
  <2>5. QED
    BY <2>3, <2>4
<1>4. Without(q, k) = before \o rest
  BY DEF Without
<1> HIDE DEF before, rest
<1>5. before \o rest \in Seq(S) /\ Len(before \o rest) = Len(before) + Len(rest)
  BY <1>2, <1>3, ConcatProperties
<1>6. QED
  BY <1>1, <1>2, <1>3, <1>4, <1>5

LEMMA ProbeAtFirst == ProbeInit => ProbeTypeOK
<1> SUFFICES ASSUME ProbeInit PROVE ProbeTypeOK
  OBVIOUS
<1>1. history \in Seq(Kinds) /\ Len(history) \in Nat
  BY LifecycleProbeAssumption DEF ProbeInit
<1>2. QED
  BY <1>1, LifecycleProbeAssumption DEF ProbeInit, ProbeTypeOK, Places

LEMMA ProbeOn == ProbeTypeOK /\ [ProbeNext]_probeVars => ProbeTypeOK'
<1> SUFFICES ASSUME ProbeTypeOK, [ProbeNext]_probeVars PROVE ProbeTypeOK'
  OBVIOUS
<1>1. Len(history) \in Nat /\ Places = 1..Len(history) /\ Len(queue) \in Nat
  BY LifecycleProbeAssumption DEF ProbeTypeOK, Places
<1> DEFINE Q == Seq(Places)
<1>2. ASSUME NEW next \in {"ask", "idle"}, Pass(next), UNCHANGED <<provider, stops>> PROVE ProbeTypeOK'
  <2>1. UNCHANGED <<history, happened, sent, twice, stops>> /\ Places' = Places
    BY <1>2 DEF provider, Places
  <2>2. CASE seen < Len(queue)
    <3>1. Handles /\ UNCHANGED <<run, command>>
      BY <1>2, <2>2 DEF Pass
    <3>2. seen + 1 \in 1..Len(queue) /\ queue[seen + 1] \in Places
      BY <1>1, <2>2 DEF ProbeTypeOK
    <3>3. CASE seen' = seen + 1 /\ UNCHANGED <<queue, recorded>>
      BY <1>1, <2>1, <3>1, <3>2, <3>3 DEF ProbeTypeOK
    <3>4. CASE /\ queue' = Without(queue, seen + 1) /\ UNCHANGED seen
               /\ recorded' = IF run.state = "none" THEN recorded ELSE recorded \cup {queue[seen + 1]}
      <4>1. queue \in Seq(Places)
        BY DEF ProbeTypeOK
      <4>2. queue' \in Seq(Places) /\ Len(queue') = Len(queue) - 1
        BY <3>2, <3>4, <4>1, RowTaken
      <4>3. seen' \in 0..Len(queue')
        BY <1>1, <2>2, <3>4, <4>2 DEF ProbeTypeOK
      <4>4. recorded' \subseteq Places
        BY <3>2, <3>4 DEF ProbeTypeOK
      <4>5. QED
        BY <2>1, <3>1, <4>2, <4>3, <4>4 DEF ProbeTypeOK
    <3>5. QED
      BY <3>1, <3>3, <3>4 DEF Handles
  <2>3. CASE ~(seen < Len(queue))
    <3>1. command' = next /\ seen' = 0 /\ UNCHANGED <<queue, recorded>>
          /\ run' \in {run, [run EXCEPT !.state = "ready"]}
      BY <1>2, <2>3 DEF Pass
    <3>2. run' \in [state : {"none", "collecting", "ready"}, verified : BOOLEAN]
      BY <3>1 DEF ProbeTypeOK
    <3>3. QED
      BY <1>1, <2>1, <3>1, <3>2 DEF ProbeTypeOK
  <2>4. QED
    BY <2>2, <2>3
<1>3. ASSUME UNCHANGED <<provider, queue, recorded, stops>>, seen' = seen \/ seen' = 0,
             command' \in {"idle", "first", "ask", "second"},
             run' \in [state : {"none", "collecting", "ready"}, verified : BOOLEAN]
      PROVE  ProbeTypeOK'
  BY <1>1, <1>3 DEF provider, ProbeTypeOK, Places
<1>4. CASE Prepares \/ CommandStarts \/ Asks
  <2>1. CASE Prepares
    <3>1. run' \in [state : {"none", "collecting", "ready"}, verified : BOOLEAN]
      BY <2>1 DEF Prepares
    <3>2. QED
      BY <1>3, <2>1, <3>1 DEF Prepares, ProbeTypeOK
  <2>2. CASE CommandStarts
    BY <1>3, <2>2 DEF CommandStarts, store, ProbeTypeOK
  <2>3. CASE Asks
    <3>1. run' = run \/ run' = [run EXCEPT !.verified = TRUE]
      BY <2>3 DEF Asks
    <3>2. run' \in [state : {"none", "collecting", "ready"}, verified : BOOLEAN]
      BY <3>1 DEF ProbeTypeOK
    <3>3. QED
      BY <1>3, <2>3, <3>2 DEF Asks, ProbeTypeOK
  <2>4. QED
    BY <1>4, <2>1, <2>2, <2>3
<1>5. CASE CommandStops
  <2>1. stops' \in 0..MaxStops /\ seen' = 0 /\ command' = "idle" /\ UNCHANGED <<provider, store>>
    BY <1>5, LifecycleProbeAssumption DEF CommandStops, Stop, ProbeTypeOK
  <2>2. QED
    BY <1>1, <2>1 DEF provider, store, ProbeTypeOK, Places
<1>6. CASE Cleans
  BY <1>1, <1>6 DEF Cleans, provider, ProbeTypeOK, Places
<1>7. CASE Happens
  <2>1. happened' \in 1..Len(history) /\ sent' = sent \cup {happened'}
        /\ UNCHANGED <<history, twice, store, command, seen, stops>>
    BY <1>1, <1>7 DEF Happens, ProbeTypeOK
  <2>2. QED
    BY <1>1, <2>1 DEF store, ProbeTypeOK, Places
<1>8. ASSUME NEW n \in sent, Arrives(n) PROVE ProbeTypeOK'
  <2>1. queue' = Append(queue, n) /\ n \in Places /\ sent' \subseteq Places /\ twice' \in 0..MaxTwice
        /\ UNCHANGED <<history, happened, run, recorded, command, seen, stops>>
    BY <1>8, LifecycleProbeAssumption DEF Arrives, ProbeTypeOK
  <2>2. queue' \in Seq(Places) /\ Len(queue') = Len(queue) + 1
    BY <2>1 DEF ProbeTypeOK
  <2>3. seen' \in 0..Len(queue') /\ Places' = Places
    BY <1>1, <2>1, <2>2 DEF ProbeTypeOK, Places
  <2>4. QED
    BY <2>1, <2>2, <2>3 DEF ProbeTypeOK
<1>9. CASE UNCHANGED probeVars
  BY <1>9 DEF probeVars, provider, store, ProbeTypeOK, Places
<1>10. CASE FirstPass \/ SecondPass
  BY <1>2, <1>10 DEF FirstPass, SecondPass
<1>11. QED
  BY <1>4, <1>5, <1>6, <1>7, <1>8, <1>9, <1>10 DEF ProbeNext, Commands, Provides

(* Whatever the order of the webhooks and wherever the command is stopped,   *)
(* the command never looks past the end of its queue, and no fact is         *)
(* recorded that the life does not have.                                     *)
THEOREM ProbeTypes == ProbeSpec => []ProbeTypeOK
  BY ProbeAtFirst, ProbeOn, PTL DEF ProbeSpec

-----------------------------------------------------------------------------
(* The components together                                                   *)

HostInv ==
  /\ ReadInv /\ LeafletInv /\ QueueInv
  /\ EngineInv /\ RowTrue /\ LaunchInv /\ ProbeTypeOK

(* Where the queue is not looked at, its jobs are over.                      *)
LEMMA OverIsAJob == (CHOOSE old \in Job : old.state = "failed") \in Job
<1> DEFINE over == [state |-> "failed", attempts |-> 0, dispatched |-> FALSE,
                    owner |-> "none", leased |-> FALSE]
<1>1. over \in Job /\ over.state = "failed"
  BY JobQueueAssumption DEF Job
<1> HIDE DEF over
<1>2. \E old \in Job : old.state = "failed"
  BY <1>1
<1>3. QED
  BY <1>2, Zenon

LEMMA HostStart == HostInit => HostInv
<1> SUFFICES ASSUME HostInit PROVE HostInv
  OBVIOUS
<1>1. CollectionInit /\ LeafletInit /\ LaunchInit /\ ProbeInit /\ working = {}
  BY DEF HostInit
<1>2. QueueInv
  <2>1. CASE story = "queue"
    BY <1>1, <2>1, QueueAtFirst DEF HostInit, QueueInit
  <2>2. CASE story # "queue"
    <3>1. job = [j \in Jobs |-> CHOOSE old \in Job : old.state = "failed"]
      BY <2>2 DEF HostInit
    <3>2. job \in [Jobs -> Job]
      BY <3>1, OverIsAJob
    <3>3. QED
      BY <1>1, <3>2 DEF QueueInv, QueueTypeOK
  <2>3. QED
    BY <2>1, <2>2
<1>3. RowTrue
  BY <1>1, RowInit DEF LaunchInit
<1>4. QED
  BY <1>1, <1>2, <1>3, ReadAtFirst, LeafletAtFirst, BothAtFirst, ProbeAtFirst DEF HostInv

LEMMA HostKeep ==
  HostInv /\ [HostNext]_<<story, collectionVars, leafletVars, queueVars, engineVars, launchVars, probeVars>>
    => HostInv'
<1> SUFFICES ASSUME HostInv, [HostNext]_<<story, collectionVars, leafletVars, queueVars,
                                          engineVars, launchVars, probeVars>>
             PROVE  HostInv'
  OBVIOUS
<1>1. /\ [CollectionNext]_collectionVars /\ [LeafletNext]_leafletVars /\ [QueueNext]_queueVars
      /\ [ProbeNext]_probeVars
  BY DEF HostNext
<1>2. [LaunchNext]_<<engineVars, launchVars>>
  BY DEF HostNext, LaunchNext
<1>3. [EngineNext]_engineVars
  BY <1>2, EngineStep
<1>4. ReadInv' /\ LeafletInv' /\ QueueInv' /\ ProbeTypeOK'
  BY <1>1, ReadOn, LeafletOn, QueueOn, ProbeOn DEF HostInv
<1>5. EngineInv' /\ RowTrue' /\ LaunchInv'
  BY <1>2, <1>3, BothStay, RowStays DEF HostInv
<1>6. QED
  BY <1>4, <1>5 DEF HostInv

LEMMA HostHeld == HostSpec => []HostInv
  BY HostStart, HostKeep, PTL DEF HostSpec

(* Side by side, in whichever story: each component's variables keep their   *)
(* types, and their counters the limits of the code.                         *)
THEOREM HostTypes == HostSpec => []HostTypeOK
<1>1. HostInv => HostTypeOK
  BY ReadTypes DEF HostInv, LeafletInv, QueueInv, EngineInv, LaunchInv, HostTypeOK
<1>2. QED
  BY <1>1, HostHeld, PTL

(* And what each of them promises is true of the whole: a leaflet is paid    *)
(* for by one and rarely twice and is read in full, an engine is ready only  *)
(* with its own evidence, and a checkout is open only with its own proof.    *)
THEOREM HostHolds ==
  HostSpec => [](PaidAlone /\ FailedOnce /\ ReadInFull /\ EvidenceMatches /\ OpenIsProven)
<1>1. HostInv => PaidAlone /\ FailedOnce /\ ReadInFull /\ EvidenceMatches /\ OpenIsProven
  BY ClaimsPay, FailuresFew, LeafletInFull, RowCounts, OpenSigned DEF HostInv, ReadInv
<1>2. QED
  BY <1>1, HostHeld, PTL
=============================================================================
